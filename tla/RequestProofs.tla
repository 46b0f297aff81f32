---------------------------- MODULE RequestProofs ----------------------------
(***************************************************************************)
(* Proofs about what the server does for requests that come in any order:   *)
(* Operations, for any number of them at once, and Markers, for any edits,  *)
(* any limits and any text.                                                 *)
(*                                                                         *)
(* The inductive invariant of Operations says of each request which of its  *)
(* resources can exist at each position of its handler: an entry in the     *)
(* registry, a child process, a private directory; and who else may hold a  *)
(* directory.  That of Markers: the stacks of texts and of marker records   *)
(* are points of one line of views, and a record leads from one to the next.*)
(***************************************************************************)
EXTENDS Operations, Markers, TLAPS, FiniteSetTheorems, SequenceTheorems, WellFoundedInduction

-----------------------------------------------------------------------------
(* Operations.                                                             *)

\* The registry holds only what a handler will take out again.
RegInv(r) ==
    r \in registry =>
        \/ job[r].pc \in {"run", "drain"}
        \/ ~Worker(r) /\ job[r].pc \in {"input", "write", "select", "copy", "plan", "spawn"}

\* A child runs under its handler, or under none since a crash.
ChildInv(r) ==
    /\ child[r] = "running" => In(r, "run") \/ job[r].res = "lost"
    /\ job[r].pc \in {"start", "input", "write", "select", "copy", "plan", "spawn"} => child[r] = "none"
    /\ child[r] \in {"none", "mismatch"} => target[r] = "old"
    /\ child[r] = "ok" /\ Writes(r) => target[r] = "new"

ResInv(r) ==
    /\ job[r].pc \in {"start", "input", "write", "select", "copy", "plan", "spawn", "run"} =>
          job[r].res = "none"
    /\ job[r].res = "lost" => In(r, "done")
    /\ job[r].res = "ok" => child[r] = "ok"
    /\ job[r].res \in {"restart", "unlocated"} => child[r] \in {"none", "mismatch"}
    /\ job[r].res = "canceled" => op[r].canceled

\* A handler holds a view that others may share, and what is its own.
HoldInv(r) ==
    /\ job[r].pc \in {"start", "input", "done"} => holds[r] = {}
    /\ holds[r] \subseteq scratch
    /\ \A d \in holds[r] :
        \/ d.what = "view"
        \/ d.what = "input" /\ d.r = r /\ ~UsesView(r)
        \/ d.what = "selection" /\ d.r = r /\ ~In(r, "write")

\* A private directory is of this process, and where its handler can drop it,
\* or a view that somebody holds, or one of those that are left.
DirInv(r) ==
    \A d \in scratch : d.r = r /\ d.owner # Sibling =>
        /\ d.owner = pid
        /\ \/ job[r].res = "lost"
           \/ d.what = "view" /\ (d \in Held \/ pid \notin alive)
           \/ d.what \in {"input", "selection"} /\ d \in holds[r]
           \/ d.what = "input" /\ In(r, "done") /\ job[r].res = "dropped"
              /\ (d \in others \/ pid \notin alive)
           \/ d.what = "selection" /\ In(r, "done") /\ job[r].res = "dropped"
           \/ d.what = "spill" /\ job[r].pc \in {"spawn", "run", "drain", "tidy"}
           \/ d.what = "spill" /\ In(r, "done") /\ job[r].res \in {"dropped", "restart", "unlocated"}

Good(r) == RegInv(r) /\ ChildInv(r) /\ ResInv(r) /\ HoldInv(r) /\ DirInv(r)

\* The cache holds a view; tasks that outlived their request, an input too.
SharedInv ==
    /\ cache \subseteq scratch /\ others \subseteq scratch
    /\ \A d \in cache : d.what = "view"
    /\ \A d \in others :
        \/ d.what = "view"
        \/ d.what = "input" /\ In(d.r, "done") /\ job[d.r].res = "dropped"

\* No handler runs in a server that is gone.
AliveInv ==
    \/ pid \in alive
    \/ Held = {} /\ \A r \in Ops : job[r].pc \in {"start", "done"}

OpIInv == OpTypeOK /\ AliveInv /\ SharedInv /\ \A r \in Ops : Good(r)

-----------------------------------------------------------------------------
(* How a handler moves on.                                                 *)

\* Only r moves, and its kind stays.
Steps(r, pc, res) ==
    /\ job' \in [Ops -> Jobs]
    /\ job'[r].kind = job[r].kind /\ job'[r].pc = pc /\ job'[r].res = res
    /\ \A q \in Ops \ {r} : job'[q] = job[q]

LEMMA AnswerSteps ==
    ASSUME OpTypeOK, NEW r \in Ops, NEW pc \in Handler, NEW a \in Answers, Answer(r, pc, a)
    PROVE  Steps(r, pc, a)
<1> DEFINE j == [job[r] EXCEPT !.pc = pc, !.res = a]
<1>1. job \in [Ops -> Jobs] /\ job[r] \in Jobs
  BY DEF OpTypeOK
<1>2. j \in Jobs /\ j.kind = job[r].kind /\ j.pc = pc /\ j.res = a
  BY <1>1 DEF Jobs
<1>3. job' = [job EXCEPT ![r] = j]
  BY <1>1 DEF Answer, Jobs
<1> HIDE DEF j
<1> QED
  BY <1>1, <1>2, <1>3 DEF Steps

LEMMA ToSteps ==
    ASSUME OpTypeOK, NEW r \in Ops, NEW pc \in Handler, To(r, pc)
    PROVE  Steps(r, pc, job[r].res)
<1> DEFINE j == [job[r] EXCEPT !.pc = pc]
<1>1. job \in [Ops -> Jobs] /\ job[r] \in Jobs
  BY DEF OpTypeOK
<1>2. j \in Jobs /\ j.kind = job[r].kind /\ j.pc = pc /\ j.res = job[r].res
  BY <1>1 DEF Jobs
<1>3. job' = [job EXCEPT ![r] = j]
  BY <1>1 DEF To, Jobs
<1> HIDE DEF j
<1> QED
  BY <1>1, <1>2, <1>3 DEF Steps

\* What the invariant says of a request is of what is its own.
Stays(q) ==
    /\ job'[q] = job[q] /\ op'[q] = op[q] /\ child'[q] = child[q] /\ target'[q] = target[q]
    /\ holds'[q] = holds[q]
    /\ q \in registry' => q \in registry
    /\ \A d \in scratch' : d.r = q => d \in scratch

\* What somebody holds stays, and a view or an input that nobody holds any
\* more is gone.
Shares ==
    /\ \A d \in scratch : d \in Held' => d \in scratch'
    /\ \A d \in scratch' : d \in Held /\ d.what = "view" => d \in Held'
    /\ \A d \in scratch' : d \in others /\ d.what = "input" => d \in others'

LEMMA StayGood ==
    ASSUME NEW q \in Ops, Good(q), Stays(q), Shares, pid' = pid, alive' \subseteq alive
    PROVE  Good(q)'
<1>1. RegInv(q)' /\ ChildInv(q)' /\ ResInv(q)'
  BY DEF Good, RegInv, ChildInv, ResInv, Stays, In, Worker, Writes
<1>2. HoldInv(q)'
  <2>1. \A d \in holds'[q] : d \in Held'
    BY DEF Held
  <2> QED
    BY <2>1 DEF Good, HoldInv, Stays, Shares, In, UsesView
<1>3. DirInv(q)'
  BY DEF Good, DirInv, Stays, Shares, In
<1> QED
  BY <1>1, <1>2, <1>3 DEF Good

LEMMA OneMoves ==
    ASSUME OpIInv, Up, NEW r \in Ops, pid' = pid, alive' = alive, OpTypeOK', SharedInv', Shares,
           Good(r)', \A q \in Ops \ {r} : Stays(q)
    PROVE  OpIInv'
<1>1. ASSUME NEW q \in Ops \ {r} PROVE Good(q)'
  BY <1>1, StayGood DEF OpIInv
<1>2. AliveInv'
  BY DEF Up, AliveInv
<1> QED
  BY <1>1, <1>2 DEF OpIInv

\* No request moves, and what is shared is as it must be.
LEMMA NoneMoves ==
    ASSUME OpIInv, Up, pid' = pid, alive' = alive, OpTypeOK', SharedInv', Shares,
           \A q \in Ops : Stays(q)
    PROVE  OpIInv'
<1>1. ASSUME NEW q \in Ops PROVE Good(q)'
  BY <1>1, StayGood DEF OpIInv
<1> QED
  BY <1>1 DEF Up, AliveInv, OpIInv

\* Who holds a directory.
LEMMA HeldBy ==
    /\ \A d : d \in Held <=> d \in cache \/ d \in others \/ \E s \in Ops : d \in holds[s]
    /\ \A d : d \in Held' <=> d \in cache' \/ d \in others' \/ \E s \in Ops : d \in holds'[s]
BY DEF Held

\* A step that lets no directory come or go, and no guard.
Unmoved(r) ==
    /\ UNCHANGED <<dirVars, hostVars>>
    /\ job[r].pc # "done" \/ job'[r] = job[r]

LEMMA UnmovedShares ==
    ASSUME OpIInv, NEW r \in Ops, Unmoved(r), \A q \in Ops \ {r} : Stays(q)
    PROVE  Shares /\ SharedInv' /\ Held' = Held
<1>1. others' = others /\ cache' = cache /\ scratch' = scratch /\ holds' = holds
  BY DEF Unmoved, dirVars
<1>2. Held' = Held
  BY <1>1 DEF Held
<1>3. ASSUME NEW d \in others, d.what = "input" PROVE In(d.r, "done")' /\ job'[d.r].res = "dropped"
  <2>1. In(d.r, "done") /\ job[d.r].res = "dropped" /\ d.r \in Ops
    BY <1>3 DEF OpIInv, SharedInv, OpTypeOK, Dirs
  <2>2. job'[d.r] = job[d.r]
    BY <2>1 DEF Stays, In, Unmoved
  <2> QED
    BY <2>1, <2>2 DEF In
<1> QED
  BY <1>1, <1>2, <1>3 DEF OpIInv, SharedInv, Shares

\* A step that makes directories for r, and drops the guards of others.
Moves(r, gone, made) ==
    /\ \A d : d \in scratch' <=> (d \in scratch /\ (d \in gone => d \in Held')) \/ d \in made
    /\ made \subseteq {Dir(r, what) : what \in {"input", "view", "selection", "spill"}}
    /\ \A d \in made : d \in holds'[r] \/ d.what = "spill"
    /\ \A d \in cache \cup holds[r] : d \in Held' \/ d \in gone \/ d.what = "selection"
    /\ others \subseteq others'
    /\ \A q \in Ops \ {r} :
        /\ job'[q] = job[q] /\ op'[q] = op[q] /\ child'[q] = child[q] /\ target'[q] = target[q]
        /\ holds'[q] = holds[q]
        /\ q \in registry' => q \in registry
    /\ pid' = pid /\ alive' = alive

LEMMA MovesShare ==
    ASSUME OpIInv, NEW r \in Ops, NEW gone, NEW made, Moves(r, gone, made)
    PROVE  Shares /\ \A q \in Ops \ {r} : Stays(q)
<1>1. \A d : d \in Held => d \in Held' \/ d \in gone \/ d.what = "selection"
  BY HeldBy DEF Moves
<1>2. \A d \in made : d \in Held' \/ d.what = "spill"
  BY HeldBy DEF Moves
<1>3. \A q \in Ops \ {r} : \A d \in scratch' : d.r = q => d \in scratch
  BY DEF Moves, Dir
<1> QED
  BY <1>1, <1>2, <1>3 DEF Moves, Shares, Stays

\* The guards that are shared stay those of views, and of tasks that go on.
LEMMA StayShared ==
    ASSUME OpIInv, OpTypeOK', NEW r \in Ops, Shares, \A q \in Ops \ {r} : Stays(q),
           job[r].pc # "done", cache' \cup others' \subseteq scratch \cup scratch',
           \A d \in cache' : d.what = "view",
           \A d \in others' :
               \/ d \in others \/ d.what = "view"
               \/ d.what = "input" /\ d.r = r /\ job'[r].pc = "done" /\ job'[r].res = "dropped"
    PROVE  SharedInv'
<1>1. cache' \subseteq scratch' /\ others' \subseteq scratch'
  BY HeldBy DEF Shares
<1>2. ASSUME NEW d \in others', d.what # "view"
      PROVE  d.what = "input" /\ In(d.r, "done")' /\ job'[d.r].res = "dropped"
  <2>1. CASE d \in others
    <3>1. d.what = "input" /\ In(d.r, "done") /\ job[d.r].res = "dropped" /\ d.r \in Ops
      BY <1>2, <2>1 DEF OpIInv, SharedInv, OpTypeOK, Dirs
    <3>2. job'[d.r] = job[d.r]
      BY <3>1 DEF Stays, In
    <3> QED
      BY <3>1, <3>2 DEF In
  <2> QED
    BY <1>2, <2>1 DEF In
<1> QED
  BY <1>1, <1>2 DEF SharedInv

\* Nobody else holds what a handler was given alone.
LEMMA OwnAlone ==
    ASSUME OpIInv, NEW r \in Ops, job[r].pc # "done", NEW d \in holds[r], d.what # "view"
    PROVE  d \notin cache /\ d \notin others /\ \A s \in Ops \ {r} : d \notin holds[s]
<1>1. d.r = r
  BY DEF OpIInv, Good, HoldInv
<1> QED
  BY <1>1 DEF OpIInv, Good, HoldInv, SharedInv, In

\* With the frame goes what it alone held.
LEMMA GoneWithFrame ==
    ASSUME OpIInv, NEW r \in Ops, job[r].pc # "done", NEW gone, NEW made, Moves(r, gone, made),
           holds'[r] = {}, cache' = cache, others' = others, NEW d \in holds[r], d \in gone,
           d \in scratch', d \notin made
    PROVE  d.what = "view"
<1> SUFFICES ASSUME d.what # "view" PROVE FALSE
  OBVIOUS
<1>1. d \notin cache /\ d \notin others /\ \A s \in Ops \ {r} : d \notin holds[s]
  BY OwnAlone
<1>2. d \in Held'
  BY DEF Moves
<1>3. PICK s \in Ops : d \in holds'[s]
  BY <1>1, <1>2, HeldBy
<1> QED
  BY <1>1, <1>3 DEF Moves

\* What is left of r's directories then, but for those the step makes.
LEMMA LeftByFrame ==
    ASSUME OpIInv, Up, NEW r \in Ops, job[r].pc # "done", NEW gone, NEW made,
           Moves(r, gone, made), holds[r] \subseteq gone, Shares, holds'[r] = {},
           cache' = cache, others' = others,
           NEW d \in scratch', d \notin made, d.r = r, d.owner # Sibling
    PROVE  /\ d.owner = pid
           /\ \/ d.what = "view" /\ d \in Held'
              \/ d.what = "spill" /\ job[r].pc \in {"spawn", "run", "drain", "tidy"}
<1>1. d \in scratch
  BY DEF Moves
<1>2. /\ d.owner = pid
      /\ \/ d.what = "view" /\ d \in Held
         \/ d.what \in {"input", "selection"} /\ d \in holds[r]
         \/ d.what = "spill" /\ job[r].pc \in {"spawn", "run", "drain", "tidy"}
  BY <1>1 DEF OpIInv, Good, DirInv, ResInv, In, Up
<1>3. d \in holds[r] => d.what = "view"
  BY GoneWithFrame
<1> QED
  BY <1>2, <1>3 DEF Shares

-----------------------------------------------------------------------------
(* Every step of a handler keeps the invariant.                            *)

\* An action is tracked at once.
LEMMA RequestKeeps == ASSUME OpIInv, Up, NEW r \in Ops, Request(r) PROVE OpIInv'
<1>1. /\ In(r, "start") /\ Unmoved(r)
      /\ \/ Steps(r, "input", job[r].res) /\ (Worker(r) \/ UsesView(r))
         \/ Steps(r, "select", job[r].res) /\ ~Worker(r) /\ ~UsesView(r)
      /\ registry' = IF Worker(r) THEN registry ELSE registry \cup {r}
      /\ UNCHANGED <<op, watch, child, pipe, target>>
  BY ToSteps DEF OpIInv, Request, Handler, Unmoved, In, hostVars
<1>2. OpTypeOK'
  BY <1>1 DEF OpIInv, OpTypeOK, Steps, Unmoved, dirVars, hostVars
<1>3. \A q \in Ops \ {r} : Stays(q)
  BY <1>1 DEF Steps, Stays, Unmoved, dirVars
<1>4. Shares /\ SharedInv' /\ Held' = Held
  BY <1>1, <1>3, UnmovedShares
<1>5. Good(r)'
  BY <1>1, <1>4 DEF OpIInv, Good, RegInv, ChildInv, ResInv, HoldInv, DirInv, Steps, In, Worker,
     Writes, UsesView, Unmoved, dirVars, hostVars
<1> QED
  BY <1>1, <1>2, <1>3, <1>4, <1>5, OneMoves DEF Unmoved, hostVars

\* The selection is written.
LEMMA CopiedKeeps == ASSUME OpIInv, Up, NEW r \in Ops, Copied(r) PROVE OpIInv'
<1>1. /\ In(r, "copy") /\ Unmoved(r)
      /\ Steps(r, "plan", job[r].res)
      /\ UNCHANGED <<registry, op, watch, child, pipe, target>>
  BY ToSteps DEF OpIInv, Copied, Handler, Unmoved, In, hostVars
<1>2. OpTypeOK'
  BY <1>1 DEF OpIInv, OpTypeOK, Steps, Unmoved, dirVars, hostVars
<1>3. \A q \in Ops \ {r} : Stays(q)
  BY <1>1 DEF Steps, Stays, Unmoved, dirVars
<1>4. Shares /\ SharedInv' /\ Held' = Held
  BY <1>1, <1>3, UnmovedShares
<1>5. Good(r)'
  BY <1>1, <1>4 DEF OpIInv, Good, RegInv, ChildInv, ResInv, HoldInv, DirInv, Steps, In, Worker,
     Writes, UsesView, Unmoved, dirVars, hostVars
<1> QED
  BY <1>1, <1>2, <1>3, <1>4, <1>5, OneMoves DEF Unmoved, hostVars

\* Only here does a child begin.
LEMMA SpawnKeeps == ASSUME OpIInv, Up, NEW r \in Ops, Spawn(r) PROVE OpIInv'
<1>1. /\ \/ /\ Steps(r, "run", job[r].res) /\ registry' \subseteq registry \cup {r}
            /\ child' \in [Ops -> {"none", "running", "ok", "failed", "mismatch", "killed"}]
            /\ child'[r] \in {"running", "mismatch"}
            /\ \A q \in Ops \ {r} : child'[q] = child[q]
         \/ Steps(r, "tidy", "failed") /\ registry' = registry \ {r} /\ UNCHANGED child
      /\ In(r, "spawn") /\ Unmoved(r)
      /\ UNCHANGED <<op, watch, pipe, target>>
  BY ToSteps, AnswerSteps DEF OpIInv, OpTypeOK, Spawn, Handler, Answers, Unmoved, In, hostVars
<1>2. OpTypeOK'
  BY <1>1 DEF OpIInv, OpTypeOK, Steps, Unmoved, dirVars, hostVars
<1>3. \A q \in Ops \ {r} : Stays(q)
  BY <1>1 DEF Steps, Stays, Unmoved, dirVars
<1>4. Shares /\ SharedInv' /\ Held' = Held
  BY <1>1, <1>3, UnmovedShares
<1>5. Good(r)'
  BY <1>1, <1>4 DEF OpIInv, Good, RegInv, ChildInv, ResInv, HoldInv, DirInv, Steps, In, Worker,
     Writes, UsesView, Unmoved, dirVars, hostVars
<1> QED
  BY <1>1, <1>2, <1>3, <1>4, <1>5, OneMoves DEF Unmoved, hostVars

\* The answer is the exit status.
LEMMA WaitedKeeps == ASSUME OpIInv, Up, NEW r \in Ops, Waited(r) PROVE OpIInv'
<1>1. /\ \/ Steps(r, "drain", "ok") /\ child[r] = "ok"
         \/ Steps(r, "drain", "restart") /\ child[r] = "mismatch"
         \/ Steps(r, "drain", "failed")
      /\ In(r, "run") /\ child[r] \in {"ok", "failed", "mismatch"} /\ Unmoved(r)
      /\ UNCHANGED <<registry, op, watch, child, pipe, target>>
  BY AnswerSteps DEF OpIInv, Waited, Exited, Handler, Answers, Unmoved, In, hostVars
<1>2. OpTypeOK'
  BY <1>1 DEF OpIInv, OpTypeOK, Steps, Unmoved, dirVars, hostVars
<1>3. \A q \in Ops \ {r} : Stays(q)
  BY <1>1 DEF Steps, Stays, Unmoved, dirVars
<1>4. Shares /\ SharedInv' /\ Held' = Held
  BY <1>1, <1>3, UnmovedShares
<1>5. Good(r)'
  BY <1>1, <1>4 DEF OpIInv, Good, RegInv, ChildInv, ResInv, HoldInv, DirInv, Steps, In, Worker,
     Writes, UsesView, Unmoved, dirVars, hostVars
<1> QED
  BY <1>1, <1>2, <1>3, <1>4, <1>5, OneMoves DEF Unmoved, hostVars

\* A timeout kills the child.
LEMMA TimesOutKeeps == ASSUME OpIInv, Up, NEW r \in Ops, TimesOut(r) PROVE OpIInv'
<1>1. /\ Steps(r, "drain", "timeout") /\ In(r, "run") /\ Unmoved(r)
      /\ child' \in [Ops -> {"none", "running", "ok", "failed", "mismatch", "killed"}]
      /\ child'[r] = IF child[r] = "running" THEN "killed" ELSE child[r]
      /\ \A q \in Ops \ {r} : child'[q] = child[q]
      /\ pipe' \in [Ops -> BOOLEAN]
      /\ UNCHANGED <<registry, op, watch, target>>
  BY AnswerSteps DEF OpIInv, OpTypeOK, TimesOut, Killed, Worker, Handler, Answers, Unmoved, In, hostVars
<1>2. OpTypeOK'
  BY <1>1 DEF OpIInv, OpTypeOK, Steps, Unmoved, dirVars, hostVars
<1>3. \A q \in Ops \ {r} : Stays(q)
  BY <1>1 DEF Steps, Stays, Unmoved, dirVars
<1>4. Shares /\ SharedInv' /\ Held' = Held
  BY <1>1, <1>3, UnmovedShares
<1>5. Good(r)'
  BY <1>1, <1>4 DEF OpIInv, Good, RegInv, ChildInv, ResInv, HoldInv, DirInv, Steps, In, Worker,
     Writes, UsesView, Unmoved, dirVars, hostVars
<1> QED
  BY <1>1, <1>2, <1>3, <1>4, <1>5, OneMoves DEF Unmoved, hostVars

\* So does a cancel.
LEMMA CanceledKeeps == ASSUME OpIInv, Up, NEW r \in Ops, Canceled(r) PROVE OpIInv'
<1>1. /\ Steps(r, "drain", "canceled") /\ In(r, "run") /\ Unmoved(r)
      /\ child' \in [Ops -> {"none", "running", "ok", "failed", "mismatch", "killed"}]
      /\ child'[r] = IF child[r] = "running" THEN "killed" ELSE child[r]
      /\ \A q \in Ops \ {r} : child'[q] = child[q]
      /\ pipe' \in [Ops -> BOOLEAN]
      /\ op' \in [Ops -> [canceled : BOOLEAN, done : BOOLEAN]] /\ op'[r].canceled
      /\ \A q \in Ops \ {r} : op'[q] = op[q]
      /\ UNCHANGED <<registry, watch, target>>
  BY AnswerSteps DEF OpIInv, OpTypeOK, Canceled, Killed, Worker, Handler, Answers, Unmoved, In, hostVars
<1>2. OpTypeOK'
  BY <1>1 DEF OpIInv, OpTypeOK, Steps, Unmoved, dirVars, hostVars
<1>3. \A q \in Ops \ {r} : Stays(q)
  BY <1>1 DEF Steps, Stays, Unmoved, dirVars
<1>4. Shares /\ SharedInv' /\ Held' = Held
  BY <1>1, <1>3, UnmovedShares
<1>5. Good(r)'
  BY <1>1, <1>4 DEF OpIInv, Good, RegInv, ChildInv, ResInv, HoldInv, DirInv, Steps, In, Worker,
     Writes, UsesView, Unmoved, dirVars, hostVars
<1> QED
  BY <1>1, <1>2, <1>3, <1>4, <1>5, OneMoves DEF Unmoved, hostVars

\* The operation leaves the registry.
LEMMA DrainKeeps == ASSUME OpIInv, Up, NEW r \in Ops, Drain(r) PROVE OpIInv'
<1>1. /\ Steps(r, "tidy", job[r].res) /\ In(r, "drain") /\ Unmoved(r)
      /\ op' \in [Ops -> [canceled : BOOLEAN, done : BOOLEAN]]
      /\ op'[r].canceled = op[r].canceled /\ \A q \in Ops \ {r} : op'[q] = op[q]
      /\ registry' = registry \ {r}
      /\ UNCHANGED <<watch, child, pipe, target>>
  BY ToSteps, ZenonT(60) DEF OpIInv, OpTypeOK, Drain, Handler, Answers, Unmoved, In, hostVars
<1>2. OpTypeOK'
  BY <1>1 DEF OpIInv, OpTypeOK, Steps, Unmoved, dirVars, hostVars
<1>3. \A q \in Ops \ {r} : Stays(q)
  BY <1>1 DEF Steps, Stays, Unmoved, dirVars
<1>4. Shares /\ SharedInv' /\ Held' = Held
  BY <1>1, <1>3, UnmovedShares
<1>5. Good(r)'
  BY <1>1, <1>4 DEF OpIInv, Good, RegInv, ChildInv, ResInv, HoldInv, DirInv, Steps, In, Worker,
     Writes, UsesView, Unmoved, dirVars, hostVars
<1> QED
  BY <1>1, <1>2, <1>3, <1>4, <1>5, OneMoves DEF Unmoved, hostVars

\* The input of a worker is its own.
LEMMA MaterializeKeeps == ASSUME OpIInv, Up, NEW r \in Ops, Materialize(r) PROVE OpIInv'
<1>1. /\ Steps(r, "write", job[r].res) /\ In(r, "input") /\ ~UsesView(r)
      /\ \/ holds'[r] = {} /\ Moves(r, {}, {})
         \/ holds'[r] = {Dir(r, "input")} /\ Moves(r, {}, {Dir(r, "input")})
      /\ holds' \in [Ops -> SUBSET Dirs]
      /\ UNCHANGED <<registry, op, watch, child, pipe, target, cache, others, hostVars>>
  <2>1. Steps(r, "write", job[r].res) /\ In(r, "input") /\ holds[r] = {} /\ pid \in {0, 1, Sibling}
    BY ToSteps DEF OpIInv, OpTypeOK, Materialize, Handler, Good, HoldInv, In
  <2>2. CASE UNCHANGED <<scratch, holds>>
    BY <2>1, <2>2, HeldBy DEF OpIInv, OpTypeOK, Materialize, Moves, Steps, hostVars
  <2>3. CASE Given(r, "input")
    BY <2>1, <2>3, HeldBy DEF OpIInv, OpTypeOK, Materialize, Given, Moves, Steps, hostVars, Dir, Dirs
  <2> QED
    BY <2>2, <2>3 DEF Materialize
<1>2. OpTypeOK'
  BY <1>1 DEF OpIInv, OpTypeOK, Steps, Moves, Dirs, Dir, hostVars
<1>3. Shares /\ \A q \in Ops \ {r} : Stays(q)
  BY <1>1, MovesShare
<1>4. SharedInv'
  BY <1>1, <1>2, <1>3, StayShared DEF OpIInv, SharedInv, HoldInv, Good, Steps, In
<1>5. HoldInv(r)'
  BY <1>1, <1>3, HeldBy DEF OpIInv, SharedInv, HoldInv, Good, Shares, Moves, Steps, In, UsesView, Dir
<1>6. DirInv(r)'
  BY <1>1, <1>3, HeldBy, OwnAlone DEF OpIInv, SharedInv, HoldInv, DirInv, Good, Shares, Moves, Steps, In,
     Up, UsesView, Dir, hostVars
<1>7. Good(r)'
  BY <1>1, <1>5, <1>6 DEF OpIInv, Good, RegInv, ChildInv, ResInv, Steps, In, Worker, Writes
<1> QED
  BY <1>1, <1>2, <1>3, <1>4, <1>7, OneMoves DEF Moves, hostVars

\* So is the selection.
LEMMA SelectKeeps == ASSUME OpIInv, Up, NEW r \in Ops, Select(r) PROVE OpIInv'
<1>1. /\ In(r, "select")
      /\ \/ Steps(r, "plan", job[r].res) /\ holds'[r] = holds[r] /\ Moves(r, {}, {})
         \/ /\ Steps(r, "copy", job[r].res) /\ Moves(r, {}, {Dir(r, "selection")})
            /\ holds'[r] = holds[r] \cup {Dir(r, "selection")}
      /\ holds' \in [Ops -> SUBSET Dirs]
      /\ UNCHANGED <<registry, op, watch, child, pipe, target, cache, others, hostVars>>
  <2>1. CASE To(r, "plan") /\ UNCHANGED <<scratch, holds>>
    BY <2>1, ToSteps, HeldBy DEF OpIInv, OpTypeOK, Select, Handler, Moves, Steps, hostVars, In
  <2>2. CASE To(r, "copy") /\ Given(r, "selection")
    <3>1. Steps(r, "copy", job[r].res)
      BY <2>2, ToSteps DEF OpIInv, Handler
    <3>2. /\ holds' \in [Ops -> SUBSET Dirs] /\ holds'[r] = holds[r] \cup {Dir(r, "selection")}
          /\ \A q \in Ops \ {r} : holds'[q] = holds[q]
          /\ scratch' = scratch \cup {Dir(r, "selection")}
      BY <2>2 DEF OpIInv, OpTypeOK, Given, Dir, Dirs
    <3>3. Moves(r, {}, {Dir(r, "selection")})
      BY <3>1, <3>2, HeldBy DEF Select, Moves, Steps, hostVars
    <3> QED
      BY <3>1, <3>2, <3>3 DEF Select
  <2> QED
    BY <2>1, <2>2 DEF Select
<1>2. OpTypeOK'
  BY <1>1 DEF OpIInv, OpTypeOK, Steps, Moves, Dirs, Dir, hostVars
<1>3. Shares /\ \A q \in Ops \ {r} : Stays(q)
  BY <1>1, MovesShare
<1>4. SharedInv'
  BY <1>1, <1>2, <1>3, StayShared DEF OpIInv, SharedInv, HoldInv, Good, Steps, In
<1>5. HoldInv(r)'
  BY <1>1, <1>3, HeldBy DEF OpIInv, SharedInv, HoldInv, Good, Shares, Moves, Steps, In, UsesView, Dir
<1>6. DirInv(r)'
  BY <1>1, <1>3, HeldBy, OwnAlone DEF OpIInv, SharedInv, HoldInv, DirInv, Good, Shares, Moves, Steps, In,
     Up, UsesView, Dir, hostVars
<1>7. Good(r)'
  BY <1>1, <1>5, <1>6 DEF OpIInv, Good, RegInv, ChildInv, ResInv, Steps, In, Worker, Writes
<1> QED
  BY <1>1, <1>2, <1>3, <1>4, <1>7, OneMoves DEF Moves, hostVars

\* A view is the cache's too; a stale one goes with its last guard.
LEMMA WrittenKeeps == ASSUME OpIInv, Up, NEW r \in Ops, Written(r) PROVE OpIInv'
<1>1. /\ Moves(r, cache, {}) /\ In(r, "write")
      /\ \/ Steps(r, "plan", job[r].res) /\ Worker(r)
         \/ Steps(r, "select", job[r].res) /\ ~Worker(r)
      /\ cache' = IF UsesView(r) THEN holds[r] ELSE cache
      /\ UNCHANGED <<registry, op, watch, child, pipe, target, holds, others, hostVars>>
  <2>1. \/ Steps(r, "plan", job[r].res) /\ Worker(r)
        \/ Steps(r, "select", job[r].res) /\ ~Worker(r)
    BY ToSteps DEF OpIInv, Written, Handler
  <2>2. Moves(r, cache, {})
    BY <2>1, HeldBy DEF Written, Freed, Moves, Steps, hostVars
  <2> QED
    BY <2>1, <2>2 DEF Written
<1>2. OpTypeOK'
  BY <1>1 DEF OpIInv, OpTypeOK, Steps, Moves, Dirs, Dir, hostVars
<1>3. Shares /\ \A q \in Ops \ {r} : Stays(q)
  BY <1>1, MovesShare
<1>4. SharedInv'
  BY <1>1, <1>2, <1>3, StayShared DEF OpIInv, SharedInv, HoldInv, Good, Steps, In
<1>5. HoldInv(r)'
  BY <1>1, <1>3, HeldBy DEF OpIInv, SharedInv, HoldInv, Good, Shares, Moves, Steps, In, UsesView, Dir
<1>6. DirInv(r)'
  BY <1>1, <1>3, HeldBy, OwnAlone DEF OpIInv, SharedInv, HoldInv, DirInv, Good, Shares, Moves, Steps, In,
     Up, UsesView, Dir, hostVars
<1>7. Good(r)'
  BY <1>1, <1>5, <1>6 DEF OpIInv, Good, RegInv, ChildInv, ResInv, Steps, In, Worker, Writes
<1> QED
  BY <1>1, <1>2, <1>3, <1>4, <1>7, OneMoves DEF Moves, hostVars

\* The frame is gone: its guards are dropped.
LEMMA OverMoves ==
    ASSUME OpIInv, NEW r \in Ops, NEW a \in Answers, Over(r, a)
    PROVE  /\ Steps(r, "done", a) /\ registry' = registry \ {r}
           /\ holds' \in [Ops -> SUBSET Dirs] /\ holds'[r] = {}
           /\ \A q \in Ops \ {r} : holds'[q] = holds[q]
BY AnswerSteps DEF OpIInv, OpTypeOK, Over, Handler

\* An early return drops what the frame holds.
LEMMA GivesUpKeeps == ASSUME OpIInv, Up, NEW r \in Ops, GivesUp(r) PROVE OpIInv'
<1>1. /\ Steps(r, "done", "failed") /\ Moves(r, holds[r], {}) /\ holds'[r] = {}
      /\ job[r].pc \in {"input", "write", "select", "copy", "plan"}
      /\ holds' \in [Ops -> SUBSET Dirs] /\ registry' = registry \ {r}
      /\ UNCHANGED <<op, watch, child, pipe, target, cache, others, hostVars>>
  <2>1. /\ Steps(r, "done", "failed") /\ registry' = registry \ {r}
        /\ holds' \in [Ops -> SUBSET Dirs] /\ holds'[r] = {}
        /\ \A q \in Ops \ {r} : holds'[q] = holds[q]
    BY OverMoves DEF GivesUp, Answers
  <2>2. Moves(r, holds[r], {})
    BY <2>1, HeldBy DEF GivesUp, Freed, Moves, Steps, hostVars
  <2> QED
    BY <2>1, <2>2 DEF GivesUp, In
<1>2. OpTypeOK'
  BY <1>1 DEF OpIInv, OpTypeOK, Steps, Moves, Dirs, Dir, hostVars
<1>3. Shares /\ \A q \in Ops \ {r} : Stays(q)
  BY <1>1, MovesShare
<1>4. SharedInv'
  BY <1>1, <1>2, <1>3, StayShared DEF OpIInv, SharedInv, HoldInv, Good, Steps, In
<1>5. HoldInv(r)'
  BY <1>1, <1>3, HeldBy DEF OpIInv, SharedInv, HoldInv, Good, Shares, Moves, Steps, In, UsesView, Dir
<1>6. DirInv(r)'
  BY <1>1, <1>3, LeftByFrame DEF OpIInv, DirInv, Steps, In, hostVars
<1>7. Good(r)'
  BY <1>1, <1>5, <1>6 DEF OpIInv, Good, RegInv, ChildInv, ResInv, Steps, In, Worker, Writes
<1> QED
  BY <1>1, <1>2, <1>3, <1>4, <1>7, OneMoves DEF Moves, hostVars

\* A refused sort leaves its spill directory.
LEMMA PlanKeeps == ASSUME OpIInv, Up, NEW r \in Ops, Plan(r) PROVE OpIInv'
<1>1. /\ In(r, "plan")
      /\ \E made \in SUBSET {Dir(r, "spill")} :
            \/ Steps(r, "spawn", job[r].res) /\ holds' = holds /\ Moves(r, {}, made) /\ registry' = registry
            \/ /\ Steps(r, "done", "restart") \/ Steps(r, "done", "unlocated")
               /\ holds'[r] = {} /\ Moves(r, holds[r], made) /\ Worker(r) /\ registry' = registry \ {r}
      /\ holds' \in [Ops -> SUBSET Dirs]
      /\ UNCHANGED <<op, watch, child, pipe, target, cache, others, hostVars>>
  <2> DEFINE spill == IF Spills(r) THEN {Dir(r, "spill")} ELSE {}
  <2>1. CASE To(r, "spawn") /\ UNCHANGED <<registry, holds>> /\ scratch' = scratch \cup spill
    <3>1. Steps(r, "spawn", job[r].res)
      BY <2>1, ToSteps DEF OpIInv, Handler
    <3>2. Moves(r, {}, spill)
      BY <2>1, <3>1, HeldBy DEF Plan, Moves, Steps, hostVars, Dir
    <3> QED
      BY <2>1, <3>1, <3>2 DEF Plan, OpIInv, OpTypeOK
  <2>2. ASSUME NEW why \in Blocked, Over(r, why), scratch' = Freed(holds[r]) \cup spill, Worker(r)
        PROVE  \E made \in SUBSET {Dir(r, "spill")} :
                 /\ Steps(r, "done", "restart") \/ Steps(r, "done", "unlocated")
                 /\ holds'[r] = {} /\ Moves(r, holds[r], made) /\ Worker(r) /\ registry' = registry \ {r}
                 /\ holds' \in [Ops -> SUBSET Dirs]
    <3>1. why \in {"restart", "unlocated"}
      BY <2>2 DEF Blocked
    <3>2. /\ Steps(r, "done", why) /\ registry' = registry \ {r}
          /\ holds' \in [Ops -> SUBSET Dirs] /\ holds'[r] = {}
          /\ \A q \in Ops \ {r} : holds'[q] = holds[q]
      BY <2>2, <3>1, OverMoves DEF Answers
    <3>3. Moves(r, holds[r], spill)
      BY <2>2, <3>2, HeldBy DEF Plan, Freed, Moves, Steps, hostVars, Dir
    <3> QED
      BY <2>2, <3>1, <3>2, <3>3 DEF Plan
  <2> QED
    BY <2>1, <2>2 DEF Plan
<1>2. OpTypeOK'
  BY <1>1 DEF OpIInv, OpTypeOK, Steps, Moves, Dirs, Dir, hostVars
<1>3. Shares /\ \A q \in Ops \ {r} : Stays(q)
  BY <1>1, MovesShare
<1>4. SharedInv'
  BY <1>1, <1>2, <1>3, StayShared DEF OpIInv, SharedInv, HoldInv, Good, Steps, In
<1>5. HoldInv(r)'
  BY <1>1, <1>3, HeldBy DEF OpIInv, SharedInv, HoldInv, Good, Shares, Moves, Steps, In, UsesView, Dir
<1>6. DirInv(r)'
  <2>1. PICK made \in SUBSET {Dir(r, "spill")} :
            \/ Steps(r, "spawn", job[r].res) /\ holds' = holds /\ Moves(r, {}, made)
            \/ /\ Steps(r, "done", "restart") \/ Steps(r, "done", "unlocated")
               /\ holds'[r] = {} /\ Moves(r, holds[r], made)
    BY <1>1
  <2> SUFFICES ASSUME NEW d \in scratch', d.r = r, d.owner # Sibling
               PROVE  /\ d.owner = pid
                      /\ \/ d.what = "view" /\ d \in Held'
                         \/ d.what \in {"input", "selection"} /\ d \in holds'[r]
                         \/ d.what = "spill" /\ job'[r].pc = "spawn"
                         \/ /\ d.what = "spill" /\ job'[r].pc = "done"
                            /\ job'[r].res \in {"restart", "unlocated"}
    BY <1>1 DEF DirInv, In, hostVars
  <2>2. CASE d \in made
    BY <2>1, <2>2 DEF Steps, Dir
  <2>3. CASE d \notin made /\ holds' = holds /\ Steps(r, "spawn", job[r].res)
    <3>1. d \in scratch
      BY <2>1, <2>3 DEF Moves
    <3>2. /\ d.owner = pid
          /\ \/ d.what = "view" /\ d \in Held
             \/ d.what \in {"input", "selection"} /\ d \in holds[r]
      BY <1>1, <3>1 DEF OpIInv, Good, DirInv, ResInv, In, Up
    <3> QED
      BY <1>3, <2>3, <3>2 DEF Shares
  <2>4. CASE d \notin made /\ holds'[r] = {} /\ Moves(r, holds[r], made)
    BY <1>1, <1>3, <2>4, LeftByFrame DEF In
  <2> QED
    BY <2>1, <2>2, <2>3, <2>4
<1>7. Good(r)'
  BY <1>1, <1>5, <1>6 DEF OpIInv, Good, RegInv, ChildInv, ResInv, Steps, In, Worker, Writes
<1> QED
  BY <1>1, <1>2, <1>3, <1>4, <1>7, OneMoves DEF Moves, hostVars

\* All that is the request's goes.
LEMMA TidyKeeps == ASSUME OpIInv, Up, NEW r \in Ops, Tidy(r) PROVE OpIInv'
<1>1. /\ Steps(r, "done", job[r].res) /\ In(r, "tidy")
      /\ Moves(r, holds[r] \cup {Dir(r, "spill")}, {}) /\ holds'[r] = {}
      /\ holds' \in [Ops -> SUBSET Dirs] /\ registry' = registry \ {r}
      /\ UNCHANGED <<op, watch, child, pipe, target, cache, others, hostVars>>
  <2>1. /\ Steps(r, "done", job[r].res) /\ registry' = registry \ {r}
        /\ holds' \in [Ops -> SUBSET Dirs] /\ holds'[r] = {}
        /\ \A q \in Ops \ {r} : holds'[q] = holds[q]
    <3>1. job[r].res \in Answers
      BY DEF OpIInv, OpTypeOK, Jobs
    <3> QED
      BY <3>1, OverMoves DEF Tidy
  <2>2. Dir(r, "spill") \notin Held'
    <3>1. Dir(r, "spill").what = "spill"
      BY DEF Dir
    <3>2. \A s \in Ops : Dir(r, "spill") \notin holds'[s]
      BY <2>1, <3>1 DEF OpIInv, Good, HoldInv
    <3> QED
      BY <3>1, <3>2, HeldBy DEF Tidy, OpIInv, SharedInv
  <2>3. Moves(r, holds[r] \cup {Dir(r, "spill")}, {})
    BY <2>1, <2>2, HeldBy DEF Tidy, Freed, Moves, Steps, hostVars
  <2> QED
    BY <2>1, <2>3 DEF Tidy
<1>2. OpTypeOK'
  BY <1>1 DEF OpIInv, OpTypeOK, Steps, Moves, Dirs, Dir, hostVars
<1>3. Shares /\ \A q \in Ops \ {r} : Stays(q)
  BY <1>1, MovesShare
<1>4. SharedInv'
  BY <1>1, <1>2, <1>3, StayShared DEF OpIInv, SharedInv, HoldInv, Good, Steps, In
<1>5. HoldInv(r)'
  BY <1>1, <1>3, HeldBy DEF OpIInv, SharedInv, HoldInv, Good, Shares, Moves, Steps, In, UsesView, Dir
<1>6. DirInv(r)'
  <2> SUFFICES ASSUME NEW d \in scratch', d.r = r, d.owner # Sibling
               PROVE  d.owner = pid /\ d.what = "view" /\ d \in Held'
    BY <1>1 DEF DirInv, hostVars
  <2>1. d.owner = pid /\ ((d.what = "view" /\ d \in Held') \/ d.what = "spill")
    BY <1>1, <1>3, LeftByFrame DEF In
  <2>2. d \in Dirs
    BY <1>2 DEF OpTypeOK
  <2>3. d.what # "spill"
    <3> SUFFICES ASSUME d.what = "spill" PROVE FALSE
      OBVIOUS
    <3>1. d = Dir(r, "spill")
      BY <2>1, <2>2 DEF Dir, Dirs
    <3>2. d \in Held'
      BY <1>1, <3>1 DEF Moves
    <3> QED
      BY <1>1, <1>3, <3>2, HeldBy DEF OpIInv, SharedInv, Good, HoldInv, Stays
  <2> QED
    BY <2>1, <2>3
<1>7. Good(r)'
  BY <1>1, <1>5, <1>6 DEF OpIInv, Good, RegInv, ChildInv, ResInv, Steps, In, Worker, Writes
<1> QED
  BY <1>1, <1>2, <1>3, <1>4, <1>7, OneMoves DEF Moves, hostVars

\* A task that goes on keeps its guard; one that copies a selection does not.
LEMMA HangUpKeeps == ASSUME OpIInv, Up, NEW r \in Ops, HangUp(r) PROVE OpIInv'
<1>1. /\ Steps(r, "done", "dropped") /\ job[r].pc \in {"write", "copy", "run", "drain", "tidy"}
      /\ registry' = registry \ {r}
      /\ child' \in [Ops -> {"none", "running", "ok", "failed", "mismatch", "killed"}]
      /\ child'[r] = IF child[r] = "running" THEN "killed" ELSE child[r]
      /\ \A q \in Ops \ {r} : child'[q] = child[q]
      /\ holds' \in [Ops -> SUBSET Dirs] /\ holds'[r] = {}
      /\ others' = IF In(r, "write") THEN others \cup holds[r] ELSE others
      /\ \E gone \in SUBSET holds[r] :
            /\ Moves(r, gone, {})
            /\ \A d \in holds[r] : d \in gone \/ (In(r, "copy") /\ d.what = "selection")
      /\ UNCHANGED <<op, watch, pipe, target, cache, hostVars>>
  <2>1. /\ Steps(r, "done", "dropped") /\ registry' = registry \ {r}
        /\ holds' \in [Ops -> SUBSET Dirs] /\ holds'[r] = {}
        /\ \A q \in Ops \ {r} : holds'[q] = holds[q]
    BY OverMoves DEF HangUp, Answers
  <2>2. /\ child' \in [Ops -> {"none", "running", "ok", "failed", "mismatch", "killed"}]
        /\ child'[r] = IF child[r] = "running" THEN "killed" ELSE child[r]
        /\ \A q \in Ops \ {r} : child'[q] = child[q]
    BY DEF HangUp, OpIInv, OpTypeOK
  <2>3. ASSUME NEW gone \in SUBSET holds[r], scratch' = Freed(gone),
               \A d \in holds[r] : d \in gone \/ (In(r, "copy") /\ d.what = "selection")
        PROVE  Moves(r, gone, {})
    BY <2>1, <2>2, <2>3, HeldBy DEF HangUp, Freed, Moves, Steps, hostVars
  <2>4. CASE scratch' = Freed(holds[r])
    <3>1. Moves(r, holds[r], {})
      BY <2>3, <2>4
    <3> QED
      BY <2>1, <2>2, <3>1 DEF HangUp
  <2>5. CASE In(r, "copy") /\ scratch' = Freed(holds[r] \ {Dir(r, "selection")})
    <3> DEFINE most == holds[r] \ {Dir(r, "selection")}
    <3>1. most \in SUBSET holds[r] /\ \A d \in holds[r] : d \in most \/ d.what = "selection"
      BY DEF Dir
    <3>2. Moves(r, most, {})
      BY <2>3, <2>5, <3>1
    <3> HIDE DEF most
    <3> QED
      BY <2>1, <2>2, <2>5, <3>1, <3>2 DEF HangUp
  <2> QED
    BY <2>4, <2>5 DEF HangUp
<1>2. OpTypeOK'
  BY <1>1 DEF OpIInv, OpTypeOK, Steps, Moves, Dirs, Dir, hostVars
<1>3. Shares /\ \A q \in Ops \ {r} : Stays(q)
  BY <1>1, MovesShare
<1>4. SharedInv'
  BY <1>1, <1>2, <1>3, StayShared DEF OpIInv, SharedInv, HoldInv, Good, Steps, In
<1>5. HoldInv(r)'
  BY <1>1, <1>3, HeldBy DEF OpIInv, SharedInv, HoldInv, Good, Shares, Moves, Steps, In, UsesView, Dir
<1>6. DirInv(r)'
  <2>1. PICK gone \in SUBSET holds[r] :
            /\ Moves(r, gone, {})
            /\ \A d \in holds[r] : d \in gone \/ (In(r, "copy") /\ d.what = "selection")
    BY <1>1
  <2> SUFFICES ASSUME NEW d \in scratch', d.r = r, d.owner # Sibling
               PROVE  /\ d.owner = pid
                      /\ \/ d.what = "view" /\ d \in Held'
                         \/ d.what = "input" /\ d \in others'
                         \/ d.what \in {"selection", "spill"}
    BY <1>1 DEF DirInv, Steps, In, hostVars
  <2>2. /\ d \in scratch /\ d.owner = pid
        /\ \/ d.what = "view" /\ d \in Held
           \/ d.what \in {"input", "selection"} /\ d \in holds[r]
           \/ d.what = "spill"
    BY <1>1, <2>1 DEF Moves, OpIInv, Good, DirInv, ResInv, In, Up
  <2>3. CASE d.what = "input"
    <3>1. d \in gone /\ d \in holds[r]
      BY <2>1, <2>2, <2>3
    <3>2. d \in Held'
      BY <2>1, <3>1 DEF Moves
    <3>3. d \notin cache /\ d \notin others /\ \A s \in Ops \ {r} : d \notin holds[s]
      BY <1>1, <2>3, <3>1, OwnAlone
    <3>4. d \in others'
      BY <1>1, <1>3, <3>2, <3>3, HeldBy DEF Stays
    <3> QED
      BY <2>2, <2>3, <3>4
  <2> QED
    BY <1>3, <2>2, <2>3 DEF Shares
<1>7. Good(r)'
  BY <1>1, <1>5, <1>6 DEF OpIInv, Good, RegInv, ChildInv, ResInv, Steps, In, Worker, Writes
<1> QED
  BY <1>1, <1>2, <1>3, <1>4, <1>7, OneMoves DEF Moves, hostVars

\* A clean session needs no view, a current one is shared, a stale one goes.
LEMMA PinViewKeeps == ASSUME OpIInv, Up, NEW r \in Ops, PinView(r) PROVE OpIInv'
<1>1. /\ In(r, "input") /\ UsesView(r)
      /\ \/ Steps(r, "plan", job[r].res) /\ Worker(r)
         \/ Steps(r, "select", job[r].res) /\ ~Worker(r)
         \/ Steps(r, "write", job[r].res)
      /\ \/ cache' = {} /\ holds'[r] = {} /\ Moves(r, cache, {})
         \/ cache' = cache /\ holds'[r] = cache /\ Moves(r, {}, {})
         \/ cache' = {} /\ holds'[r] = {Dir(r, "view")} /\ Moves(r, cache, {Dir(r, "view")})
      /\ holds' \in [Ops -> SUBSET Dirs]
      /\ UNCHANGED <<registry, op, watch, child, pipe, target, others, hostVars>>
  <2>1. holds[r] = {} /\ In(r, "input") /\ UsesView(r) /\ Dir(r, "view") \in Dirs
    BY DEF PinView, OpIInv, OpTypeOK, Good, HoldInv, In, Dir, Dirs
  <2>2. CASE cache' = {} /\ UNCHANGED holds /\ scratch' = Freed(cache)
             /\ To(r, IF Worker(r) THEN "plan" ELSE "select")
    <3>1. \/ Steps(r, "plan", job[r].res) /\ Worker(r)
          \/ Steps(r, "select", job[r].res) /\ ~Worker(r)
      BY <2>2, ToSteps DEF OpIInv, Handler
    <3>2. Moves(r, cache, {})
      BY <2>1, <2>2, <3>1, HeldBy DEF PinView, Freed, Moves, Steps, hostVars
    <3> QED
      BY <2>1, <2>2, <3>1, <3>2 DEF PinView, OpIInv, OpTypeOK
  <2>3. CASE /\ holds' = [holds EXCEPT ![r] = cache] /\ UNCHANGED <<cache, scratch>>
             /\ To(r, IF Worker(r) THEN "plan" ELSE "select")
    <3>1. \/ Steps(r, "plan", job[r].res) /\ Worker(r)
          \/ Steps(r, "select", job[r].res) /\ ~Worker(r)
      BY <2>3, ToSteps DEF OpIInv, Handler
    <3>2. /\ holds' \in [Ops -> SUBSET Dirs] /\ holds'[r] = cache
          /\ \A q \in Ops \ {r} : holds'[q] = holds[q]
      BY <2>3 DEF OpIInv, OpTypeOK
    <3>3. Moves(r, {}, {})
      BY <2>1, <2>3, <3>1, <3>2, HeldBy DEF PinView, Moves, Steps, hostVars
    <3> QED
      BY <2>1, <2>3, <3>1, <3>2, <3>3 DEF PinView
  <2>4. CASE /\ To(r, "write") /\ cache' = {} /\ holds' = [holds EXCEPT ![r] = {Dir(r, "view")}]
             /\ scratch' = Freed(cache) \cup {Dir(r, "view")}
    <3>1. Steps(r, "write", job[r].res)
      BY <2>4, ToSteps DEF OpIInv, Handler
    <3>2. /\ holds' \in [Ops -> SUBSET Dirs] /\ holds'[r] = {Dir(r, "view")}
          /\ \A q \in Ops \ {r} : holds'[q] = holds[q]
      BY <2>1, <2>4 DEF OpIInv, OpTypeOK
    <3>3. Moves(r, cache, {Dir(r, "view")})
      BY <2>1, <2>4, <3>1, <3>2, HeldBy DEF PinView, Freed, Moves, Steps, hostVars
    <3> QED
      BY <2>1, <2>4, <3>1, <3>2, <3>3 DEF PinView
  <2> QED
    BY <2>2, <2>3, <2>4 DEF PinView
<1>2. OpTypeOK'
  BY <1>1 DEF OpIInv, OpTypeOK, Steps, Moves, Dirs, Dir, hostVars
<1>3. Shares /\ \A q \in Ops \ {r} : Stays(q)
  BY <1>1, MovesShare
<1>4. SharedInv'
  BY <1>1, <1>2, <1>3, StayShared DEF OpIInv, SharedInv, HoldInv, Good, Steps, In
<1>5. HoldInv(r)'
  BY <1>1, <1>3, HeldBy DEF OpIInv, SharedInv, HoldInv, Good, Shares, Moves, Steps, In, UsesView, Dir
<1>6. DirInv(r)'
  BY <1>1, <1>3, HeldBy, OwnAlone DEF OpIInv, SharedInv, HoldInv, DirInv, Good, Shares, Moves, Steps, In,
     Up, UsesView, Dir, hostVars
<1>7. Good(r)'
  BY <1>1, <1>5, <1>6 DEF OpIInv, Good, RegInv, ChildInv, ResInv, Steps, In, Worker, Writes
<1> QED
  BY <1>1, <1>2, <1>3, <1>4, <1>7, OneMoves DEF Moves, hostVars

\* A handler that looks for a cancel, or begins to listen, changes nothing else.
LEMMA WatchKeeps ==
    ASSUME OpIInv, Up, NEW r \in Ops, Look(r) \/ Listen(r)
    PROVE  OpIInv'
<1>1. /\ watch' \in [Ops -> [at : {"load", "arm", "parked", "hit"}, missed : BOOLEAN]]
      /\ UNCHANGED <<job, registry, op, child, pipe, target, dirVars, hostVars>>
  <2>1. watch' \in [Ops -> [at : {"load", "arm", "parked", "hit"}, missed : BOOLEAN]]
    <3>1. watch \in [Ops -> [at : {"load", "arm", "parked", "hit"}, missed : BOOLEAN]]
      BY DEF OpIInv, OpTypeOK
    <3>2. CASE Look(r)
      BY <3>1, <3>2, SMTT(30) DEF Look
    <3>3. CASE Listen(r)
      BY <3>1, <3>3, SMTT(30) DEF Listen
    <3> QED
      BY <3>2, <3>3
  <2> QED
    BY <2>1 DEF Look, Listen
<1>2. OpTypeOK'
  BY <1>1 DEF OpIInv, OpTypeOK, dirVars, hostVars
<1>3. \A q \in Ops : Stays(q)
  BY <1>1 DEF Stays, dirVars
<1>4. Shares /\ SharedInv'
  BY <1>1, <1>3, UnmovedShares DEF Unmoved
<1> QED
  BY <1>1, <1>2, <1>3, <1>4, NoneMoves DEF hostVars

LEMMA CancelKeeps == ASSUME OpIInv, Up, NEW r \in Ops, Cancel(r) PROVE OpIInv'
<1>1. /\ op' \in [Ops -> [canceled : BOOLEAN, done : BOOLEAN]]
      /\ op'[r].canceled /\ \A q \in Ops \ {r} : op'[q] = op[q]
      /\ UNCHANGED <<job, registry, child, pipe, target, dirVars, hostVars>>
  BY ZenonT(60) DEF OpIInv, OpTypeOK, Cancel
<1>2. watch' \in [Ops -> [at : {"load", "arm", "parked", "hit"}, missed : BOOLEAN]]
  BY DEF OpIInv, OpTypeOK, Cancel
<1>3. OpTypeOK'
  BY <1>1, <1>2 DEF OpIInv, OpTypeOK, dirVars, hostVars
<1>4. \A q \in Ops \ {r} : Stays(q)
  BY <1>1 DEF Stays, dirVars
<1>5. Shares /\ SharedInv' /\ Held' = Held
  BY <1>1, <1>4, UnmovedShares DEF Unmoved
<1>6. Good(r)'
  BY <1>1, <1>5 DEF OpIInv, Good, RegInv, ChildInv, ResInv, HoldInv, DirInv, In, Worker, Writes,
     UsesView, dirVars, hostVars
<1> QED
  BY <1>1, <1>3, <1>4, <1>5, <1>6, OneMoves DEF hostVars

-----------------------------------------------------------------------------
(* Other readers of a shared view.                                         *)

\* A reader of the cached view holds it too.
LEMMA PinsKeeps == ASSUME OpIInv, Up, Pins PROVE OpIInv'
<1>1. OpTypeOK'
  BY DEF Pins, OpIInv, OpTypeOK, hostVars
<1>2. Held' = Held
  BY HeldBy DEF Pins, Held
<1>3. \A q \in Ops : Stays(q)
  BY DEF Pins, Stays
<1>4. Shares
  BY <1>2 DEF Pins, Shares
<1>5. SharedInv'
  BY DEF Pins, OpIInv, SharedInv, In
<1> QED
  BY <1>1, <1>3, <1>4, <1>5, NoneMoves DEF Pins, hostVars

\* Only the last one that lets go of a directory removes it.
LEMMA LetGoKeeps == ASSUME OpIInv, Up, NEW d \in others, LetGo(d) PROVE OpIInv'
<1>1. OpTypeOK'
  BY DEF LetGo, Freed, OpIInv, OpTypeOK, hostVars
<1>2. \A q \in Ops : Stays(q)
  BY DEF LetGo, Freed, Stays
<1>3. \A e \in Held : e \in Held' \/ e = d
  BY HeldBy DEF LetGo
<1>4. ASSUME d.what = "input" PROVE d \notin Held'
  <2>1. d.r \in Ops /\ In(d.r, "done")
    BY <1>4 DEF OpIInv, OpTypeOK, Dirs, SharedInv
  <2>2. \A s \in Ops : d \notin holds[s]
    BY <1>4, <2>1 DEF OpIInv, Good, HoldInv, In
  <2> QED
    BY <1>4, <2>2, HeldBy DEF LetGo, OpIInv, SharedInv
<1>5. Shares
  BY <1>3, <1>4 DEF LetGo, Freed, Shares
<1>6. SharedInv'
  <2>1. cache' \subseteq scratch' /\ others' \subseteq scratch'
    BY HeldBy DEF LetGo, Freed, OpIInv, SharedInv
  <2> QED
    BY <2>1 DEF LetGo, OpIInv, SharedInv, In
<1> QED
  BY <1>1, <1>2, <1>5, <1>6, NoneMoves DEF LetGo, hostVars

LEMMA InvalidateKeeps == ASSUME OpIInv, Up, Invalidate PROVE OpIInv'
<1>1. OpTypeOK'
  BY DEF Invalidate, Freed, OpIInv, OpTypeOK, hostVars
<1>2. \A q \in Ops : Stays(q)
  BY DEF Invalidate, Freed, Stays
<1>3. \A e \in Held : e \in Held' \/ e \in cache
  BY HeldBy DEF Invalidate
<1>4. Shares
  BY <1>3 DEF Invalidate, Freed, Shares
<1>5. SharedInv'
  <2>1. cache' \subseteq scratch' /\ others' \subseteq scratch'
    BY HeldBy DEF Invalidate, Freed, OpIInv, SharedInv
  <2> QED
    BY <2>1 DEF Invalidate, OpIInv, SharedInv, In
<1> QED
  BY <1>1, <1>2, <1>4, <1>5, NoneMoves DEF Invalidate, hostVars

-----------------------------------------------------------------------------
(* Children and the machine.                                               *)

\* A child runs whether or not its server is still there.
LEMMA ChildKeeps ==
    ASSUME OpIInv, NEW r \in Ops, ChildWrites(r) \/ ChildForks(r) \/ ChildExits(r)
    PROVE  OpIInv'
<1>1. /\ child' \in [Ops -> {"none", "running", "ok", "failed", "mismatch", "killed"}]
      /\ target' \in [Ops -> {"old", "part", "new"}]
      /\ pipe' \in [Ops -> BOOLEAN]
      /\ child[r] = "running"
      /\ \/ child'[r] \in {"running", "failed"}
         \/ child'[r] = "ok" /\ (Writes(r) => target'[r] = "new")
      /\ \A q \in Ops \ {r} : child'[q] = child[q] /\ target'[q] = target[q]
      /\ UNCHANGED <<job, registry, op, watch, dirVars, hostVars>>
  BY DEF OpIInv, OpTypeOK, ChildWrites, ChildForks, ChildExits
<1>2. \A q \in Ops \ {r} : Stays(q)
  BY <1>1 DEF Stays, dirVars
<1>3. Shares /\ SharedInv' /\ Held' = Held
  BY <1>1, <1>2, UnmovedShares DEF Unmoved
<1>4. OpTypeOK' /\ AliveInv'
  BY <1>1, <1>3 DEF OpIInv, OpTypeOK, AliveInv, dirVars, hostVars
<1>5. Good(r)'
  BY <1>1, <1>3 DEF OpIInv, Good, RegInv, ChildInv, ResInv, HoldInv, DirInv, In, Worker, Writes,
     UsesView, dirVars, hostVars
<1>6. ASSUME NEW q \in Ops \ {r} PROVE Good(q)'
  BY <1>1, <1>2, <1>3, <1>6, StayGood DEF OpIInv, hostVars
<1> QED
  BY <1>3, <1>4, <1>5, <1>6 DEF OpIInv

\* An update and the end of another window touch no request.
LEMMA MachineKeeps == ASSUME OpIInv, Update \/ SiblingEnds PROVE OpIInv'
<1>1. /\ UNCHANGED <<jobVars, pid>> /\ installed' \in {0, 1} /\ alive' \subseteq alive
      /\ pid \in alive => pid \in alive'
  BY DEF OpIInv, OpTypeOK, Update, SiblingEnds, Sibling
<1>2. Held' = Held
  BY <1>1 DEF Held, jobVars, dirVars
<1>3. OpTypeOK' /\ AliveInv'
  BY <1>1, <1>2 DEF OpIInv, OpTypeOK, AliveInv, jobVars, dirVars
<1>4. Shares /\ SharedInv'
  BY <1>1, <1>2 DEF OpIInv, Shares, SharedInv, In, jobVars, dirVars
<1>5. ASSUME NEW q \in Ops PROVE Good(q)'
  BY <1>1, <1>4, <1>5, StayGood DEF OpIInv, Stays, jobVars, dirVars
<1> QED
  BY <1>3, <1>4, <1>5 DEF OpIInv

\* A crash ends every handler and every guard; children and directories stay.
LEMMA CrashKeeps == ASSUME OpIInv, Crash PROVE OpIInv'
<1>1. ASSUME NEW q \in Ops
      PROVE  /\ job'[q] \in Jobs /\ job'[q].kind = job[q].kind
             /\ \/ job[q].pc \in {"start", "done"} /\ job'[q] = job[q]
                \/ job'[q].pc = "done" /\ job'[q].res = "lost"
  <2>1. job[q] \in Jobs
    BY DEF OpIInv, OpTypeOK
  <2>2. job'[q] = IF job[q].pc \in {"start", "done"} THEN job[q]
                  ELSE [job[q] EXCEPT !.pc = "done", !.res = "lost"]
    BY DEF Crash
  <2> QED
    BY <2>1, <2>2 DEF Jobs, Handler, Answers
<1>2. OpTypeOK' /\ SharedInv'
  BY <1>1 DEF OpIInv, OpTypeOK, SharedInv, Crash
<1>3. \A d : d \notin Held'
  BY HeldBy DEF Crash
<1>4. AliveInv'
  BY <1>1, <1>3 DEF AliveInv
<1>5. ASSUME NEW q \in Ops PROVE Good(q)'
  <2>1. Good(q)
    BY DEF OpIInv
  <2>2. /\ job'[q].kind = job[q].kind
        /\ \/ job[q].pc \in {"start", "done"} /\ job'[q] = job[q]
           \/ job'[q].pc = "done" /\ job'[q].res = "lost"
    BY <1>1
  <2>3. /\ registry' = {} /\ holds'[q] = {} /\ pid \notin alive'
        /\ UNCHANGED <<op, child, target, scratch, pid>>
    BY DEF Crash
  <2>4. HoldInv(q)'
    BY <2>3 DEF HoldInv
  <2>5. DirInv(q)'
    BY <2>1, <2>2, <2>3 DEF Good, HoldInv, DirInv, In
  <2> QED
    BY <2>1, <2>2, <2>3, <2>4, <2>5 DEF Good, RegInv, ChildInv, ResInv, In, Worker, Writes
<1> QED
  BY <1>2, <1>4, <1>5 DEF OpIInv

\* The next server sweeps what the dead one owned.
LEMMA RestartKeeps == ASSUME OpIInv, Restart PROVE OpIInv'
<1>1. /\ pid = 0 /\ pid' = 1 /\ alive' = alive \cup {1} /\ 0 \notin alive' /\ pid \notin alive
      /\ scratch' = {d \in scratch : d.owner \in alive'}
      /\ UNCHANGED <<job, registry, op, watch, child, pipe, target, holds, cache, others, installed>>
  BY DEF Restart, Swept
<1>2. Held = {} /\ cache = {} /\ others = {} /\ \A q \in Ops : holds[q] = {}
  BY <1>1, HeldBy DEF OpIInv, AliveInv
<1>3. OpTypeOK' /\ AliveInv' /\ SharedInv'
  BY <1>1, <1>2 DEF OpIInv, OpTypeOK, AliveInv, SharedInv
<1>4. ASSUME NEW q \in Ops PROVE Good(q)'
  <2>1. Good(q)
    BY DEF OpIInv
  <2>2. \A d \in scratch' : d.r = q => d.owner = Sibling
    BY <1>1, <2>1 DEF Good, DirInv
  <2> QED
    BY <1>1, <1>2, <2>1, <2>2 DEF Good, RegInv, ChildInv, ResInv, HoldInv, DirInv, In, Worker, Writes
<1> QED
  BY <1>3, <1>4 DEF OpIInv

LEMMA InitOpIInv == OpInit => OpIInv
<1> SUFFICES ASSUME OpInit PROVE OpIInv
  OBVIOUS
<1>1. \A r \in Ops : job[r] \in Jobs /\ job[r].pc = "start" /\ job[r].res = "none"
  <2> SUFFICES ASSUME NEW r \in Ops
               PROVE  job[r] \in Jobs /\ job[r].pc = "start" /\ job[r].res = "none"
    OBVIOUS
  <2>1. job[r] \in {[kind |-> k, pc |-> "start", res |-> "none"] : k \in OpKinds}
    BY DEF OpInit
  <2>2. PICK k \in OpKinds : job[r] = [kind |-> k, pc |-> "start", res |-> "none"]
    BY <2>1
  <2> QED
    BY <2>2 DEF Jobs, Handler, Answers
<1>2. \A d \in scratch : d.owner = Sibling
  BY DEF OpInit
<1>3. OpTypeOK
  <2>1. job \in [Ops -> Jobs]
    BY <1>1 DEF OpInit
  <2>2. scratch \subseteq Dirs
    BY DEF OpInit, Dirs
  <2> QED
    BY <2>1, <2>2 DEF OpInit, OpTypeOK
<1>4. ASSUME NEW r \in Ops PROVE Good(r)
  BY <1>1, <1>2 DEF OpInit, Good, RegInv, ChildInv, ResInv, HoldInv, DirInv
<1>5. AliveInv /\ SharedInv
  BY DEF OpInit, AliveInv, SharedInv
<1> QED
  BY <1>3, <1>4, <1>5 DEF OpIInv

LEMMA NextOpIInv == OpIInv /\ [OpNext]_opVars => OpIInv'
<1> SUFFICES ASSUME OpIInv, [OpNext]_opVars PROVE OpIInv'
  OBVIOUS
<1>1. CASE UNCHANGED opVars
  <2>1. UNCHANGED <<jobVars, dirVars, hostVars>>
    BY <1>1 DEF opVars, jobVars
  <2>2. Held' = Held
    BY <2>1 DEF Held, dirVars
  <2> QED
    BY <2>1, <2>2 DEF jobVars, dirVars, hostVars, OpIInv, OpTypeOK, AliveInv, SharedInv, Good, RegInv,
       ChildInv, ResInv, HoldInv, DirInv, In, Worker, Writes, UsesView
<1>2. ASSUME NEW r \in Ops, Up, Request(r) \/ Cancel(r) \/ HangUp(r) PROVE OpIInv'
  BY <1>2, RequestKeeps, CancelKeeps, HangUpKeeps
<1>3. ASSUME NEW r \in Ops, Handles(r) PROVE OpIInv'
  BY <1>3, MaterializeKeeps, PinViewKeeps, WrittenKeeps, SelectKeeps, CopiedKeeps, GivesUpKeeps,
     PlanKeeps, SpawnKeeps, WatchKeeps, WaitedKeeps, TimesOutKeeps, CanceledKeeps, DrainKeeps,
     TidyKeeps DEF Handles
<1>4. ASSUME NEW r \in Ops, ChildWrites(r) \/ ChildForks(r) \/ ChildExits(r) PROVE OpIInv'
  BY <1>4, ChildKeeps
<1>5. ASSUME Up, Pins \/ Invalidate \/ \E d \in others : LetGo(d) PROVE OpIInv'
  BY <1>5, PinsKeeps, InvalidateKeeps, LetGoKeeps
<1> QED
  BY <1>1, <1>2, <1>3, <1>4, <1>5, MachineKeeps, CrashKeeps, RestartKeeps DEF OpNext

-----------------------------------------------------------------------------
(* The theorems about Operations.                                          *)

\* Every variable of the operations keeps its type.
THEOREM OpTypeCorrect == OpSpec => []OpTypeOK
<1>1. OpIInv => OpTypeOK
  BY DEF OpIInv
<1> QED
  BY <1>1, InitOpIInv, NextOpIInv, PTL DEF OpSpec

\* A request that is over has left no registry entry, no running child and no
\* private directory, except those NothingLeft names, however many run at once
\* and share a view.
THEOREM OverLeavesNothing == OpSpec => []NothingLeft
<1>1. OpIInv => NothingLeft
  BY DEF OpIInv, NothingLeft, Good, RegInv, ChildInv, HoldInv, DirInv, In
<1> QED
  BY <1>1, InitOpIInv, NextOpIInv, PTL DEF OpSpec

\* The input of a child that runs is there, whoever shared it and let it go.
THEOREM InputsStay == OpSpec => []InputStays
<1>1. OpIInv => InputStays
  BY DEF OpIInv, InputStays, Good, HoldInv
<1> QED
  BY <1>1, InitOpIInv, NextOpIInv, PTL DEF OpSpec

\* What a request answers is what happened to its child and its target.
THEOREM AnswersAreTrue == OpSpec => []AnswerIsTrue
<1>1. OpIInv => AnswerIsTrue
  BY DEF OpIInv, AnswerIsTrue, Good, ChildInv, ResInv, In
<1> QED
  BY <1>1, InitOpIInv, NextOpIInv, PTL DEF OpSpec

-----------------------------------------------------------------------------
(* Markers: replays.                                                       *)

\* A set of numbers has a least one.
LEMMA Least ==
    ASSUME NEW Q, Q \subseteq Nat, Q # {}
    PROVE  \E n \in Q : \A m \in Q : n <= m
<1>1. PICK n \in Q : \A m \in Q : ~(<<m, n>> \in OpToRel(<, Nat))
  BY NatLessThanWellFounded, WFMin
<1>2. \A m \in Q : n <= m
  <2> TAKE m \in Q
  <2>1. ~(m < n) BY <1>1 DEF OpToRel
  <2> QED BY <2>1
<1> QED BY <1>2

\* What holds of 0 and, after n - 1, of n holds up to the bound.
LEMMA Climb ==
    ASSUME NEW L \in Nat, NEW Q, 0 \in Q, \A n \in 1 .. L : n - 1 \in Q => n \in Q
    PROVE  \A n \in 0 .. L : n \in Q
<1> DEFINE T == {n \in 0 .. L : n \notin Q}
<1>1. ASSUME T # {} PROVE FALSE
  <2>1. T \subseteq Nat OBVIOUS
  <2>2. PICK n \in T : \A m \in T : n <= m
    <3> HIDE DEF T
    <3> QED BY <1>1, <2>1, Least
  <2>3. \A m \in T : ~(m < n) BY <2>1, <2>2
  <2>4. n \in 1 .. L /\ n \notin Q BY <2>2
  <2>5. n - 1 \in T BY <2>4
  <2> QED BY <2>3, <2>4, <2>5
<1> QED BY <1>1

Edits == [start : Nat, old : Nat, new : Nat]
Transforms == [edit : Edits, restore : SUBSET Nat]

\* A replay is a walk: it begins with the set, and each step is one transform.
LEMMA ReplayedSteps ==
    ASSUME NEW set, NEW record \in Seq(Transforms)
    PROVE  /\ Replayed(set, record)[0] = [set |-> set, inverse |-> <<>>]
           /\ \A n \in 1 .. Len(record) :
                Replayed(set, record)[n] = Apply(Replayed(set, record)[n - 1], record[n])
<1> DEFINE L == Len(record)
           base == [set |-> set, inverse |-> <<>>]
           Walks(g, n) == g = [m \in 0 .. n |-> IF m = 0 THEN base ELSE Apply(g[m - 1], record[m])]
           Q == {n \in 0 .. L : \E g : Walks(g, n)}
<1>1. L \in Nat OBVIOUS
<1>2. \E g : Walks(g, 0)
  <2> HIDE DEF base
  <2> DEFINE g == [m \in 0 .. 0 |-> base]
  <2>1. \A m \in 0 .. 0 : m = 0 OBVIOUS
  <2>2. Walks(g, 0) BY <2>1
  <2> QED BY <2>2
<1>3. ASSUME NEW n \in 1 .. L, \E g : Walks(g, n - 1) PROVE \E g : Walks(g, n)
  <2>1. PICK g : Walks(g, n - 1) BY <1>3
  <2> DEFINE h == [m \in 0 .. n |-> IF m = n THEN Apply(g[n - 1], record[n]) ELSE g[m]]
  <2>2. \A m \in 0 .. n : m # 0 => h[m - 1] = g[m - 1] OBVIOUS
  <2>3. \A m \in 0 .. n : h[m] = IF m = 0 THEN base ELSE Apply(h[m - 1], record[m])
    <3> TAKE m \in 0 .. n
    <3>1. CASE m = n BY <2>2, <3>1
    <3>2. CASE m # n
      <4>1. h[m] = g[m] /\ m \in 0 .. (n - 1) BY <3>2
      <4>2. g[m] = IF m = 0 THEN base ELSE Apply(g[m - 1], record[m]) BY <2>1, <4>1
      <4> QED BY <2>2, <4>1, <4>2
    <3> QED BY <3>1, <3>2
  <2>4. h = [m \in 0 .. n |-> h[m]] OBVIOUS
  <2> HIDE DEF base, h
  <2>5. Walks(h, n) BY <2>3, <2>4
  <2> QED BY <2>5
<1>4. \E g : Walks(g, L)
  <2> HIDE DEF Walks
  <2>1. 0 \in Q BY <1>1, <1>2
  <2>2. \A n \in 1 .. L : n - 1 \in Q => n \in Q BY <1>1, <1>3
  <2>3. \A n \in 0 .. L : n \in Q
    <3> HIDE DEF Q, L
    <3> QED BY <1>1, <2>1, <2>2, Climb
  <2> QED BY <1>1, <2>3
<1>5. PICK g : Walks(g, L) BY <1>4
<1>6. Replayed(set, record) =
        [m \in 0 .. L |-> IF m = 0 THEN base ELSE Apply(Replayed(set, record)[m - 1], record[m])]
  BY <1>5 DEF Replayed
<1> HIDE DEF base
<1>7. /\ Replayed(set, record)[0] = base
      /\ \A n \in 1 .. L : Replayed(set, record)[n] = Apply(Replayed(set, record)[n - 1], record[n])
  BY <1>1, <1>6
<1> QED BY <1>7 DEF base

\* What a transform makes of a set, and what takes it back.
After(set, t) == Shifted(t.edit, set \ Removed(t.edit, set)) \cup t.restore
Reversal(set, t) ==
    Transform(Replacement(t.edit.start, t.edit.new, t.edit.old), Removed(t.edit, set))

LEMMA ApplyFacts ==
    ASSUME NEW at, NEW t
    PROVE  Apply(at, t) = [set |-> After(at.set, t),
                           inverse |-> Append(at.inverse, Reversal(at.set, t))]
BY DEF Apply, After, Reversal

\* Along sets that follow from one another, a replay reaches the last and
\* collects what takes each step back.
LEMMA ReplayWalks ==
    ASSUME NEW record \in Seq(Transforms), NEW s,
           \A n \in 1 .. Len(record) : s[n] = After(s[n - 1], record[n])
    PROVE  /\ Replay(s[0], record).set = s[Len(record)]
           /\ Replay(s[0], record).inverse =
                [n \in 1 .. Len(record) |-> Reversal(s[n - 1], record[n])]
<1> DEFINE L == Len(record)
           at == Replayed(s[0], record)
           back(n) == [m \in 1 .. n |-> Reversal(s[m - 1], record[m])]
           P(n) == at[n].set = s[n] /\ at[n].inverse = back(n)
           Q == {n \in 0 .. L : P(n)}
<1>1. L \in Nat OBVIOUS
<1>2. at[0] = [set |-> s[0], inverse |-> <<>>]
      /\ \A n \in 1 .. L : at[n] = Apply(at[n - 1], record[n])
  BY ReplayedSteps
<1> HIDE DEF at
<1>3. P(0)
  <2>1. back(0) = <<>> OBVIOUS
  <2> QED BY <1>2, <2>1
<1>4. ASSUME NEW n \in 1 .. L, P(n - 1) PROVE P(n)
  <2>1. at[n - 1].set = s[n - 1] /\ at[n - 1].inverse = back(n - 1) BY <1>4
  <2> HIDE DEF back
  <2>2. at[n] = [set |-> After(s[n - 1], record[n]),
                 inverse |-> Append(back(n - 1), Reversal(s[n - 1], record[n]))]
    BY <1>2, <2>1, ApplyFacts
  <2>3. s[n] = After(s[n - 1], record[n]) OBVIOUS
  <2>4. Append(back(n - 1), Reversal(s[n - 1], record[n])) = back(n)
    <3> DEFINE f(m) == Reversal(s[m - 1], record[m])
    <3>1. Append([m \in 1 .. (n - 1) |-> f(m)], f(n)) = [m \in 1 .. n |-> f(m)]
      <4> HIDE DEF f
      <4> QED OBVIOUS
    <3> QED BY <3>1 DEF back
  <2> QED BY <2>2, <2>3, <2>4
<1>5. P(L)
  <2> HIDE DEF P
  <2>1. 0 \in Q BY <1>1, <1>3
  <2>2. \A n \in 1 .. L : n - 1 \in Q => n \in Q BY <1>1, <1>4
  <2>3. \A n \in 0 .. L : n \in Q
    <3> HIDE DEF Q, L
    <3> QED BY <1>1, <2>1, <2>2, Climb
  <2> QED BY <1>1, <2>3
<1> QED BY <1>5 DEF Replay, at

\* A record is applied from its end.
LEMMA ReplayBack ==
    ASSUME NEW record \in Seq(Transforms), NEW s,
           \A n \in 1 .. Len(record) : s[n - 1] = After(s[n], record[n])
    PROVE  LET L == Len(record)
               done == ApplyRecord(s[L], record)
           IN /\ done.set = s[0]
              /\ done.inverse =
                    [i \in 1 .. L |-> Reversal(s[L + 1 - i], record[L + 1 - i])]
<1> DEFINE L == Len(record)
           z == [n \in 0 .. L |-> s[L - n]]
           back == Reverse(record)
<1>1. L \in Nat OBVIOUS
<1>2. back = [i \in 1 .. L |-> record[L + 1 - i]]
  <2>1. \A i \in 1 .. L : (L - i) + 1 = L + 1 - i OBVIOUS
  <2> QED BY <2>1 DEF Reverse
<1>3. back \in Seq(Transforms) /\ Len(back) = L
  <2>1. \A i \in 1 .. L : record[L + 1 - i] \in Transforms BY <1>1
  <2> QED BY <1>1, <1>2, <2>1
<1>4. \A n \in 1 .. L : z[n] = After(z[n - 1], back[n])
  <2> TAKE n \in 1 .. L
  <2>1. L + 1 - n \in 1 .. L /\ (L + 1 - n) - 1 = L - n /\ L - (n - 1) = L + 1 - n BY <1>1
  <2>2. s[L - n] = After(s[L + 1 - n], record[L + 1 - n]) BY <2>1
  <2>3. z[n] = s[L - n] /\ z[n - 1] = s[L + 1 - n] /\ back[n] = record[L + 1 - n]
    BY <1>1, <1>2, <2>1
  <2> QED BY <2>2, <2>3
<1>5. z[0] = s[L] /\ z[L] = s[0] BY <1>1
<1>6. \A n \in 1 .. L : z[n - 1] = s[L + 1 - n] BY <1>1
<1> HIDE DEF z, back
<1>7. /\ Replay(z[0], back).set = z[L]
      /\ Replay(z[0], back).inverse = [n \in 1 .. L |-> Reversal(z[n - 1], back[n])]
  BY <1>3, <1>4, ReplayWalks, ZenonT(60)
<1>8. ApplyRecord(s[L], record) = Replay(z[0], back) BY <1>5 DEF ApplyRecord, back
<1>9. [n \in 1 .. L |-> Reversal(z[n - 1], back[n])]
        = [i \in 1 .. L |-> Reversal(s[L + 1 - i], record[L + 1 - i])]
  BY <1>2, <1>6
<1> QED BY <1>5, <1>7, <1>8, <1>9

\* Whatever lines a transform names, it is taken back.
LEMMA TakenBack ==
    ASSUME NEW set \in SUBSET Nat, NEW t \in Transforms, t.restore = {}
    PROVE  /\ After(set, t) \in SUBSET Nat
           /\ Reversal(set, t) \in Transforms
           /\ After(After(set, t), Reversal(set, t)) = set
<1> DEFINE e == t.edit
           gone == Removed(e, set)
           left == set \ gone
           moved == Shifted(e, left)
           undoing == Replacement(e.start, e.new, e.old)
<1>1. e.start \in Nat /\ e.old \in Nat /\ e.new \in Nat BY DEF Transforms, Edits
<1>2. gone \subseteq set BY DEF Removed
<1>3. \A l \in left : l < e.start + e.old => l < e.start \/ (l = e.start /\ e.old > 0 /\ e.new > 0)
  <2> SUFFICES ASSUME NEW l \in left, l < e.start + e.old
               PROVE  l < e.start \/ (l = e.start /\ e.old > 0 /\ e.new > 0)
    OBVIOUS
  <2>1. l \in set /\ l \in Nat /\ l \notin Removed(e, set) OBVIOUS
  <2> HIDE DEF e, gone, left, moved, undoing
  <2>2. ~((IF e.old > 0 /\ e.new > 0 THEN e.start + 1 ELSE e.start) <= l)
    BY <2>1 DEF Removed
  <2> QED BY <1>1, <2>1, <2>2
<1>4. moved = {IF l >= e.start + e.old THEN (l + e.new) - e.old ELSE l : l \in left}
  BY DEF Shifted
<1>5. moved \subseteq Nat
  <2> SUFFICES ASSUME NEW l \in left
               PROVE  (IF l >= e.start + e.old THEN (l + e.new) - e.old ELSE l) \in Nat
    BY <1>4
  <2>1. l \in Nat BY <1>2
  <2> QED BY <1>1, <2>1
<1>6. undoing = [start |-> e.start, old |-> e.new, new |-> e.old] BY DEF Replacement
<1>7. Removed(undoing, moved) = {}
  <2> SUFFICES ASSUME NEW l \in left, NEW k,
                      k = (IF l >= e.start + e.old THEN (l + e.new) - e.old ELSE l),
                      k \in Removed(undoing, moved)
               PROVE  FALSE
    BY <1>4 DEF Removed
  <2>1. (IF e.new > 0 /\ e.old > 0 THEN e.start + 1 ELSE e.start) <= k /\ k < e.start + e.new
    BY <1>6 DEF Removed
  <2>2. l \in Nat BY <1>2
  <2>3. CASE l >= e.start + e.old BY <1>1, <2>1, <2>2, <2>3
  <2>4. CASE l < e.start + e.old BY <1>1, <1>3, <2>1, <2>2, <2>4
  <2> QED BY <1>1, <2>2, <2>3, <2>4
<1>8. Shifted(undoing, moved) = left
  <2> DEFINE up(l) == IF l >= e.start + e.old THEN (l + e.new) - e.old ELSE l
             down(k) == IF k >= e.start + e.new THEN (k + e.old) - e.new ELSE k
  <2>1. ASSUME NEW l \in left PROVE down(up(l)) = l
    <3>1. l \in Nat BY <1>2
    <3>2. CASE l >= e.start + e.old
      <4>1. up(l) = (l + e.new) - e.old /\ (l + e.new) - e.old >= e.start + e.new
        BY <1>1, <3>1, <3>2
      <4>2. (((l + e.new) - e.old) + e.old) - e.new = l BY <1>1, <3>1
      <4> QED BY <4>1, <4>2
    <3>3. CASE ~(l >= e.start + e.old)
      <4>1. up(l) = l /\ ~(l >= e.start + e.new) BY <1>1, <1>3, <3>1, <3>3
      <4> QED BY <4>1
    <3> QED BY <3>2, <3>3
  <2>2. Shifted(undoing, moved) = {down(k) : k \in moved} BY <1>6 DEF Shifted
  <2>3. moved = {up(l) : l \in left} BY <1>4
  <2> HIDE DEF left, moved, undoing, up, down
  <2> QED BY <2>1, <2>2, <2>3
<1>9. After(set, t) = moved BY DEF After
<1>10. Reversal(set, t) = [edit |-> undoing, restore |-> gone] BY DEF Reversal, Transform
<1>11. After(moved, [edit |-> undoing, restore |-> gone]) = left \cup gone
  <2>1. moved \ {} = moved OBVIOUS
  <2> QED BY <1>7, <1>8, <2>1 DEF After
<1>12. undoing \in Edits BY <1>1, <1>6 DEF Edits
<1>13. [edit |-> undoing, restore |-> gone] \in Transforms BY <1>2, <1>12 DEF Transforms
<1>14. left \cup gone = set BY <1>2
<1> HIDE DEF left, moved, undoing, gone
<1> QED BY <1>5, <1>9, <1>10, <1>11, <1>13, <1>14

\* rollback: a batch that was begun and taken back leaves the markers.
LEMMA RollsBack ==
    ASSUME NEW set \in SUBSET Nat, NEW record \in Seq(Transforms),
           \A n \in 1 .. Len(record) : record[n].restore = {}
    PROVE  LET begun == Replay(set, record) IN ApplyRecord(begun.set, begun.inverse).set = set
<1>0. /\ Replayed(set, record)[0] = [set |-> set, inverse |-> <<>>]
      /\ \A n \in 1 .. Len(record) :
            Replayed(set, record)[n] = Apply(Replayed(set, record)[n - 1], record[n])
  BY ReplayedSteps
<1> DEFINE L == Len(record)
           s == [n \in 0 .. L |-> Replayed(set, record)[n].set]
           Q == {n \in 0 .. L : s[n] \in SUBSET Nat}
           back == [n \in 1 .. L |-> Reversal(s[n - 1], record[n])]
<1>1. L \in Nat OBVIOUS
<1>2. s[0] = set BY <1>0, <1>1
<1>3. \A n \in 1 .. L : s[n] = After(s[n - 1], record[n])
  <2> TAKE n \in 1 .. L
  <2>1. Replayed(set, record)[n] = Apply(Replayed(set, record)[n - 1], record[n]) BY <1>0
  <2>2. Replayed(set, record)[n].set = After(Replayed(set, record)[n - 1].set, record[n])
    BY <2>1, ApplyFacts
  <2> QED BY <1>1, <2>2
<1> HIDE DEF s
<1>4. \A n \in 0 .. L : s[n] \in SUBSET Nat
  <2>1. 0 \in Q
    <3>1. 0 \in 0 .. L /\ s[0] \in SUBSET Nat BY <1>1, <1>2
    <3> QED BY <3>1
  <2>2. \A n \in 1 .. L : n - 1 \in Q => n \in Q
    <3> TAKE n \in 1 .. L
    <3>1. record[n] \in Transforms /\ record[n].restore = {} OBVIOUS
    <3> QED BY <1>1, <1>3, <3>1, TakenBack
  <2>3. \A n \in 0 .. L : n \in Q
    <3> HIDE DEF Q, L
    <3> QED BY <1>1, <2>1, <2>2, Climb
  <2> QED BY <2>3
<1>5. \A n \in 1 .. L :
        /\ s[n - 1] \in SUBSET Nat
        /\ Reversal(s[n - 1], record[n]) \in Transforms
        /\ s[n - 1] = After(s[n], Reversal(s[n - 1], record[n]))
  <2> TAKE n \in 1 .. L
  <2>1. record[n] \in Transforms /\ record[n].restore = {} OBVIOUS
  <2>2. s[n - 1] \in SUBSET Nat BY <1>1, <1>4
  <2> QED BY <1>3, <2>1, <2>2, TakenBack
<1>6. Replay(set, record).set = s[L] /\ Replay(set, record).inverse = back
  BY <1>2, <1>3, ReplayWalks
<1>7. back \in Seq(Transforms) /\ Len(back) = L /\ \A n \in 1 .. L : s[n - 1] = After(s[n], back[n])
  BY <1>1, <1>5
<1> HIDE DEF back
<1>8. ApplyRecord(s[L], back).set = s[0] BY <1>7, ReplayBack
<1> QED BY <1>2, <1>6, <1>8

-----------------------------------------------------------------------------
(* Texts and the lines that are marked in them.                            *)

Texts == {x \in Seq(Nat) : \A i, j \in DOMAIN x : x[i] = x[j] => i = j}
Ids(x) == {x[i] : i \in DOMAIN x}
At(x, m) == {i - 1 : i \in {j \in DOMAIN x : x[j] \in m}}

\* The line of a replacement that keeps its identity, if one does.
Kept(e) == IF e.old > 0 /\ e.new > 0 THEN 1 ELSE 0

\* y is x with the lines of e replaced, and the others where they were.
Spliced(x, e, y) ==
    /\ e.start + e.old <= Len(x) /\ Len(y) + e.old = Len(x) + e.new
    /\ \A i \in 1 .. e.start + Kept(e) : y[i] = x[i]
    /\ \A i \in 1 .. Len(x) : i > e.start + e.old => y[(i + e.new) - e.old] = x[i]
    /\ \A i \in 1 .. Len(x) : e.start + Kept(e) < i /\ i <= e.start + e.old => x[i] \notin Ids(y)
    /\ \A i \in 1 .. Len(y) : e.start + Kept(e) < i /\ i <= e.start + e.new => y[i] \notin Ids(x)

Back(e) == Replacement(e.start, e.new, e.old)

LEMMA BackFacts ==
    ASSUME NEW e \in Edits
    PROVE  /\ Back(e) \in Edits /\ Back(e).start = e.start
           /\ Back(e).old = e.new /\ Back(e).new = e.old /\ Kept(Back(e)) = Kept(e)
           /\ e.start \in Nat /\ e.old \in Nat /\ e.new \in Nat
           /\ Kept(e) \in {0, 1} /\ Kept(e) <= e.old /\ Kept(e) <= e.new
           /\ (e.old = 0 \/ e.new = 0 => Kept(e) = 0)
           /\ (e.old > 0 /\ e.new > 0 => Kept(e) = 1)
BY DEF Back, Replacement, Edits, Kept

LEMMA TextFacts ==
    ASSUME NEW x \in Texts
    PROVE  /\ x \in Seq(Nat) /\ Len(x) \in Nat /\ DOMAIN x = 1 .. Len(x)
           /\ \A i \in 1 .. Len(x) : x[i] \in Nat
           /\ \A i, j \in 1 .. Len(x) : x[i] = x[j] => i = j
           /\ \A n : n \in Ids(x) <=> \E i \in 1 .. Len(x) : x[i] = n
           /\ \A m, l : l \in At(x, m) <=> l \in Nat /\ l + 1 \in 1 .. Len(x) /\ x[l + 1] \in m
           /\ \A m : At(x, m) \in SUBSET Nat
<1>1. x \in Seq(Nat) /\ \A i, j \in DOMAIN x : x[i] = x[j] => i = j BY DEF Texts
<1>2. Len(x) \in Nat /\ DOMAIN x = 1 .. Len(x) /\ \A i \in 1 .. Len(x) : x[i] \in Nat BY <1>1
<1>3. \A n : n \in Ids(x) <=> \E i \in 1 .. Len(x) : x[i] = n BY <1>2 DEF Ids
<1>4. ASSUME NEW m, NEW l
      PROVE  l \in At(x, m) <=> l \in Nat /\ l + 1 \in 1 .. Len(x) /\ x[l + 1] \in m
  <2>1. ASSUME l \in At(x, m) PROVE l \in Nat /\ l + 1 \in 1 .. Len(x) /\ x[l + 1] \in m
    <3>1. PICK i \in 1 .. Len(x) : x[i] \in m /\ l = i - 1 BY <1>2, <2>1 DEF At
    <3>2. l + 1 = i /\ l \in Nat BY <1>2, <3>1
    <3> QED BY <3>1, <3>2
  <2>2. ASSUME l \in Nat, l + 1 \in 1 .. Len(x), x[l + 1] \in m PROVE l \in At(x, m)
    <3>1. (l + 1) - 1 = l BY <2>2
    <3> QED BY <1>2, <2>2, <3>1 DEF At
  <2> QED BY <2>1, <2>2
<1>5. \A m : At(x, m) \in SUBSET Nat BY <1>4
<1> QED BY <1>1, <1>2, <1>3, <1>4, <1>5

LEMMA IdsNat ==
    ASSUME NEW x \in Texts
    PROVE  Ids(x) \subseteq Nat
BY TextFacts

LEMMA SplicedBack ==
    ASSUME NEW x \in Texts, NEW y \in Texts, NEW e \in Edits, Spliced(x, e, y)
    PROVE  Spliced(y, Back(e), x)
<1>1. Len(x) \in Nat /\ Len(y) \in Nat BY TextFacts
<1>2. ASSUME NEW i \in 1 .. Len(y), i > e.start + e.new PROVE x[(i + e.old) - e.new] = y[i]
  <2> DEFINE j == (i + e.old) - e.new
  <2>1. j \in 1 .. Len(x) /\ j > e.start + e.old /\ (j + e.new) - e.old = i
    BY <1>1, <1>2, BackFacts, SMTT(30) DEF Spliced
  <2> HIDE DEF j
  <2>2. y[(j + e.new) - e.old] = x[j] BY <2>1 DEF Spliced
  <2>3. x[j] = y[i] BY <2>1, <2>2
  <2> QED BY <2>3 DEF j
<1>3. \A i \in 1 .. e.start + Kept(e) : x[i] = y[i] BY DEF Spliced
<1>4. \A i \in 1 .. Len(y) : e.start + Kept(e) < i /\ i <= e.start + e.new => y[i] \notin Ids(x)
  BY DEF Spliced
<1>5. \A i \in 1 .. Len(x) : e.start + Kept(e) < i /\ i <= e.start + e.old => x[i] \notin Ids(y)
  BY DEF Spliced
<1>6. e.start + e.new <= Len(y) /\ Len(x) + e.new = Len(y) + e.old
  BY <1>1, BackFacts DEF Spliced
<1> DEFINE b == Back(e)
<1>7. b.start = e.start /\ b.old = e.new /\ b.new = e.old /\ Kept(b) = Kept(e) BY BackFacts
<1> HIDE DEF b
<1>8. Spliced(y, b, x) BY <1>2, <1>3, <1>4, <1>5, <1>6, <1>7 DEF Spliced
<1> QED BY <1>8 DEF b

\* A transform moves the markers with their lines, forgets those of the lines
\* that go, and sets those it restores on the lines that come.
LEMMA SplicedMarks ==
    ASSUME NEW x \in Texts, NEW y \in Texts, NEW e \in Edits, Spliced(x, e, y), NEW m
    PROVE  /\ Removed(e, At(x, m)) = At(x, m \ Ids(y))
           /\ Shifted(e, At(x, m) \ Removed(e, At(x, m))) = At(y, m \cap Ids(x))
<1>1. Len(x) \in Nat /\ Len(y) \in Nat /\ DOMAIN x = 1 .. Len(x) /\ DOMAIN y = 1 .. Len(y) BY TextFacts
<1>2. \A l : l \in At(x, m) <=> l \in Nat /\ l + 1 \in 1 .. Len(x) /\ x[l + 1] \in m BY TextFacts
<1>3. \A l : l \in Removed(e, At(x, m)) <=>
                l \in At(x, m) /\ e.start + Kept(e) <= l /\ l < e.start + e.old
  BY BackFacts DEF Removed, Kept
<1>4. \A l \in Nat : l + 1 \in 1 .. Len(x) /\ l < e.start + Kept(e) => y[l + 1] = x[l + 1] /\ l + 1 \in 1 .. Len(y)
  BY <1>1, BackFacts, SMTT(30) DEF Spliced
<1>5. \A l \in Nat : l + 1 \in 1 .. Len(x) /\ l >= e.start + e.old =>
            /\ (l + e.new) - e.old \in Nat
            /\ ((l + e.new) - e.old) + 1 \in 1 .. Len(y)
            /\ y[((l + e.new) - e.old) + 1] = x[l + 1]
  <2> TAKE l \in Nat
  <2> HAVE l + 1 \in 1 .. Len(x) /\ l >= e.start + e.old
  <2>1. ((l + 1) + e.new) - e.old = ((l + e.new) - e.old) + 1 BY BackFacts, SMTT(30)
  <2>2. y[((l + 1) + e.new) - e.old] = x[l + 1]
    <3> DEFINE i == l + 1
    <3>1. i \in 1 .. Len(x) /\ i > e.start + e.old BY BackFacts
    <3> HIDE DEF i
    <3>2. y[(i + e.new) - e.old] = x[i] BY <3>1 DEF Spliced
    <3> QED BY <3>2 DEF i
  <2>3. (l + e.new) - e.old \in Nat /\ ((l + e.new) - e.old) + 1 \in 1 .. Len(y)
    BY <1>1, BackFacts, SMTT(30) DEF Spliced
  <2> QED BY <2>1, <2>2, <2>3
<1>6. Removed(e, At(x, m)) = At(x, m \ Ids(y))
  <2>1. ASSUME NEW l \in At(x, m)
        PROVE  x[l + 1] \notin Ids(y) <=> e.start + Kept(e) <= l /\ l < e.start + e.old
    <3>1. l \in Nat /\ l + 1 \in 1 .. Len(x) BY <1>2
    <3>2. CASE l < e.start + Kept(e)
      <4>0. y[l + 1] = x[l + 1] /\ l + 1 \in 1 .. Len(y) BY <1>4, <3>1, <3>2
      <4>1. x[l + 1] \in Ids(y) BY <4>0, TextFacts
      <4> QED BY <3>1, <3>2, <4>1, BackFacts
    <3>3. CASE l >= e.start + e.old
      <4>0. /\ ((l + e.new) - e.old) + 1 \in 1 .. Len(y)
            /\ y[((l + e.new) - e.old) + 1] = x[l + 1]
        BY <1>5, <3>1, <3>3
      <4>1. x[l + 1] \in Ids(y) BY <4>0, TextFacts
      <4> QED BY <3>1, <3>3, <4>1, BackFacts
    <3>4. CASE e.start + Kept(e) <= l /\ l < e.start + e.old
      <4>1. e.start + Kept(e) < l + 1 /\ l + 1 <= e.start + e.old BY <3>1, <3>4, BackFacts
      <4> QED BY <3>1, <3>4, <4>1 DEF Spliced
    <3> QED BY <3>1, <3>2, <3>3, <3>4, BackFacts
  <2>2. \A l : l \in At(x, m \ Ids(y)) <=> l \in At(x, m) /\ x[l + 1] \notin Ids(y)
    BY <1>2, TextFacts
  <2> QED BY <1>3, <2>1, <2>2
<1>7. Shifted(e, At(x, m) \ Removed(e, At(x, m))) = At(y, m \cap Ids(x))
  <2> DEFINE left == At(x, m) \ Removed(e, At(x, m))
             up(l) == IF l >= e.start + e.old THEN (l + e.new) - e.old ELSE l
  <2>1. Shifted(e, left) = {up(l) : l \in left} BY DEF Shifted
  <2>2. ASSUME NEW l \in left PROVE up(l) \in At(y, m \cap Ids(x))
    <3>1. l \in Nat /\ l + 1 \in 1 .. Len(x) /\ x[l + 1] \in m /\ x[l + 1] \in Ids(x)
      BY <1>2, TextFacts
    <3>2. l < e.start + Kept(e) \/ l >= e.start + e.old BY <1>3, <3>1, BackFacts
    <3>3. up(l) \in Nat /\ up(l) + 1 \in 1 .. Len(y) /\ y[up(l) + 1] = x[l + 1]
      <4>1. CASE l >= e.start + e.old BY <1>5, <3>1, <4>1
      <4>2. CASE ~(l >= e.start + e.old) BY <1>4, <3>1, <3>2, <4>2
      <4> QED BY <4>1, <4>2
    <3> QED BY <3>1, <3>3, TextFacts
  <2>3. ASSUME NEW k \in At(y, m \cap Ids(x)) PROVE \E l \in left : up(l) = k
    <3>1. k \in Nat /\ k + 1 \in 1 .. Len(y) /\ y[k + 1] \in m /\ y[k + 1] \in Ids(x)
      BY TextFacts
    <3>2. k < e.start + Kept(e) \/ k >= e.start + e.new
      <4>1. ~(e.start + Kept(e) < k + 1 /\ k + 1 <= e.start + e.new) BY <3>1 DEF Spliced
      <4> QED BY <3>1, <4>1, BackFacts
    <3>3. CASE k < e.start + Kept(e)
      <4>1. k + 1 \in 1 .. Len(x) /\ x[k + 1] = y[k + 1] BY <1>1, <3>1, <3>3, BackFacts DEF Spliced
      <4>2. k \in left /\ ~(k >= e.start + e.old) BY <1>2, <1>3, <3>1, <3>3, <4>1, BackFacts
      <4> QED BY <4>2
    <3>4. CASE k >= e.start + e.new
      <4> DEFINE l == (k + e.old) - e.new
      <4>0. Len(y) + e.old = Len(x) + e.new BY DEF Spliced
      <4>1. l \in Nat /\ l + 1 \in 1 .. Len(x) /\ l >= e.start + e.old /\ (l + e.new) - e.old = k
        <5>1. /\ e.start \in Nat /\ e.old \in Nat /\ e.new \in Nat /\ k \in Nat
              /\ Len(x) \in Nat /\ Len(y) \in Nat /\ k + 1 <= Len(y)
          BY <1>1, <3>1, BackFacts
        <5>2. (k + e.old) - e.new >= e.start + e.old BY <3>4, <5>1
        <5>3. (k + e.old) - e.new + 1 <= Len(x) BY <4>0, <5>1
        <5>4. (k + e.old) - e.new \in Nat BY <5>1, <5>2
        <5>5. (((k + e.old) - e.new) + e.new) - e.old = k BY <5>1
        <5> QED BY <5>1, <5>2, <5>3, <5>4, <5>5
      <4> HIDE DEF l
      <4>2. y[((l + e.new) - e.old) + 1] = x[l + 1] BY <1>5, <4>1
      <4>3. x[l + 1] \in m BY <3>1, <4>1, <4>2
      <4>4. l \in left BY <1>2, <1>3, <4>1, <4>3, BackFacts, SMTT(30)
      <4>5. up(l) = k BY <4>1
      <4> QED BY <4>4, <4>5
    <3> QED BY <3>2, <3>3, <3>4
  <2> HIDE DEF left, up
  <2>4. {up(l) : l \in left} = At(y, m \cap Ids(x)) BY <2>2, <2>3
  <2> QED BY <2>1, <2>4 DEF left
<1> QED BY <1>6, <1>7

\* The transform takes the markers of x to those of y, m being marked.
Fits(t, x, y, m) == t \in Transforms /\ Spliced(x, t.edit, y) /\ t.restore = At(y, m \ Ids(x))

LEMMA FitsStep ==
    ASSUME NEW x \in Texts, NEW y \in Texts, NEW t, NEW m, Fits(t, x, y, m)
    PROVE  After(At(x, m), t) = At(y, m) /\ Fits(Reversal(At(x, m), t), y, x, m)
<1> DEFINE e == t.edit
<1>1. e \in Edits /\ Spliced(x, e, y) /\ t.restore = At(y, m \ Ids(x))
  BY DEF Fits, Transforms
<1>2. /\ Removed(e, At(x, m)) = At(x, m \ Ids(y))
      /\ Shifted(e, At(x, m) \ Removed(e, At(x, m))) = At(y, m \cap Ids(x))
  BY <1>1, SplicedMarks
<1>3. At(y, m \cap Ids(x)) \cup At(y, m \ Ids(x)) = At(y, m) BY TextFacts, SMTT(30)
<1>4. After(At(x, m), t) = At(y, m) BY <1>1, <1>2, <1>3 DEF After
<1>5. Reversal(At(x, m), t) = [edit |-> Back(e), restore |-> At(x, m \ Ids(y))]
  BY <1>2 DEF Reversal, Transform, Back
<1>6. Spliced(y, Back(e), x) /\ Back(e) \in Edits BY <1>1, SplicedBack, BackFacts
<1>7. At(x, m \ Ids(y)) \in SUBSET Nat BY TextFacts
<1> HIDE DEF e
<1>8. Fits([edit |-> Back(e), restore |-> At(x, m \ Ids(y))], y, x, m)
  BY <1>6, <1>7 DEF Fits, Transforms
<1> QED BY <1>4, <1>5, <1>8

LEMMA WalkFits ==
    ASSUME NEW record \in Seq(Transforms), NEW c, NEW m,
           \A n \in 0 .. Len(record) : c[n] \in Texts,
           \A n \in 1 .. Len(record) : Fits(record[n], c[n - 1], c[n], m)
    PROVE  LET done == Replay(At(c[0], m), record) IN
           /\ done.set = At(c[Len(record)], m)
           /\ done.inverse \in Seq(Transforms) /\ Len(done.inverse) = Len(record)
           /\ \A n \in 1 .. Len(record) : Fits(done.inverse[n], c[n], c[n - 1], m)
<1> DEFINE L == Len(record)
           s == [n \in 0 .. L |-> At(c[n], m)]
           back == [n \in 1 .. L |-> Reversal(s[n - 1], record[n])]
<1>1. L \in Nat OBVIOUS
<1>2. \A n \in 1 .. L :
        /\ s[n] = After(s[n - 1], record[n])
        /\ Fits(Reversal(s[n - 1], record[n]), c[n], c[n - 1], m)
  <2> TAKE n \in 1 .. L
  <2>1. n - 1 \in 0 .. L /\ n \in 0 .. L BY <1>1
  <2>2. s[n] = At(c[n], m) /\ s[n - 1] = At(c[n - 1], m) BY <2>1
  <2>3. c[n] \in Texts /\ c[n - 1] \in Texts /\ Fits(record[n], c[n - 1], c[n], m) BY <2>1
  <2> HIDE DEF s
  <2> QED BY <2>2, <2>3, FitsStep
<1>3. s[0] = At(c[0], m) /\ s[L] = At(c[L], m) BY <1>1
<1> HIDE DEF s
<1>4. Replay(s[0], record).set = s[L] /\ Replay(s[0], record).inverse = back
  BY <1>2, ReplayWalks
<1>5. \A n \in 1 .. L : back[n] = Reversal(s[n - 1], record[n]) /\ back[n] \in Transforms
  BY <1>2 DEF Fits
<1>6. back \in Seq(Transforms) /\ Len(back) = L
  <2>1. back = [n \in 1 .. L |-> back[n]] OBVIOUS
  <2> HIDE DEF back
  <2> QED BY <1>1, <1>5, <2>1
<1> HIDE DEF back
<1> QED BY <1>2, <1>3, <1>4, <1>5, <1>6

LEMMA WalkBack ==
    ASSUME NEW record \in Seq(Transforms), NEW c, NEW m,
           \A n \in 0 .. Len(record) : c[n] \in Texts,
           \A n \in 1 .. Len(record) : Fits(record[n], c[n], c[n - 1], m)
    PROVE  LET L == Len(record)
               done == ApplyRecord(At(c[L], m), record) IN
           /\ done.set = At(c[0], m)
           /\ done.inverse \in Seq(Transforms) /\ Len(done.inverse) = L
           /\ \A n \in 1 .. L : Fits(done.inverse[n], c[L - n], c[L + 1 - n], m)
<1> DEFINE L == Len(record)
           s == [n \in 0 .. L |-> At(c[n], m)]
           back == [n \in 1 .. L |-> Reversal(s[L + 1 - n], record[L + 1 - n])]
<1>1. L \in Nat OBVIOUS
<1>2. \A n \in 1 .. L :
        /\ s[n - 1] = After(s[n], record[n])
        /\ Fits(Reversal(s[n], record[n]), c[n - 1], c[n], m)
  <2> TAKE n \in 1 .. L
  <2>1. n - 1 \in 0 .. L /\ n \in 0 .. L BY <1>1
  <2>2. s[n] = At(c[n], m) /\ s[n - 1] = At(c[n - 1], m) BY <2>1
  <2>3. c[n] \in Texts /\ c[n - 1] \in Texts /\ Fits(record[n], c[n], c[n - 1], m) BY <2>1
  <2> HIDE DEF s
  <2> QED BY <2>2, <2>3, FitsStep
<1>3. s[0] = At(c[0], m) /\ s[L] = At(c[L], m) BY <1>1
<1> HIDE DEF s
<1>4. ApplyRecord(s[L], record).set = s[0] /\ ApplyRecord(s[L], record).inverse = back
  BY <1>2, ReplayBack
<1>5. \A n \in 1 .. L : Fits(back[n], c[L - n], c[L + 1 - n], m) /\ back[n] \in Transforms
  <2> TAKE n \in 1 .. L
  <2>1. L + 1 - n \in 1 .. L /\ (L + 1 - n) - 1 = L - n BY <1>1
  <2>2. Fits(Reversal(s[L + 1 - n], record[L + 1 - n]), c[L - n], c[L + 1 - n], m) BY <1>2, <2>1
  <2> QED BY <2>2 DEF Fits
<1>6. back \in Seq(Transforms) /\ Len(back) = L
  <2>1. back = [n \in 1 .. L |-> back[n]] OBVIOUS
  <2> HIDE DEF back
  <2> QED BY <1>1, <1>5, <2>1
<1> HIDE DEF back
<1> QED BY <1>3, <1>4, <1>5, <1>6

-----------------------------------------------------------------------------
(* The line of views that the stacks are points of.                        *)

\* The record takes the markers of g[b] back to those of g[a], view by view;
\* and one that takes those of g[a] on to those of g[b].
Downward(record, g, a, b, m) ==
    /\ b = a + Len(record)
    /\ \A n \in 1 .. Len(record) : Fits(record[n], g[a + n], g[(a + n) - 1], m)

Upward(record, g, a, b, m) ==
    /\ b = a + Len(record)
    /\ \A n \in 1 .. Len(record) : Fits(record[n], g[b - n], g[(b - n) + 1], m)

LEMMA GoDown ==
    ASSUME NEW g \in [Nat -> Texts], NEW a \in Nat, NEW b, NEW m,
           NEW record \in Seq(Transforms), Downward(record, g, a, b, m)
    PROVE  LET done == ApplyRecord(At(g[b], m), record) IN
           /\ done.set = At(g[a], m)
           /\ done.inverse \in Seq(Transforms)
           /\ Upward(done.inverse, g, a, b, m)
<1> DEFINE L == Len(record)
           c == [n \in 0 .. L |-> g[a + n]]
<1>1. L \in Nat /\ b = a + L /\ b \in Nat BY DEF Downward
<1>2. \A n \in 0 .. L : c[n] = g[a + n] /\ c[n] \in Texts BY <1>1
<1>3. \A n \in 1 .. L : Fits(record[n], c[n], c[n - 1], m)
  <2> TAKE n \in 1 .. L
  <2>1. a + (n - 1) = (a + n) - 1 /\ n - 1 \in 0 .. L /\ n \in 0 .. L BY <1>1
  <2>2. Fits(record[n], g[a + n], g[(a + n) - 1], m) BY DEF Downward
  <2> QED BY <1>2, <2>1, <2>2
<1>4. c[L] = g[b] /\ c[0] = g[a] BY <1>1, <1>2
<1> HIDE DEF c
<1> DEFINE done == ApplyRecord(At(c[L], m), record)
<1>5. /\ done.set = At(c[0], m)
      /\ done.inverse \in Seq(Transforms) /\ Len(done.inverse) = L
      /\ \A n \in 1 .. L : Fits(done.inverse[n], c[L - n], c[L + 1 - n], m)
  BY <1>2, <1>3, WalkBack
<1> HIDE DEF done
<1>6. \A n \in 1 .. L : Fits(done.inverse[n], g[b - n], g[(b - n) + 1], m)
  <2> TAKE n \in 1 .. L
  <2>1. L - n \in 0 .. L /\ L + 1 - n \in 0 .. L /\ a + (L - n) = b - n /\ a + (L + 1 - n) = (b - n) + 1
    BY <1>1
  <2> QED BY <1>2, <1>5, <2>1
<1>7. Upward(done.inverse, g, a, b, m) BY <1>1, <1>5, <1>6 DEF Upward
<1> QED BY <1>4, <1>5, <1>7 DEF done

LEMMA GoUp ==
    ASSUME NEW g \in [Nat -> Texts], NEW a \in Nat, NEW b, NEW m,
           NEW record \in Seq(Transforms), Upward(record, g, a, b, m)
    PROVE  LET done == ApplyRecord(At(g[a], m), record) IN
           /\ done.set = At(g[b], m)
           /\ done.inverse \in Seq(Transforms)
           /\ Downward(done.inverse, g, a, b, m)
<1> DEFINE L == Len(record)
           c == [n \in 0 .. L |-> g[b - n]]
<1>1. L \in Nat /\ b = a + L /\ b \in Nat BY DEF Upward
<1>2. \A n \in 0 .. L : c[n] = g[b - n] /\ c[n] \in Texts
  <2> TAKE n \in 0 .. L
  <2>1. b - n \in Nat BY <1>1
  <2> QED BY <2>1
<1>3. \A n \in 1 .. L : Fits(record[n], c[n], c[n - 1], m)
  <2> TAKE n \in 1 .. L
  <2>1. b - (n - 1) = (b - n) + 1 /\ n - 1 \in 0 .. L /\ n \in 0 .. L BY <1>1
  <2>2. Fits(record[n], g[b - n], g[(b - n) + 1], m) BY DEF Upward
  <2> QED BY <1>2, <2>1, <2>2
<1>4. c[L] = g[a] /\ c[0] = g[b]
  <2>1. b - L = a /\ b - 0 = b BY <1>1
  <2> QED BY <1>1, <1>2, <2>1
<1> HIDE DEF c
<1> DEFINE done == ApplyRecord(At(c[L], m), record)
<1>5. /\ done.set = At(c[0], m)
      /\ done.inverse \in Seq(Transforms) /\ Len(done.inverse) = L
      /\ \A n \in 1 .. L : Fits(done.inverse[n], c[L - n], c[L + 1 - n], m)
  BY <1>2, <1>3, WalkBack
<1> HIDE DEF done
<1>6. \A n \in 1 .. L : Fits(done.inverse[n], g[a + n], g[(a + n) - 1], m)
  <2> TAKE n \in 1 .. L
  <2>1. L - n \in 0 .. L /\ L + 1 - n \in 0 .. L /\ b - (L - n) = a + n /\ b - (L + 1 - n) = (a + n) - 1
    BY <1>1
  <2> QED BY <1>2, <1>5, <2>1
<1>7. Downward(done.inverse, g, a, b, m) BY <1>1, <1>5, <1>6 DEF Downward
<1> QED BY <1>4, <1>5, <1>7 DEF done

\* What entry k of a stack leads to: the entry above it, or what is shown.
Near(u, k, p) == IF k = Len(u) THEN p ELSE u[k + 1]

\* The undo stack st, its records rs and the places u of its views on the
\* line g, on which p is shown; the redo stack likewise.
Behind(st, rs, m, g, p, u) ==
    /\ u \in Seq(Nat) /\ st \in Seq(Texts) /\ rs \in Seq(Seq(Transforms))
    /\ Len(st) = Len(u) /\ Len(rs) = Len(u)
    /\ \A k \in 1 .. Len(u) :
        u[k] <= p /\ st[k] = g[u[k]] /\ Downward(rs[k], g, u[k], Near(u, k, p), m)
    /\ \A k, l \in 1 .. Len(u) : k <= l => u[k] <= u[l]

Ahead(st, rs, m, g, p, v) ==
    /\ v \in Seq(Nat) /\ st \in Seq(Texts) /\ rs \in Seq(Seq(Transforms))
    /\ Len(st) = Len(v) /\ Len(rs) = Len(v)
    /\ \A k \in 1 .. Len(v) :
        p <= v[k] /\ st[k] = g[v[k]] /\ Upward(rs[k], g, Near(v, k, p), v[k], m)
    /\ \A k, l \in 1 .. Len(v) : k <= l => v[l] <= v[k]

LEMMA PopFacts ==
    ASSUME NEW S, NEW s \in Seq(S), s # <<>>
    PROVE  /\ Len(s) \in Nat \ {0} /\ Last(s) = s[Len(s)] /\ Last(s) \in S
           /\ Front(s) \in Seq(S) /\ Len(Front(s)) = Len(s) - 1
           /\ \A k \in 1 .. Len(s) - 1 : Front(s)[k] = s[k]
<1>1. Len(s) \in Nat \ {0} OBVIOUS
<1>2. Front(s) = SubSeq(s, 1, Len(s) - 1) /\ Last(s) = s[Len(s)] BY DEF Front, Last
<1>3. s[Len(s)] \in S BY <1>1
<1>4. /\ SubSeq(s, 1, Len(s) - 1) \in Seq(S) /\ Len(SubSeq(s, 1, Len(s) - 1)) = Len(s) - 1
      /\ \A k \in 1 .. Len(s) - 1 : SubSeq(s, 1, Len(s) - 1)[k] = s[k]
  <2> DEFINE n == Len(s) - 1
  <2>1. 1 \in 1 .. Len(s) + 1 /\ n \in 1 - 1 .. Len(s) /\ n \in Nat BY <1>1
  <2>2. Len(s) - 1 = n OBVIOUS
  <2> HIDE DEF n
  <2>3. /\ SubSeq(s, 1, n) \in Seq(S) /\ Len(SubSeq(s, 1, n)) = IF 1 <= n THEN n - 1 + 1 ELSE 0
        /\ \A i \in 1 .. n - 1 + 1 : SubSeq(s, 1, n)[i] = s[1 + i - 1]
    BY <2>1, SubSeqProperties
  <2>4. Len(SubSeq(s, 1, n)) = n BY <2>1, <2>3
  <2>5. \A i \in 1 .. n : SubSeq(s, 1, n)[i] = s[i]
    <3> TAKE i \in 1 .. n
    <3>1. i \in 1 .. n - 1 + 1 /\ 1 + i - 1 = i BY <2>1
    <3> QED BY <2>3, <3>1
  <2> QED BY <2>2, <2>3, <2>4, <2>5
<1> QED BY <1>1, <1>2, <1>3, <1>4

\* At its limit a stack loses its oldest entry.
Cut(s) == IF Len(s) = MarkerHistory THEN 1 ELSE 0

LEMMA PushFacts ==
    ASSUME NEW S, NEW s \in Seq(S), NEW x \in S
    PROVE  /\ Push(s, x) \in Seq(S) /\ Len(s) \in Nat /\ Cut(s) \in {0, 1} /\ Cut(s) <= Len(s)
           /\ Len(Push(s, x)) = (Len(s) - Cut(s)) + 1
           /\ \A k \in 1 .. Len(s) - Cut(s) : Push(s, x)[k] = s[k + Cut(s)]
           /\ Push(s, x)[(Len(s) - Cut(s)) + 1] = x
<1> DEFINE t == IF Len(s) = MarkerHistory THEN Tail(s) ELSE s
<1>1. Len(s) \in Nat /\ MarkerHistory \in Nat \ {0} BY MarkerBoundsAssumption
<1>2. /\ t \in Seq(S) /\ Len(t) = Len(s) - Cut(s)
      /\ \A k \in 1 .. Len(s) - Cut(s) : t[k] = s[k + Cut(s)]
  <2>1. CASE Len(s) = MarkerHistory
    <3>1. s # <<>> /\ t = Tail(s) BY <1>1, <2>1
    <3>2. Len(t) = Len(s) - 1 /\ t \in Seq(S) /\ \A k \in 1 .. Len(s) - 1 : t[k] = s[k + 1]
      BY <3>1
    <3> QED BY <2>1, <3>2 DEF Cut
  <2>2. CASE Len(s) # MarkerHistory
    <3>1. t = s /\ Cut(s) = 0 BY <2>2 DEF Cut
    <3> HIDE DEF t
    <3> QED BY <1>1, <3>1
  <2> QED BY <2>1, <2>2
<1>3. Push(s, x) = Append(t, x) BY DEF Push
<1>4. Cut(s) \in {0, 1} /\ Cut(s) <= Len(s) BY <1>1 DEF Cut
<1> HIDE DEF t
<1>5. /\ Append(t, x) \in Seq(S) /\ Len(Append(t, x)) = Len(t) + 1
      /\ \A k \in 1 .. Len(t) : Append(t, x)[k] = t[k]
      /\ Append(t, x)[Len(t) + 1] = x
  BY <1>2
<1> QED BY <1>1, <1>2, <1>3, <1>4, <1>5

LEMMA PopBehind ==
    ASSUME NEW st, NEW rs, NEW m, NEW g, NEW p \in Nat, NEW u, Behind(st, rs, m, g, p, u),
           st # <<>>
    PROVE  /\ Behind(Front(st), Front(rs), m, g, Last(u), Front(u))
           /\ Last(u) \in Nat /\ Last(u) <= p /\ Last(st) = g[Last(u)]
           /\ Last(rs) \in Seq(Transforms) /\ Downward(Last(rs), g, Last(u), p, m)
<1> DEFINE L == Len(u)
<1>1. /\ u \in Seq(Nat) /\ st \in Seq(Texts) /\ rs \in Seq(Seq(Transforms))
      /\ Len(st) = L /\ Len(rs) = L
  BY DEF Behind
<1>2. u # <<>> /\ rs # <<>> BY <1>1
<1>3. /\ L \in Nat \ {0} /\ Last(u) = u[L] /\ Last(u) \in Nat
      /\ Front(u) \in Seq(Nat) /\ Len(Front(u)) = L - 1
      /\ \A k \in 1 .. L - 1 : Front(u)[k] = u[k]
  BY <1>1, <1>2, PopFacts
<1>4. /\ Last(st) = st[L] /\ Front(st) \in Seq(Texts) /\ Len(Front(st)) = L - 1
      /\ \A k \in 1 .. L - 1 : Front(st)[k] = st[k]
  BY <1>1, PopFacts
<1>5. /\ Last(rs) = rs[L] /\ Last(rs) \in Seq(Transforms)
      /\ Front(rs) \in Seq(Seq(Transforms)) /\ Len(Front(rs)) = L - 1
      /\ \A k \in 1 .. L - 1 : Front(rs)[k] = rs[k]
  BY <1>1, <1>2, PopFacts
<1>6. /\ u[L] <= p /\ st[L] = g[u[L]] /\ Downward(rs[L], g, u[L], p, m)
  BY <1>3 DEF Behind, Near
<1>7. \A k \in 1 .. L - 1 :
        /\ Front(u)[k] <= Last(u) /\ Front(st)[k] = g[Front(u)[k]]
        /\ Downward(Front(rs)[k], g, Front(u)[k], Near(Front(u), k, Last(u)), m)
  <2> TAKE k \in 1 .. L - 1
  <2>1. k \in 1 .. L /\ L \in 1 .. L /\ k <= L /\ k # L BY <1>3
  <2>2. u[k] <= u[L] /\ st[k] = g[u[k]] /\ Downward(rs[k], g, u[k], u[k + 1], m)
    BY <2>1 DEF Behind, Near
  <2>3. Near(Front(u), k, Last(u)) = u[k + 1]
    <3>1. CASE k = L - 1 BY <1>3, <3>1 DEF Near
    <3>2. CASE k # L - 1
      <4>1. k + 1 \in 1 .. L - 1 BY <1>3, <3>2
      <4> QED BY <1>3, <3>2, <4>1 DEF Near
    <3> QED BY <3>1, <3>2
  <2> QED BY <1>3, <1>4, <1>5, <2>2, <2>3
<1>8. \A k, l \in 1 .. L - 1 : k <= l => Front(u)[k] <= Front(u)[l]
  <2> TAKE k, l \in 1 .. L - 1
  <2>1. k \in 1 .. L /\ l \in 1 .. L BY <1>3
  <2> QED BY <1>3, <2>1 DEF Behind
<1>9. Behind(Front(st), Front(rs), m, g, Last(u), Front(u))
  BY <1>3, <1>4, <1>5, <1>7, <1>8 DEF Behind
<1> QED BY <1>3, <1>4, <1>5, <1>6, <1>9

LEMMA PushBehind ==
    ASSUME NEW st, NEW rs, NEW m, NEW g, NEW p \in Nat, NEW u, Behind(st, rs, m, g, p, u),
           NEW q \in Nat, p <= q, NEW x \in Texts, x = g[p],
           NEW r \in Seq(Transforms), Downward(r, g, p, q, m)
    PROVE  Behind(Push(st, x), Push(rs, r), m, g, q, Push(u, p))
<1> DEFINE d == Cut(u)
           L == Len(u) - d
           w == Push(u, p)
           t == Push(st, x)
           z == Push(rs, r)
<1>1. /\ u \in Seq(Nat) /\ st \in Seq(Texts) /\ rs \in Seq(Seq(Transforms))
      /\ Len(st) = Len(u) /\ Len(rs) = Len(u)
  BY DEF Behind
<1>2. Cut(st) = d /\ Cut(rs) = d /\ Len(st) - Cut(st) = L /\ Len(rs) - Cut(rs) = L BY <1>1 DEF Cut
<1>3. /\ w \in Seq(Nat) /\ Len(w) = L + 1 /\ w[L + 1] = p
      /\ \A k \in 1 .. L : w[k] = u[k + d]
      /\ d \in {0, 1} /\ L \in Nat /\ Len(u) \in Nat
  <2>1. /\ w \in Seq(Nat) /\ Len(u) \in Nat /\ d \in {0, 1} /\ d <= Len(u)
        /\ Len(w) = L + 1 /\ \A k \in 1 .. L : w[k] = u[k + d]
        /\ w[L + 1] = p
    <3>1. /\ Push(u, p) \in Seq(Nat) /\ Len(u) \in Nat /\ Cut(u) \in {0, 1} /\ Cut(u) <= Len(u)
          /\ Len(Push(u, p)) = (Len(u) - Cut(u)) + 1
          /\ \A k \in 1 .. Len(u) - Cut(u) : Push(u, p)[k] = u[k + Cut(u)]
          /\ Push(u, p)[(Len(u) - Cut(u)) + 1] = p
      <4> HIDE DEF d, L, w, t, z
      <4> QED BY <1>1, PushFacts
    <3> QED BY <3>1
  <2>2. L \in Nat
    <3> HIDE DEF d
    <3> QED BY <2>1
  <2> QED BY <2>1, <2>2
<1>4. /\ t \in Seq(Texts) /\ Len(t) = L + 1 /\ t[L + 1] = x
      /\ \A k \in 1 .. L : t[k] = st[k + d]
  <2>1. /\ t \in Seq(Texts) /\ Len(t) = (Len(st) - Cut(st)) + 1
        /\ \A k \in 1 .. Len(st) - Cut(st) : t[k] = st[k + Cut(st)]
        /\ t[(Len(st) - Cut(st)) + 1] = x
    BY <1>1, PushFacts, ZenonT(60)
  <2> HIDE DEF t, d, L
  <2> QED BY <1>2, <2>1
<1>5. /\ z \in Seq(Seq(Transforms)) /\ Len(z) = L + 1 /\ z[L + 1] = r
      /\ \A k \in 1 .. L : z[k] = rs[k + d]
  <2>1. /\ z \in Seq(Seq(Transforms)) /\ Len(z) = (Len(rs) - Cut(rs)) + 1
        /\ \A k \in 1 .. Len(rs) - Cut(rs) : z[k] = rs[k + Cut(rs)]
        /\ z[(Len(rs) - Cut(rs)) + 1] = r
    BY <1>1, PushFacts
  <2> HIDE DEF z, d, L
  <2> QED BY <1>2, <2>1
<1>6. L + d = Len(u) BY <1>3
<1> HIDE DEF d, w, t, z, L
<1>7. \A k \in 1 .. L + 1 : w[k] <= q /\ t[k] = g[w[k]] /\ Downward(z[k], g, w[k], Near(w, k, q), m)
  <2> TAKE k \in 1 .. L + 1
  <2>1. CASE k = L + 1
    <3>1. Near(w, k, q) = q BY <1>3, <2>1 DEF Near
    <3> QED BY <1>3, <1>4, <1>5, <2>1, <3>1
  <2>2. CASE k # L + 1
    <3>1. k \in 1 .. L /\ k + d \in 1 .. Len(u) BY <1>3, <1>6, <2>2
    <3>2. /\ u[k + d] <= p /\ st[k + d] = g[u[k + d]]
          /\ Downward(rs[k + d], g, u[k + d], Near(u, k + d, p), m)
      BY <3>1 DEF Behind
    <3>3. Near(w, k, q) = w[k + 1] BY <1>3, <2>2 DEF Near
    <3>4. Near(u, k + d, p) = w[k + 1]
      <4>1. CASE k = L
        <5>1. k + d = Len(u) BY <1>6, <4>1
        <5> QED BY <1>3, <4>1, <5>1 DEF Near
      <4>2. CASE k # L
        <5>1. k + 1 \in 1 .. L /\ k + d # Len(u) /\ (k + 1) + d = (k + d) + 1
          BY <1>3, <1>6, <3>1, <4>2
        <5> QED BY <1>3, <5>1 DEF Near
      <4> QED BY <4>1, <4>2
    <3>5. u[k + d] \in Nat BY <1>1, <3>1
    <3>6. u[k + d] <= q BY <3>2, <3>5
    <3> QED BY <1>3, <1>4, <1>5, <3>1, <3>2, <3>3, <3>4, <3>6
  <2> QED BY <2>1, <2>2
<1>8. \A k, l \in 1 .. L + 1 : k <= l => w[k] <= w[l]
  <2> TAKE k, l \in 1 .. L + 1
  <2> HAVE k <= l
  <2>1. CASE l = L + 1
    <3>1. CASE k = L + 1 BY <1>3, <2>1, <3>1
    <3>2. CASE k # L + 1
      <4>1. k \in 1 .. L /\ k + d \in 1 .. Len(u) BY <1>3, <1>6, <3>2
      <4>2. u[k + d] <= p BY <4>1 DEF Behind
      <4> QED BY <1>3, <2>1, <4>1, <4>2
    <3> QED BY <3>1, <3>2
  <2>2. CASE l # L + 1
    <3>0. k \in 1 .. L /\ l \in 1 .. L BY <1>3, <2>2
    <3>1. k + d \in 1 .. Len(u) /\ l + d \in 1 .. Len(u) /\ k + d <= l + d
      <4>1. d \in Nat /\ L \in Nat /\ k <= L /\ l <= L /\ k <= l /\ k \in Nat /\ l \in Nat /\ 1 <= k
        BY <1>3, <3>0
      <4> QED BY <1>6, <4>1
    <3>2. u[k + d] <= u[l + d] BY <3>1 DEF Behind
    <3> QED BY <1>3, <3>0, <3>2
  <2> QED BY <2>1, <2>2
<1>9. Behind(t, z, m, g, q, w) BY <1>3, <1>4, <1>5, <1>7, <1>8 DEF Behind
<1> QED BY <1>9 DEF t, z, w

LEMMA PopAhead ==
    ASSUME NEW st, NEW rs, NEW m, NEW g, NEW p \in Nat, NEW v, Ahead(st, rs, m, g, p, v),
           st # <<>>
    PROVE  /\ Ahead(Front(st), Front(rs), m, g, Last(v), Front(v))
           /\ Last(v) \in Nat /\ p <= Last(v) /\ Last(st) = g[Last(v)]
           /\ Last(rs) \in Seq(Transforms) /\ Upward(Last(rs), g, p, Last(v), m)
<1> DEFINE L == Len(v)
<1>1. /\ v \in Seq(Nat) /\ st \in Seq(Texts) /\ rs \in Seq(Seq(Transforms))
      /\ Len(st) = L /\ Len(rs) = L
  BY DEF Ahead
<1>2. v # <<>> /\ rs # <<>> BY <1>1
<1>3. /\ L \in Nat \ {0} /\ Last(v) = v[L] /\ Last(v) \in Nat
      /\ Front(v) \in Seq(Nat) /\ Len(Front(v)) = L - 1
      /\ \A k \in 1 .. L - 1 : Front(v)[k] = v[k]
  BY <1>1, <1>2, PopFacts
<1>4. /\ Last(st) = st[L] /\ Front(st) \in Seq(Texts) /\ Len(Front(st)) = L - 1
      /\ \A k \in 1 .. L - 1 : Front(st)[k] = st[k]
  BY <1>1, PopFacts
<1>5. /\ Last(rs) = rs[L] /\ Last(rs) \in Seq(Transforms)
      /\ Front(rs) \in Seq(Seq(Transforms)) /\ Len(Front(rs)) = L - 1
      /\ \A k \in 1 .. L - 1 : Front(rs)[k] = rs[k]
  BY <1>1, <1>2, PopFacts
<1>6. /\ p <= v[L] /\ st[L] = g[v[L]] /\ Upward(rs[L], g, p, v[L], m)
  BY <1>3 DEF Ahead, Near
<1>7. \A k \in 1 .. L - 1 :
        /\ Last(v) <= Front(v)[k] /\ Front(st)[k] = g[Front(v)[k]]
        /\ Upward(Front(rs)[k], g, Near(Front(v), k, Last(v)), Front(v)[k], m)
  <2> TAKE k \in 1 .. L - 1
  <2>1. k \in 1 .. L /\ L \in 1 .. L /\ k <= L /\ k # L BY <1>3
  <2>2. v[L] <= v[k] /\ st[k] = g[v[k]] /\ Upward(rs[k], g, v[k + 1], v[k], m)
    BY <2>1 DEF Ahead, Near
  <2>3. Near(Front(v), k, Last(v)) = v[k + 1]
    <3>1. CASE k = L - 1 BY <1>3, <3>1 DEF Near
    <3>2. CASE k # L - 1
      <4>1. k + 1 \in 1 .. L - 1 BY <1>3, <3>2
      <4> QED BY <1>3, <3>2, <4>1 DEF Near
    <3> QED BY <3>1, <3>2
  <2> QED BY <1>3, <1>4, <1>5, <2>2, <2>3
<1>8. \A k, l \in 1 .. L - 1 : k <= l => Front(v)[l] <= Front(v)[k]
  <2> TAKE k, l \in 1 .. L - 1
  <2>1. k \in 1 .. L /\ l \in 1 .. L BY <1>3
  <2> QED BY <1>3, <2>1 DEF Ahead
<1>9. Ahead(Front(st), Front(rs), m, g, Last(v), Front(v))
  BY <1>3, <1>4, <1>5, <1>7, <1>8 DEF Ahead
<1> QED BY <1>3, <1>4, <1>5, <1>6, <1>9

LEMMA PushAhead ==
    ASSUME NEW st, NEW rs, NEW m, NEW g, NEW p \in Nat, NEW v, Ahead(st, rs, m, g, p, v),
           NEW q \in Nat, q <= p, NEW x \in Texts, x = g[p],
           NEW r \in Seq(Transforms), Upward(r, g, q, p, m)
    PROVE  Ahead(Push(st, x), Push(rs, r), m, g, q, Push(v, p))
<1> DEFINE d == Cut(v)
           L == Len(v) - d
           w == Push(v, p)
           t == Push(st, x)
           z == Push(rs, r)
<1>1. /\ v \in Seq(Nat) /\ st \in Seq(Texts) /\ rs \in Seq(Seq(Transforms))
      /\ Len(st) = Len(v) /\ Len(rs) = Len(v)
  BY DEF Ahead
<1>2. Cut(st) = d /\ Cut(rs) = d /\ Len(st) - Cut(st) = L /\ Len(rs) - Cut(rs) = L BY <1>1 DEF Cut
<1>3. /\ w \in Seq(Nat) /\ Len(w) = L + 1 /\ w[L + 1] = p
      /\ \A k \in 1 .. L : w[k] = v[k + d]
      /\ d \in {0, 1} /\ L \in Nat /\ Len(v) \in Nat
  <2>1. /\ w \in Seq(Nat) /\ Len(v) \in Nat /\ d \in {0, 1} /\ d <= Len(v)
        /\ Len(w) = L + 1 /\ \A k \in 1 .. L : w[k] = v[k + d]
        /\ w[L + 1] = p
    <3>1. /\ Push(v, p) \in Seq(Nat) /\ Len(v) \in Nat /\ Cut(v) \in {0, 1} /\ Cut(v) <= Len(v)
          /\ Len(Push(v, p)) = (Len(v) - Cut(v)) + 1
          /\ \A k \in 1 .. Len(v) - Cut(v) : Push(v, p)[k] = v[k + Cut(v)]
          /\ Push(v, p)[(Len(v) - Cut(v)) + 1] = p
      <4> HIDE DEF d, L, w, t, z
      <4> QED BY <1>1, PushFacts
    <3> QED BY <3>1
  <2>2. L \in Nat
    <3> HIDE DEF d
    <3> QED BY <2>1
  <2> QED BY <2>1, <2>2
<1>4. /\ t \in Seq(Texts) /\ Len(t) = L + 1 /\ t[L + 1] = x
      /\ \A k \in 1 .. L : t[k] = st[k + d]
  <2>1. /\ t \in Seq(Texts) /\ Len(t) = (Len(st) - Cut(st)) + 1
        /\ \A k \in 1 .. Len(st) - Cut(st) : t[k] = st[k + Cut(st)]
        /\ t[(Len(st) - Cut(st)) + 1] = x
    BY <1>1, PushFacts, ZenonT(60)
  <2> HIDE DEF t, d, L
  <2> QED BY <1>2, <2>1
<1>5. /\ z \in Seq(Seq(Transforms)) /\ Len(z) = L + 1 /\ z[L + 1] = r
      /\ \A k \in 1 .. L : z[k] = rs[k + d]
  <2>1. /\ z \in Seq(Seq(Transforms)) /\ Len(z) = (Len(rs) - Cut(rs)) + 1
        /\ \A k \in 1 .. Len(rs) - Cut(rs) : z[k] = rs[k + Cut(rs)]
        /\ z[(Len(rs) - Cut(rs)) + 1] = r
    BY <1>1, PushFacts
  <2> HIDE DEF z, d, L
  <2> QED BY <1>2, <2>1
<1>6. L + d = Len(v) BY <1>3
<1> HIDE DEF d, w, t, z, L
<1>7. \A k \in 1 .. L + 1 : q <= w[k] /\ t[k] = g[w[k]] /\ Upward(z[k], g, Near(w, k, q), w[k], m)
  <2> TAKE k \in 1 .. L + 1
  <2>1. CASE k = L + 1
    <3>1. Near(w, k, q) = q BY <1>3, <2>1 DEF Near
    <3> QED BY <1>3, <1>4, <1>5, <2>1, <3>1
  <2>2. CASE k # L + 1
    <3>1. k \in 1 .. L /\ k + d \in 1 .. Len(v) BY <1>3, <1>6, <2>2
    <3>2. /\ p <= v[k + d] /\ st[k + d] = g[v[k + d]]
          /\ Upward(rs[k + d], g, Near(v, k + d, p), v[k + d], m)
      BY <3>1 DEF Ahead
    <3>3. Near(w, k, q) = w[k + 1] BY <1>3, <2>2 DEF Near
    <3>4. Near(v, k + d, p) = w[k + 1]
      <4>1. CASE k = L
        <5>1. k + d = Len(v) BY <1>6, <4>1
        <5> QED BY <1>3, <4>1, <5>1 DEF Near
      <4>2. CASE k # L
        <5>1. k + 1 \in 1 .. L /\ k + d # Len(v) /\ (k + 1) + d = (k + d) + 1
          BY <1>3, <1>6, <3>1, <4>2
        <5> QED BY <1>3, <5>1 DEF Near
      <4> QED BY <4>1, <4>2
    <3>5. v[k + d] \in Nat BY <1>1, <3>1
    <3>6. q <= v[k + d] BY <3>2, <3>5
    <3> QED BY <1>3, <1>4, <1>5, <3>1, <3>2, <3>3, <3>4, <3>6
  <2> QED BY <2>1, <2>2
<1>8. \A k, l \in 1 .. L + 1 : k <= l => w[l] <= w[k]
  <2> TAKE k, l \in 1 .. L + 1
  <2> HAVE k <= l
  <2>1. CASE l = L + 1
    <3>1. CASE k = L + 1 BY <1>3, <2>1, <3>1
    <3>2. CASE k # L + 1
      <4>1. k \in 1 .. L /\ k + d \in 1 .. Len(v) BY <1>3, <1>6, <3>2
      <4>2. p <= v[k + d] BY <4>1 DEF Ahead
      <4> QED BY <1>3, <2>1, <4>1, <4>2
    <3> QED BY <3>1, <3>2
  <2>2. CASE l # L + 1
    <3>0. k \in 1 .. L /\ l \in 1 .. L BY <1>3, <2>2
    <3>1. k + d \in 1 .. Len(v) /\ l + d \in 1 .. Len(v) /\ k + d <= l + d
      <4>1. d \in Nat /\ L \in Nat /\ k <= L /\ l <= L /\ k <= l /\ k \in Nat /\ l \in Nat /\ 1 <= k
        BY <1>3, <3>0
      <4> QED BY <1>6, <4>1
    <3>2. v[l + d] <= v[k + d] BY <3>1 DEF Ahead
    <3> QED BY <1>3, <3>0, <3>2
  <2> QED BY <2>1, <2>2
<1>9. Ahead(t, z, m, g, q, w) BY <1>3, <1>4, <1>5, <1>7, <1>8 DEF Ahead
<1> QED BY <1>9 DEF t, z, w

-----------------------------------------------------------------------------
(* What the marker requests and an edit do to the line.                     *)

\* A line of text that is shown at two points is shown between them.
Convex(g) ==
    \A a, b, c \in Nat : a <= b /\ b <= c => Ids(g[a]) \cap Ids(g[c]) \subseteq Ids(g[b])

\* What is toggled is in what is shown: no record would restore it or not.
LEMMA ToggledFits ==
    ASSUME NEW x \in Texts, NEW y \in Texts, NEW z \in Texts, NEW t, NEW m, NEW k,
           Fits(t, x, y, m), m \ Ids(z) = k \ Ids(z), Ids(y) \cap Ids(z) \subseteq Ids(x)
    PROVE  Fits(t, x, y, k)
<1>1. \A l : l \in At(y, m \ Ids(x)) <=> l \in At(y, k \ Ids(x))
  <2> TAKE l
  <2>1. CASE ~(l \in Nat /\ l + 1 \in 1 .. Len(y)) BY <2>1, TextFacts
  <2>2. CASE l \in Nat /\ l + 1 \in 1 .. Len(y)
    <3>1. y[l + 1] \in Ids(y) BY <2>2, TextFacts
    <3>2. y[l + 1] \in m \ Ids(x) <=> y[l + 1] \in k \ Ids(x) BY <3>1
    <3> QED BY <2>2, <3>2, TextFacts
  <2> QED BY <2>1, <2>2
<1>2. At(y, m \ Ids(x)) = At(y, k \ Ids(x)) BY <1>1
<1> QED BY <1>2 DEF Fits

LEMMA ToggledDown ==
    ASSUME NEW g \in [Nat -> Texts], Convex(g), NEW p \in Nat, NEW a \in Nat, NEW b \in Nat, b <= p,
           NEW r \in Seq(Transforms), NEW m, NEW k, m \ Ids(g[p]) = k \ Ids(g[p]), Downward(r, g, a, b, m)
    PROVE  Downward(r, g, a, b, k)
<1>1. b = a + Len(r) /\ Len(r) \in Nat BY DEF Downward
<1>2. \A n \in 1 .. Len(r) : Fits(r[n], g[a + n], g[(a + n) - 1], k)
  <2> TAKE n \in 1 .. Len(r)
  <2>1. Fits(r[n], g[a + n], g[(a + n) - 1], m) BY DEF Downward
  <2>2. a + n \in Nat /\ (a + n) - 1 \in Nat /\ (a + n) - 1 <= a + n /\ a + n <= p BY <1>1
  <2>3. Ids(g[(a + n) - 1]) \cap Ids(g[p]) \subseteq Ids(g[a + n]) BY <2>2 DEF Convex
  <2>4. g[a + n] \in Texts /\ g[(a + n) - 1] \in Texts /\ g[p] \in Texts BY <2>2
  <2> QED BY <2>1, <2>3, <2>4, ToggledFits
<1> QED BY <1>1, <1>2 DEF Downward

LEMMA ToggledUp ==
    ASSUME NEW g \in [Nat -> Texts], Convex(g), NEW p \in Nat, NEW a \in Nat, NEW b \in Nat, p <= a,
           NEW r \in Seq(Transforms), NEW m, NEW k, m \ Ids(g[p]) = k \ Ids(g[p]), Upward(r, g, a, b, m)
    PROVE  Upward(r, g, a, b, k)
<1>1. b = a + Len(r) /\ Len(r) \in Nat BY DEF Upward
<1>2. \A n \in 1 .. Len(r) : Fits(r[n], g[b - n], g[(b - n) + 1], k)
  <2> TAKE n \in 1 .. Len(r)
  <2>1. Fits(r[n], g[b - n], g[(b - n) + 1], m) BY DEF Upward
  <2>2. b - n \in Nat /\ (b - n) + 1 \in Nat /\ p <= b - n /\ b - n <= (b - n) + 1 BY <1>1
  <2>3. Ids(g[(b - n) + 1]) \cap Ids(g[p]) \subseteq Ids(g[b - n]) BY <2>2 DEF Convex
  <2>4. g[b - n] \in Texts /\ g[(b - n) + 1] \in Texts /\ g[p] \in Texts BY <2>2
  <2> QED BY <2>1, <2>3, <2>4, ToggledFits
<1> QED BY <1>1, <1>2 DEF Upward

LEMMA ToggledBehind ==
    ASSUME NEW g \in [Nat -> Texts], Convex(g), NEW p \in Nat, NEW st, NEW rs, NEW u,
           NEW m, NEW k, m \ Ids(g[p]) = k \ Ids(g[p]), Behind(st, rs, m, g, p, u)
    PROVE  Behind(st, rs, k, g, p, u)
<1>1. \A i \in 1 .. Len(u) : Downward(rs[i], g, u[i], Near(u, i, p), k)
  <2> TAKE i \in 1 .. Len(u)
  <2>1. u[i] \in Nat /\ rs[i] \in Seq(Transforms) /\ Downward(rs[i], g, u[i], Near(u, i, p), m)
    BY DEF Behind
  <2>2. Near(u, i, p) \in Nat /\ Near(u, i, p) <= p
    <3>1. CASE i = Len(u) BY <3>1 DEF Near
    <3>2. CASE i # Len(u)
      <4>1. i + 1 \in 1 .. Len(u) BY <3>2 DEF Behind
      <4> QED BY <3>2, <4>1 DEF Near, Behind
    <3> QED BY <3>1, <3>2
  <2> QED BY <2>1, <2>2, ToggledDown
<1> QED BY <1>1 DEF Behind

LEMMA ToggledAhead ==
    ASSUME NEW g \in [Nat -> Texts], Convex(g), NEW p \in Nat, NEW st, NEW rs, NEW v,
           NEW m, NEW k, m \ Ids(g[p]) = k \ Ids(g[p]), Ahead(st, rs, m, g, p, v)
    PROVE  Ahead(st, rs, k, g, p, v)
<1>1. \A i \in 1 .. Len(v) : Upward(rs[i], g, Near(v, i, p), v[i], k)
  <2> TAKE i \in 1 .. Len(v)
  <2>1. v[i] \in Nat /\ rs[i] \in Seq(Transforms) /\ Upward(rs[i], g, Near(v, i, p), v[i], m)
    BY DEF Ahead
  <2>2. Near(v, i, p) \in Nat /\ p <= Near(v, i, p)
    <3>1. CASE i = Len(v) BY <3>1 DEF Near
    <3>2. CASE i # Len(v)
      <4>1. i + 1 \in 1 .. Len(v) BY <3>2 DEF Ahead
      <4> QED BY <3>2, <4>1 DEF Near, Ahead
    <3> QED BY <3>1, <3>2
  <2> QED BY <2>1, <2>2, ToggledUp
<1> QED BY <1>1 DEF Ahead

\* Without markers there are none to restore.
ScrubbedRecord(r) == [j \in DOMAIN r |-> [r[j] EXCEPT !.restore = {}]]

LEMMA ScrubbedFacts ==
    ASSUME NEW rs \in Seq(Seq(Transforms))
    PROVE  /\ Scrubbed(rs) \in Seq(Seq(Transforms)) /\ Len(Scrubbed(rs)) = Len(rs)
           /\ \A i \in 1 .. Len(rs) :
                /\ Scrubbed(rs)[i] = ScrubbedRecord(rs[i])
                /\ Len(Scrubbed(rs)[i]) = Len(rs[i])
                /\ \A j \in 1 .. Len(rs[i]) : Scrubbed(rs)[i][j] = [rs[i][j] EXCEPT !.restore = {}]
<1>1. Scrubbed(rs) = [i \in 1 .. Len(rs) |-> ScrubbedRecord(rs[i])] BY DEF Scrubbed, ScrubbedRecord
<1>2. ASSUME NEW r \in Seq(Transforms)
      PROVE  /\ ScrubbedRecord(r) \in Seq(Transforms) /\ Len(ScrubbedRecord(r)) = Len(r)
             /\ \A j \in 1 .. Len(r) : ScrubbedRecord(r)[j] = [r[j] EXCEPT !.restore = {}]
  <2>1. ScrubbedRecord(r) = [j \in 1 .. Len(r) |-> [r[j] EXCEPT !.restore = {}]] BY DEF ScrubbedRecord
  <2>2. \A j \in 1 .. Len(r) : [r[j] EXCEPT !.restore = {}] \in Transforms
    <3> TAKE j \in 1 .. Len(r)
    <3>1. r[j] \in Transforms OBVIOUS
    <3> QED BY <3>1 DEF Transforms
  <2> QED BY <2>1, <2>2
<1>3. \A i \in 1 .. Len(rs) : rs[i] \in Seq(Transforms) OBVIOUS
<1> QED BY <1>1, <1>2, <1>3

LEMMA ScrubbedFits ==
    ASSUME NEW x \in Texts, NEW y \in Texts, NEW t, NEW m, Fits(t, x, y, m)
    PROVE  Fits([t EXCEPT !.restore = {}], x, y, {})
<1>1. At(y, {} \ Ids(x)) = {} BY TextFacts
<1>2. t \in Transforms BY DEF Fits
<1> DEFINE w == [t EXCEPT !.restore = {}]
<1>3. w \in Transforms /\ w.edit = t.edit /\ w.restore = {} BY <1>2 DEF Transforms
<1> HIDE DEF w
<1>4. Fits(w, x, y, {}) BY <1>1, <1>3 DEF Fits
<1> QED BY <1>4 DEF w

LEMMA ScrubbedBehind ==
    ASSUME NEW g \in [Nat -> Texts], NEW p \in Nat, NEW st, NEW rs, NEW u, NEW m,
           Behind(st, rs, m, g, p, u)
    PROVE  Behind(st, Scrubbed(rs), {}, g, p, u)
<1>1. rs \in Seq(Seq(Transforms)) /\ Len(rs) = Len(u) BY DEF Behind
<1> DEFINE z == Scrubbed(rs)
<1>2. /\ z \in Seq(Seq(Transforms)) /\ Len(z) = Len(rs)
      /\ \A i \in 1 .. Len(rs) :
           /\ Len(z[i]) = Len(rs[i])
           /\ \A j \in 1 .. Len(rs[i]) : z[i][j] = [rs[i][j] EXCEPT !.restore = {}]
  BY <1>1, ScrubbedFacts
<1> HIDE DEF z
<1>3. \A i \in 1 .. Len(u) : Downward(z[i], g, u[i], Near(u, i, p), {})
  <2> TAKE i \in 1 .. Len(u)
  <2>1. Downward(rs[i], g, u[i], Near(u, i, p), m) /\ u[i] \in Nat /\ Len(rs[i]) \in Nat BY <1>1 DEF Behind
  <2>2. ASSUME NEW n \in 1 .. Len(rs[i])
        PROVE  Fits(z[i][n], g[u[i] + n], g[(u[i] + n) - 1], {})
    <3>1. Fits(rs[i][n], g[u[i] + n], g[(u[i] + n) - 1], m) BY <2>1 DEF Downward
    <3>2. g[u[i] + n] \in Texts /\ g[(u[i] + n) - 1] \in Texts
      <4>1. u[i] + n \in Nat /\ (u[i] + n) - 1 \in Nat BY <2>1
      <4> QED BY <4>1
    <3>3. z[i][n] = [rs[i][n] EXCEPT !.restore = {}] BY <1>1, <1>2
    <3> QED BY <3>1, <3>2, <3>3, ScrubbedFits, SMTT(30)
  <2> QED BY <1>1, <1>2, <2>1, <2>2 DEF Downward
<1>4. Behind(st, z, {}, g, p, u) BY <1>1, <1>2, <1>3 DEF Behind
<1> QED BY <1>4 DEF z

LEMMA ScrubbedAhead ==
    ASSUME NEW g \in [Nat -> Texts], NEW p \in Nat, NEW st, NEW rs, NEW v, NEW m,
           Ahead(st, rs, m, g, p, v)
    PROVE  Ahead(st, Scrubbed(rs), {}, g, p, v)
<1>1. rs \in Seq(Seq(Transforms)) /\ Len(rs) = Len(v) BY DEF Ahead
<1> DEFINE z == Scrubbed(rs)
<1>2. /\ z \in Seq(Seq(Transforms)) /\ Len(z) = Len(rs)
      /\ \A i \in 1 .. Len(rs) :
           /\ Len(z[i]) = Len(rs[i])
           /\ \A j \in 1 .. Len(rs[i]) : z[i][j] = [rs[i][j] EXCEPT !.restore = {}]
  BY <1>1, ScrubbedFacts
<1> HIDE DEF z
<1>3. \A i \in 1 .. Len(v) : Upward(z[i], g, Near(v, i, p), v[i], {})
  <2> TAKE i \in 1 .. Len(v)
  <2>1. Upward(rs[i], g, Near(v, i, p), v[i], m) /\ v[i] \in Nat /\ Len(rs[i]) \in Nat BY <1>1 DEF Ahead
  <2>0. Near(v, i, p) \in Nat
    <3>1. CASE i = Len(v) BY <3>1 DEF Near
    <3>2. CASE i # Len(v)
      <4>1. i + 1 \in 1 .. Len(v) BY <3>2 DEF Ahead
      <4> QED BY <3>2, <4>1 DEF Near, Ahead
    <3> QED BY <3>1, <3>2
  <2>2. ASSUME NEW n \in 1 .. Len(rs[i])
        PROVE  Fits(z[i][n], g[v[i] - n], g[(v[i] - n) + 1], {})
    <3>1. Fits(rs[i][n], g[v[i] - n], g[(v[i] - n) + 1], m) BY <2>1 DEF Upward
    <3>2. g[v[i] - n] \in Texts /\ g[(v[i] - n) + 1] \in Texts
      <4>1. v[i] = Near(v, i, p) + Len(rs[i]) BY <2>1 DEF Upward
      <4>2. v[i] - n \in Nat /\ (v[i] - n) + 1 \in Nat BY <2>0, <2>1, <4>1, SMTT(30)
      <4> QED BY <4>2
    <3>3. z[i][n] = [rs[i][n] EXCEPT !.restore = {}] BY <1>1, <1>2
    <3> QED BY <3>1, <3>2, <3>3, ScrubbedFits
  <2> QED BY <1>1, <1>2, <2>1, <2>2 DEF Upward
<1>4. Ahead(st, z, {}, g, p, v) BY <1>1, <1>2, <1>3 DEF Ahead
<1> QED BY <1>4 DEF z

\* What is behind does not know what the line goes on with.
LEMMA ExtendedBehind ==
    ASSUME NEW g, NEW h, NEW p \in Nat, \A i \in 0 .. p : h[i] = g[i],
           NEW st, NEW rs, NEW u, NEW m, Behind(st, rs, m, g, p, u)
    PROVE  Behind(st, rs, m, h, p, u)
<1>1. u \in Seq(Nat) /\ rs \in Seq(Seq(Transforms)) /\ Len(rs) = Len(u) BY DEF Behind
<1>2. \A k \in 1 .. Len(u) : u[k] \in 0 .. p BY <1>1 DEF Behind
<1>3. \A k \in 1 .. Len(u) : st[k] = h[u[k]] BY <1>2 DEF Behind
<1>4. \A k \in 1 .. Len(u) : Downward(rs[k], h, u[k], Near(u, k, p), m)
  <2> TAKE k \in 1 .. Len(u)
  <2>1. Downward(rs[k], g, u[k], Near(u, k, p), m) /\ Len(rs[k]) \in Nat BY <1>1 DEF Behind
  <2>2. Near(u, k, p) \in 0 .. p
    <3>1. CASE k = Len(u) BY <3>1 DEF Near
    <3>2. CASE k # Len(u)
      <4>1. k + 1 \in 1 .. Len(u) BY <1>1, <3>2
      <4> QED BY <1>2, <3>2, <4>1 DEF Near
    <3> QED BY <3>1, <3>2
  <2>3. \A n \in 1 .. Len(rs[k]) : Fits(rs[k][n], h[u[k] + n], h[(u[k] + n) - 1], m)
    <3> TAKE n \in 1 .. Len(rs[k])
    <3>1. Near(u, k, p) = u[k] + Len(rs[k]) BY <2>1 DEF Downward
    <3>2. u[k] + n \in 0 .. p /\ (u[k] + n) - 1 \in 0 .. p BY <1>2, <2>1, <2>2, <3>1
    <3>3. Fits(rs[k][n], g[u[k] + n], g[(u[k] + n) - 1], m) BY <2>1 DEF Downward
    <3> QED BY <3>2, <3>3
  <2> QED BY <2>1, <2>3 DEF Downward
<1> QED BY <1>3, <1>4 DEF Behind

\* y is x with the lines after the first ones, up to d, replaced.
Renewed(x, keep, d, mid, y) ==
    /\ y \in Seq(Nat) /\ Len(y) = keep + Len(mid) + (Len(x) - d)
    /\ \A i \in 1 .. keep : y[i] = x[i]
    /\ \A i \in 1 .. Len(mid) : y[keep + i] = mid[i]
    /\ \A i \in 1 .. Len(x) - d : y[keep + Len(mid) + i] = x[d + i]

LEMMA Middle ==
    ASSUME NEW x \in Seq(Nat), NEW keep \in Nat, NEW d \in Nat, keep <= d, d <= Len(x),
           NEW b, b = d + 1, NEW mid \in Seq(Nat)
    PROVE  Renewed(x, keep, d, mid, SubSeq(x, 1, keep) \o mid \o SubSeq(x, b, Len(x)))
<1> DEFINE front == SubSeq(x, 1, keep)
           rest == SubSeq(x, b, Len(x))
<1>1. Len(x) \in Nat /\ Len(mid) \in Nat OBVIOUS
<1>2. front \in Seq(Nat) /\ Len(front) = keep /\ \A i \in 1 .. keep : front[i] = x[i]
  <2>1. 1 \in Int /\ keep \in Int /\ \A i \in 1 .. keep : x[i] \in Nat BY <1>1
  <2>2. /\ front \in Seq(Nat) /\ Len(front) = IF 1 <= keep THEN keep - 1 + 1 ELSE 0
        /\ \A i \in 1 .. keep - 1 + 1 : front[i] = x[1 + i - 1]
    BY <2>1, SubSeqProperties
  <2>3. Len(front) = keep BY <2>2
  <2>4. \A i \in 1 .. keep : front[i] = x[i]
    <3> TAKE i \in 1 .. keep
    <3>1. i \in 1 .. keep - 1 + 1 /\ 1 + i - 1 = i OBVIOUS
    <3> QED BY <2>2, <3>1
  <2> QED BY <2>2, <2>3, <2>4
<1>3. rest \in Seq(Nat) /\ Len(rest) = Len(x) - d /\ \A i \in 1 .. Len(x) - d : rest[i] = x[d + i]
  <2> DEFINE n == Len(x)
  <2>1. b \in Int /\ n \in Int /\ \A i \in b .. n : x[i] \in Nat BY <1>1
  <2>2. rest = SubSeq(x, b, n) OBVIOUS
  <2> HIDE DEF n, rest
  <2>3. /\ SubSeq(x, b, n) \in Seq(Nat) /\ Len(SubSeq(x, b, n)) = IF b <= n THEN n - b + 1 ELSE 0
        /\ \A i \in 1 .. n - b + 1 : SubSeq(x, b, n)[i] = x[b + i - 1]
    BY <2>1, SubSeqProperties
  <2>4. Len(rest) = Len(x) - d BY <1>1, <2>2, <2>3 DEF n
  <2>5. \A i \in 1 .. Len(x) - d : rest[i] = x[d + i]
    <3> TAKE i \in 1 .. Len(x) - d
    <3>1. i \in 1 .. n - b + 1 /\ b + i - 1 = d + i BY <1>1 DEF n
    <3> QED BY <2>2, <2>3, <3>1
  <2> QED BY <2>2, <2>3, <2>4, <2>5
<1> HIDE DEF front, rest
<1> DEFINE w == front \o mid
<1>4. /\ w \in Seq(Nat) /\ Len(w) = keep + Len(mid)
      /\ \A i \in 1 .. keep : w[i] = x[i]
      /\ \A i \in 1 .. Len(mid) : w[keep + i] = mid[i]
  <2>1. /\ front \o mid \in Seq(Nat) /\ Len(front \o mid) = Len(front) + Len(mid)
        /\ \A i \in 1 .. Len(front) + Len(mid) :
              (front \o mid)[i] = IF i <= Len(front) THEN front[i] ELSE mid[i - Len(front)]
    BY <1>2, ConcatProperties
  <2>2. \A i \in 1 .. keep + Len(mid) : w[i] = IF i <= keep THEN front[i] ELSE mid[i - keep]
    BY <1>2, <2>1
  <2>3. w \in Seq(Nat) /\ Len(w) = keep + Len(mid) BY <1>2, <2>1
  <2> HIDE DEF w
  <2>4. \A i \in 1 .. keep : w[i] = x[i]
    <3> TAKE i \in 1 .. keep
    <3>1. i \in 1 .. keep + Len(mid) /\ i <= keep BY <1>1
    <3> QED BY <1>2, <2>2, <3>1
  <2>5. \A i \in 1 .. Len(mid) : w[keep + i] = mid[i]
    <3> TAKE i \in 1 .. Len(mid)
    <3>1. keep + i \in 1 .. keep + Len(mid) /\ ~(keep + i <= keep) /\ (keep + i) - keep = i BY <1>1
    <3>2. w[keep + i] = mid[(keep + i) - keep] BY <2>2, <3>1
    <3> QED BY <3>1, <3>2
  <2> QED BY <2>3, <2>4, <2>5
<1> HIDE DEF w
<1> DEFINE y == w \o rest
<1>5. /\ y \in Seq(Nat) /\ Len(y) = Len(w) + Len(rest)
      /\ \A i \in 1 .. Len(w) : y[i] = w[i]
      /\ \A i \in 1 .. Len(rest) : y[Len(w) + i] = rest[i]
  <2>1. /\ w \o rest \in Seq(Nat) /\ Len(w \o rest) = Len(w) + Len(rest)
        /\ \A i \in 1 .. Len(w) + Len(rest) :
              (w \o rest)[i] = IF i <= Len(w) THEN w[i] ELSE rest[i - Len(w)]
    <3>1. w \in Seq(Nat) /\ rest \in Seq(Nat) BY <1>3, <1>4
    <3> HIDE DEF y
    <3> QED BY <3>1, ConcatProperties
  <2>2. Len(w) \in Nat /\ Len(rest) \in Nat BY <1>3, <1>4
  <2> HIDE DEF y
  <2>3. \A i \in 1 .. Len(w) + Len(rest) : y[i] = IF i <= Len(w) THEN w[i] ELSE rest[i - Len(w)]
    BY <2>1 DEF y
  <2>4. \A i \in 1 .. Len(w) : y[i] = w[i]
    <3> TAKE i \in 1 .. Len(w)
    <3>1. i \in 1 .. Len(w) + Len(rest) /\ i <= Len(w) BY <2>2
    <3> QED BY <2>3, <3>1
  <2>5. \A i \in 1 .. Len(rest) : y[Len(w) + i] = rest[i]
    <3> TAKE i \in 1 .. Len(rest)
    <3>1. /\ Len(w) + i \in 1 .. Len(w) + Len(rest) /\ ~(Len(w) + i <= Len(w))
          /\ (Len(w) + i) - Len(w) = i
      BY <2>2
    <3>2. y[Len(w) + i] = rest[(Len(w) + i) - Len(w)] BY <2>3, <3>1
    <3> QED BY <3>1, <3>2
  <2> QED BY <2>1, <2>4, <2>5 DEF y
<1> HIDE DEF y
<1>6. \A i \in 1 .. keep : y[i] = x[i]
  <2> TAKE i \in 1 .. keep
  <2>1. i \in 1 .. Len(w) BY <1>1, <1>4
  <2> QED BY <1>4, <1>5, <2>1
<1>7. \A i \in 1 .. Len(mid) : y[keep + i] = mid[i]
  <2> TAKE i \in 1 .. Len(mid)
  <2>1. keep + i \in 1 .. Len(w) BY <1>1, <1>4
  <2> QED BY <1>4, <1>5, <2>1
<1>8. \A i \in 1 .. Len(x) - d : y[keep + Len(mid) + i] = x[d + i] BY <1>3, <1>4, <1>5
<1>9. y = SubSeq(x, 1, keep) \o mid \o SubSeq(x, b, Len(x)) BY DEF y, w, front, rest
<1>10. Renewed(x, keep, d, mid, y) BY <1>3, <1>4, <1>5, <1>6, <1>7, <1>8 DEF Renewed
<1> QED BY <1>9, <1>10

\* Respelling splices: the first line stays, the others are new.
LEMMA RespeltSplices ==
    ASSUME NEW x \in Texts, NEW f \in Nat, \A n \in Ids(x) : n < f,
           NEW e \in Edits, e.new > 0, e.start + e.old <= Len(x),
           NEW at, at.text = x, at.fresh = f
    PROVE  LET now == Respelt(at, e) IN
           /\ now.text \in Texts /\ Spliced(x, e, now.text) /\ e.start < Len(now.text)
           /\ now.fresh \in Nat /\ f <= now.fresh
           /\ \A n \in Ids(now.text) : n < now.fresh /\ (n < f => n \in Ids(x))
<1> DEFINE keep == e.start + Kept(e)
           more == e.new - Kept(e)
           d == e.start + e.old
           mid == [i \in 1 .. more |-> f + i - 1]
           y == SubSeq(x, 1, keep) \o mid \o SubSeq(x, d + 1, Len(x))
<1>1. /\ e.start \in Nat /\ e.old \in Nat /\ e.new \in Nat /\ Kept(e) \in {0, 1}
      /\ Kept(e) <= e.old /\ Kept(e) <= e.new /\ Kept(e) = IF e.old > 0 THEN 1 ELSE 0
  BY BackFacts
<1>0. Len(x) \in Nat /\ x \in Seq(Nat) BY TextFacts
<1>2. /\ \A i \in 1 .. Len(x) : x[i] \in Nat
      /\ \A n : n \in Ids(x) <=> \E i \in 1 .. Len(x) : x[i] = n
  BY TextFacts
<1>17. \A i, j \in 1 .. Len(x) : x[i] = x[j] => i = j BY TextFacts
<1>3. Respelt(at, e) = [text |-> y, fresh |-> f + more]
  <2>1. e.start + (IF e.old > 0 THEN 1 ELSE 0) = keep BY <1>1
  <2>2. (IF e.old > 0 THEN e.new - 1 ELSE e.new) = more BY <1>1
  <2>3. Len(at.text) = Len(x) OBVIOUS
  <2> HIDE DEF keep, more
  <2> QED BY <2>1, <2>2, <2>3 DEF Respelt
<1>4. /\ keep \in Nat /\ more \in Nat /\ d \in Nat /\ keep <= d /\ d <= Len(x)
      /\ keep + more = e.start + e.new /\ d = e.start + e.old
  BY <1>1
<1> HIDE DEF keep, more, d
<1>5. mid \in Seq(Nat) /\ Len(mid) = more /\ \A i \in 1 .. more : mid[i] = f + i - 1 BY <1>4
<1> HIDE DEF mid
<1>6. /\ y \in Seq(Nat) /\ Len(y) = keep + more + (Len(x) - d)
      /\ \A i \in 1 .. keep : y[i] = x[i]
      /\ \A i \in 1 .. more : y[keep + i] = mid[i]
      /\ \A i \in 1 .. Len(x) - d : y[keep + more + i] = x[d + i]
  <2>1. Len(mid) = more BY <1>5
  <2>2. /\ y \in Seq(Nat) /\ Len(y) = keep + Len(mid) + (Len(x) - d)
        /\ \A i \in 1 .. keep : y[i] = x[i]
        /\ \A i \in 1 .. Len(mid) : y[keep + i] = mid[i]
        /\ \A i \in 1 .. Len(x) - d : y[keep + Len(mid) + i] = x[d + i]
    <3>1. /\ x \in Seq(Nat) /\ keep \in Nat /\ d \in Nat /\ keep <= d /\ d <= Len(x)
          /\ mid \in Seq(Nat)
      BY <1>0, <1>4, <1>5
    <3> DEFINE b == d + 1
    <3>2. Renewed(x, keep, d, mid, SubSeq(x, 1, keep) \o mid \o SubSeq(x, b, Len(x)))
      <4>1. b = d + 1 OBVIOUS
      <4> HIDE DEF y, b
      <4> QED BY <3>1, <4>1, Middle
    <3> QED BY <3>2 DEF Renewed
  <2> HIDE DEF y
  <2> QED BY <2>1, <2>2
<1> HIDE DEF y
\* where a line of y comes from
<1>7. ASSUME NEW i \in 1 .. Len(y)
      PROVE  \/ i <= keep /\ i \in 1 .. Len(x) /\ y[i] = x[i]
             \/ keep < i /\ i <= keep + more /\ y[i] = f + (i - keep) - 1
             \/ /\ keep + more < i /\ (i + d) - (keep + more) \in 1 .. Len(x)
                /\ d < (i + d) - (keep + more)
                /\ y[i] = x[(i + d) - (keep + more)]
  <2>0. Len(y) \in Nat BY <1>6
  <2>1. CASE i <= keep
    <3>1. i \in 1 .. keep /\ i \in 1 .. Len(x)
      <4>1. i \in Nat /\ 1 <= i /\ keep \in Nat /\ d \in Nat /\ Len(x) \in Nat /\ i <= keep
            /\ keep <= d /\ d <= Len(x)
        BY <1>0, <1>4, <2>0, <2>1
      <4> QED BY <4>1
    <3>2. y[i] = x[i] BY <1>6, <3>1
    <3> QED BY <2>1, <3>1, <3>2
  <2>2. CASE keep < i /\ i <= keep + more
    <3>1. i - keep \in 1 .. more /\ keep + (i - keep) = i BY <1>4, <2>2
    <3>2. y[i] = mid[i - keep] BY <1>6, <3>1
    <3>3. mid[i - keep] = f + (i - keep) - 1 BY <1>5, <3>1
    <3> QED BY <2>2, <3>2, <3>3
  <2>3. CASE keep + more < i
    <3> DEFINE j == i - (keep + more)
    <3>1. j \in 1 .. Len(x) - d /\ keep + more + j = i /\ d + j = (i + d) - (keep + more)
      BY <1>0, <1>4, <1>6, <2>0, <2>3
    <3> HIDE DEF j
    <3>2. y[i] = x[d + j] BY <1>6, <3>1
    <3>3. d + j \in 1 .. Len(x) /\ d < d + j
      <4>1. d \in Nat /\ Len(x) \in Nat /\ d <= Len(x) /\ j \in Nat /\ 1 <= j /\ j <= Len(x) - d
        BY <1>0, <1>4, <3>1
      <4> QED BY <4>1
    <3> QED BY <2>3, <3>1, <3>2, <3>3
  <2> QED BY <1>4, <2>1, <2>2, <2>3
<1>8. \A i \in 1 .. Len(x) : x[i] < f BY <1>2
<1>9. ASSUME NEW i \in 1 .. Len(y), NEW j \in 1 .. Len(y), y[i] = y[j] PROVE i = j
  <2> DEFINE pi == (i + d) - (keep + more)
             pj == (j + d) - (keep + more)
  <2>1. \/ i <= keep /\ i \in 1 .. Len(x) /\ y[i] = x[i]
        \/ keep < i /\ i <= keep + more /\ y[i] = f + (i - keep) - 1
        \/ keep + more < i /\ pi \in 1 .. Len(x) /\ d < pi /\ y[i] = x[pi]
    BY <1>7
  <2>2. \/ j <= keep /\ j \in 1 .. Len(x) /\ y[j] = x[j]
        \/ keep < j /\ j <= keep + more /\ y[j] = f + (j - keep) - 1
        \/ keep + more < j /\ pj \in 1 .. Len(x) /\ d < pj /\ y[j] = x[pj]
    BY <1>7
  <2>3. pi = pj => i = j BY <1>4
  <2>4. ASSUME keep < i, i <= keep + more PROVE f + (i - keep) - 1 >= f BY <1>4, <2>4
  <2>5. ASSUME keep < j, j <= keep + more PROVE f + (j - keep) - 1 >= f BY <1>4, <2>5
  <2>6. \A k \in 1 .. Len(x) : x[k] \in Nat /\ x[k] < f BY <1>2, <1>8
  <2> HIDE DEF pi, pj
  <2>7. CASE i <= keep /\ i \in 1 .. Len(x) /\ y[i] = x[i]
    <3>1. CASE j <= keep /\ j \in 1 .. Len(x) /\ y[j] = x[j] BY <1>9, <1>17, <2>7, <3>1
    <3>2. CASE keep < j /\ j <= keep + more /\ y[j] = f + (j - keep) - 1
      <4>1. x[i] < f /\ x[i] >= f /\ x[i] \in Nat BY <1>9, <2>5, <2>6, <2>7, <3>2
      <4> QED BY <4>1
    <3>3. CASE keep + more < j /\ pj \in 1 .. Len(x) /\ d < pj /\ y[j] = x[pj]
      <4>1. i = pj BY <1>17, <1>9, <2>7, <3>3
      <4> QED BY <1>4, <2>7, <3>3, <4>1
    <3> QED BY <2>2, <3>1, <3>2, <3>3
  <2>8. CASE keep < i /\ i <= keep + more /\ y[i] = f + (i - keep) - 1
    <3>1. CASE j <= keep /\ j \in 1 .. Len(x) /\ y[j] = x[j]
      <4>1. x[j] < f /\ x[j] >= f /\ x[j] \in Nat BY <1>9, <2>4, <2>6, <2>8, <3>1
      <4> QED BY <4>1
    <3>2. CASE keep < j /\ j <= keep + more /\ y[j] = f + (j - keep) - 1
      <4>1. f + (i - keep) - 1 = f + (j - keep) - 1 BY <1>9, <2>8, <3>2
      <4> QED BY <1>4, <4>1
    <3>3. CASE keep + more < j /\ pj \in 1 .. Len(x) /\ d < pj /\ y[j] = x[pj]
      <4>1. x[pj] < f /\ x[pj] >= f /\ x[pj] \in Nat BY <1>9, <2>4, <2>6, <2>8, <3>3
      <4> QED BY <4>1
    <3> QED BY <2>2, <3>1, <3>2, <3>3
  <2>9. CASE keep + more < i /\ pi \in 1 .. Len(x) /\ d < pi /\ y[i] = x[pi]
    <3>1. CASE j <= keep /\ j \in 1 .. Len(x) /\ y[j] = x[j]
      <4>1. j = pi BY <1>17, <1>9, <2>9, <3>1
      <4> QED BY <1>4, <2>9, <3>1, <4>1
    <3>2. CASE keep < j /\ j <= keep + more /\ y[j] = f + (j - keep) - 1
      <4>1. x[pi] < f /\ x[pi] >= f /\ x[pi] \in Nat BY <1>9, <2>5, <2>6, <2>9, <3>2
      <4> QED BY <4>1
    <3>3. CASE keep + more < j /\ pj \in 1 .. Len(x) /\ d < pj /\ y[j] = x[pj]
      <4>1. pi = pj BY <1>17, <1>9, <2>9, <3>3
      <4> QED BY <2>3, <4>1
    <3> QED BY <2>2, <3>1, <3>2, <3>3
  <2> QED BY <2>1, <2>7, <2>8, <2>9
<1>10. y \in Texts
  <2>1. DOMAIN y = 1 .. Len(y) BY <1>6
  <2> QED BY <1>6, <1>9, <2>1 DEF Texts
<1>11. \A n : n \in Ids(y) <=> \E i \in 1 .. Len(y) : y[i] = n BY <1>10, TextFacts
<1>12. \A n \in Ids(y) : (n \in Ids(x) /\ n < f) \/ (f <= n /\ n < f + more)
  <2> TAKE n \in Ids(y)
  <2>1. PICK i \in 1 .. Len(y) : y[i] = n BY <1>11
  <2>2. CASE \E j \in 1 .. Len(x) : y[i] = x[j]
    <3>1. PICK j \in 1 .. Len(x) : n = x[j] BY <2>1, <2>2
    <3>2. n < f /\ n \in Ids(x) BY <1>2, <1>8, <3>1
    <3> QED BY <3>2
  <2>3. CASE keep < i /\ i <= keep + more /\ y[i] = f + (i - keep) - 1 BY <1>4, <2>1, <2>3
  <2> QED BY <1>7, <2>2, <2>3
<1>13. Spliced(x, e, y)
  <2>1. e.start + e.old <= Len(x) /\ Len(y) + e.old = Len(x) + e.new
    <3>1. /\ e.start \in Nat /\ e.old \in Nat /\ e.new \in Nat /\ Len(x) \in Nat
          /\ keep \in Nat /\ more \in Nat /\ keep + more = e.start + e.new /\ d = e.start + e.old
          /\ d <= Len(x) /\ Len(y) = keep + more + (Len(x) - d)
      BY <1>0, <1>1, <1>4, <1>6
    <3> DEFINE s == e.start  o == e.old  n == e.new  lx == Len(x)  ly == Len(y)
    <3>2. /\ s \in Nat /\ o \in Nat /\ n \in Nat /\ lx \in Nat
          /\ s + o <= lx /\ ly = (s + n) + (lx - (s + o))
      BY <3>1
    <3> HIDE DEF s, o, n, lx, ly
    <3>3. ly + o = lx + n BY <3>2
    <3> QED BY <3>2, <3>3 DEF s, o, n, lx, ly
  <2>2. \A i \in 1 .. e.start + Kept(e) : y[i] = x[i] BY <1>6 DEF keep
  <2>3. \A i \in 1 .. Len(x) : i > e.start + e.old => y[(i + e.new) - e.old] = x[i]
    <3> TAKE i \in 1 .. Len(x)
    <3> HAVE i > e.start + e.old
    <3> DEFINE j == i - d
    <3>1. j \in 1 .. Len(x) - d /\ d + j = i /\ keep + more + j = (i + e.new) - e.old
      <4>1. /\ e.start \in Nat /\ e.old \in Nat /\ e.new \in Nat /\ Len(x) \in Nat
            /\ keep \in Nat /\ more \in Nat /\ keep + more = e.start + e.new /\ d = e.start + e.old
            /\ d <= Len(x) /\ d \in Nat /\ i \in Nat /\ i <= Len(x) /\ d < i
        BY <1>0, <1>1, <1>4
      <4>2. j \in 1 .. Len(x) - d /\ d + j = i BY <4>1, SMTT(30)
      <4>3. keep + more + (i - d) = (e.start + e.new) + (i - (e.start + e.old)) BY <4>1
      <4>4. (e.start + e.new) + (i - (e.start + e.old)) = (i + e.new) - e.old BY <4>1, SMTT(30)
      <4> QED BY <4>2, <4>3, <4>4
    <3> HIDE DEF j
    <3> QED BY <1>6, <3>1
  <2>4. \A i \in 1 .. Len(x) : e.start + Kept(e) < i /\ i <= e.start + e.old => x[i] \notin Ids(y)
    <3> TAKE i \in 1 .. Len(x)
    <3> HAVE e.start + Kept(e) < i /\ i <= e.start + e.old
    <3>1. keep < i /\ i <= d BY <1>4 DEF keep
    <3>2. SUFFICES ASSUME x[i] \in Ids(y) PROVE FALSE OBVIOUS
    <3>3. PICK k \in 1 .. Len(y) : y[k] = x[i] BY <1>11, <3>2
    <3>4. x[i] < f /\ x[i] \in Nat BY <1>2, <1>8
    <3>5. CASE k <= keep /\ k \in 1 .. Len(x) /\ y[k] = x[k]
      <4>1. k = i BY <1>17, <3>3, <3>5
      <4> QED BY <1>4, <3>1, <3>5, <4>1
    <3>6. CASE keep < k /\ k <= keep + more /\ y[k] = f + (k - keep) - 1
      <4>1. f + (k - keep) - 1 >= f BY <1>4, <3>6
      <4> QED BY <3>3, <3>4, <3>6, <4>1
    <3>7. CASE /\ keep + more < k /\ (k + d) - (keep + more) \in 1 .. Len(x)
               /\ d < (k + d) - (keep + more)
               /\ y[k] = x[(k + d) - (keep + more)]
      <4>1. (k + d) - (keep + more) = i BY <1>17, <3>3, <3>7
      <4> QED BY <1>4, <3>1, <3>7, <4>1
    <3> QED BY <1>7, <3>5, <3>6, <3>7
  <2>5. \A i \in 1 .. Len(y) : e.start + Kept(e) < i /\ i <= e.start + e.new => y[i] \notin Ids(x)
    <3> TAKE i \in 1 .. Len(y)
    <3> HAVE e.start + Kept(e) < i /\ i <= e.start + e.new
    <3>1. keep < i /\ i <= keep + more BY <1>4 DEF keep
    <3>2. y[i] = f + (i - keep) - 1 BY <1>4, <1>7, <3>1
    <3>3. f + (i - keep) - 1 >= f BY <1>4, <3>1
    <3>4. \A n \in Ids(x) : n \in Nat /\ n < f BY <1>2
    <3> QED BY <3>2, <3>3, <3>4
  <2> QED BY <2>1, <2>2, <2>3, <2>4, <2>5 DEF Spliced
<1>14. e.start < Len(y) BY <1>0, <1>1, <1>4, <1>6, SMTT(30)
<1>15. f + more \in Nat /\ f <= f + more BY <1>4
<1>16. \A n \in Ids(y) : n < f + more /\ (n < f => n \in Ids(x))
  <2> TAKE n \in Ids(y)
  <2>1. n \in Nat BY <1>6, <1>11
  <2> QED BY <1>4, <1>12, <2>1
<1> QED BY <1>3, <1>10, <1>13, <1>14, <1>15, <1>16

LEMMA RangeFacts ==
    ASSUME NEW ranges \in Batches
    PROVE  /\ Len(ranges) \in Nat /\ DOMAIN ranges = 1 .. Len(ranges)
           /\ \A i \in 1 .. Len(ranges) :
                /\ ranges[i].l0 \in Nat /\ ranges[i].l1 \in Nat /\ ranges[i].new \in Nat \ {0}
                /\ ranges[i].l0 <= ranges[i].l1
<1> DEFINE R == {r \in [l0 : Nat, l1 : Nat, new : Nat \ {0}] : r.l0 <= r.l1}
<1>1. ranges \in Seq(R) BY BatchesAssumption
<1>2. \A r \in R : r.l0 \in Nat /\ r.l1 \in Nat /\ r.new \in Nat \ {0} /\ r.l0 <= r.l1 OBVIOUS
<1> HIDE DEF R
<1>3. \A i \in 1 .. Len(ranges) : ranges[i] \in R BY <1>1
<1>4. Len(ranges) \in Nat /\ DOMAIN ranges = 1 .. Len(ranges) BY <1>1
<1> QED BY <1>2, <1>3, <1>4

LEMMA LineEditsFacts ==
    ASSUME NEW ranges \in Batches
    PROVE  LET e == LineEdits(ranges)
               L == Len(ranges) IN
           /\ e \in Seq(Edits) /\ Len(e) = L
           /\ \A i \in 1 .. L :
                /\ e[i].start = ranges[L + 1 - i].l0 /\ e[i].new = ranges[L + 1 - i].new
                /\ e[i].old = IF Total = 0 /\ i = 1 THEN 0
                              ELSE ranges[L + 1 - i].l1 + 1 - ranges[L + 1 - i].l0
<1> DEFINE L == Len(ranges)
           r(i) == ranges[L + 1 - i]
           old(i) == IF Total = 0 /\ i = 1 THEN 0 ELSE r(i).l1 + 1 - r(i).l0
           e == LineEdits(ranges)
<1>1. L \in Nat BY RangeFacts
<1>2. \A i \in 1 .. L : /\ r(i).l0 \in Nat /\ r(i).l1 \in Nat /\ r(i).new \in Nat \ {0}
                        /\ r(i).l0 <= r(i).l1
  <2> TAKE i \in 1 .. L
  <2>1. L + 1 - i \in 1 .. L BY <1>1
  <2> QED BY <2>1, RangeFacts
<1>3. \A i \in 1 .. L : old(i) \in Nat
  <2> TAKE i \in 1 .. L
  <2>1. r(i).l0 \in Nat /\ r(i).l1 \in Nat /\ r(i).l0 <= r(i).l1 BY <1>2
  <2> HIDE DEF r
  <2> QED BY <2>1
<1>4. e = [i \in 1 .. L |-> [start |-> r(i).l0, old |-> old(i), new |-> r(i).new]]
  BY DEF LineEdits, Replacement
<1> HIDE DEF e, r, old, L
<1>5. \A i \in 1 .. L : [start |-> r(i).l0, old |-> old(i), new |-> r(i).new] \in Edits
  BY <1>2, <1>3 DEF Edits
<1>6. e \in Seq(Edits) /\ Len(e) = L BY <1>1, <1>4, <1>5
<1>7. \A i \in 1 .. L : e[i].start = r(i).l0 /\ e[i].new = r(i).new /\ e[i].old = old(i) BY <1>4
<1> QED BY <1>6, <1>7 DEF e, r, old, L

LEMMA RespellingsSteps ==
    ASSUME NEW edits \in Seq(Edits)
    PROVE  /\ Respellings(edits)[0] = [text |-> text, fresh |-> fresh]
           /\ \A n \in 1 .. Len(edits) :
                Respellings(edits)[n] = Respelt(Respellings(edits)[n - 1], edits[n])
<1> DEFINE L == Len(edits)
           base == [text |-> text, fresh |-> fresh]
           Walks(g, n) == g = [m \in 0 .. n |-> IF m = 0 THEN base ELSE Respelt(g[m - 1], edits[m])]
           Q == {n \in 0 .. L : \E g : Walks(g, n)}
<1>1. L \in Nat OBVIOUS
<1>2. \E g : Walks(g, 0)
  <2> HIDE DEF base
  <2> DEFINE g == [m \in 0 .. 0 |-> base]
  <2>1. \A m \in 0 .. 0 : m = 0 OBVIOUS
  <2>2. Walks(g, 0) BY <2>1
  <2> QED BY <2>2
<1>3. ASSUME NEW n \in 1 .. L, \E g : Walks(g, n - 1) PROVE \E g : Walks(g, n)
  <2>1. PICK g : Walks(g, n - 1) BY <1>3
  <2> DEFINE h == [m \in 0 .. n |-> IF m = n THEN Respelt(g[n - 1], edits[n]) ELSE g[m]]
  <2>2. \A m \in 0 .. n : m # 0 => h[m - 1] = g[m - 1] OBVIOUS
  <2>3. \A m \in 0 .. n : h[m] = IF m = 0 THEN base ELSE Respelt(h[m - 1], edits[m])
    <3> TAKE m \in 0 .. n
    <3>1. CASE m = n BY <2>2, <3>1
    <3>2. CASE m # n
      <4>1. h[m] = g[m] /\ m \in 0 .. (n - 1) BY <3>2
      <4>2. g[m] = IF m = 0 THEN base ELSE Respelt(g[m - 1], edits[m]) BY <2>1, <4>1
      <4> QED BY <2>2, <4>1, <4>2
    <3> QED BY <3>1, <3>2
  <2>4. h = [m \in 0 .. n |-> h[m]] OBVIOUS
  <2> HIDE DEF base, h
  <2>5. Walks(h, n) BY <2>3, <2>4
  <2> QED BY <2>5
<1>4. \E g : Walks(g, L)
  <2> HIDE DEF Walks
  <2>1. 0 \in Q BY <1>1, <1>2
  <2>2. \A n \in 1 .. L : n - 1 \in Q => n \in Q BY <1>1, <1>3
  <2>3. \A n \in 0 .. L : n \in Q
    <3> HIDE DEF Q, L
    <3> QED BY <1>1, <2>1, <2>2, Climb
  <2> QED BY <1>1, <2>3
<1>5. PICK g : Walks(g, L) BY <1>4
<1>6. Respellings(edits) =
        [m \in 0 .. L |-> IF m = 0 THEN base ELSE Respelt(Respellings(edits)[m - 1], edits[m])]
  BY <1>5 DEF Respellings
<1> HIDE DEF base
<1>7. /\ Respellings(edits)[0] = base
      /\ \A n \in 1 .. L : Respellings(edits)[n] = Respelt(Respellings(edits)[n - 1], edits[n])
  BY <1>1, <1>6
<1> QED BY <1>7 DEF base

\* The line g goes on, from q, with y.
Extends(h, g, q, y) ==
    /\ h \in [Nat -> Texts] /\ Convex(h) /\ \A i \in 0 .. q : h[i] = g[i]
    /\ h[q + 1] = y
    /\ \A a \in Nat : h[a] = y \/ h[a] = g[a]

\* It may go on with a text whose lines are of its last one, or new.
LEMMA ExtendedLine ==
    ASSUME NEW g \in [Nat -> Texts], Convex(g), NEW q \in Nat, NEW y \in Texts,
           NEW f \in Nat, \A a \in Nat : \A n \in Ids(g[a]) : n < f,
           \A n \in Ids(y) : n < f => n \in Ids(g[q])
    PROVE  \E h : Extends(h, g, q, y)
<1> DEFINE h == [i \in Nat |-> IF i <= q THEN g[i] ELSE y]
<1>1. h \in [Nat -> Texts] OBVIOUS
<1>2. /\ \A i \in Nat : i <= q => h[i] = g[i]
      /\ \A i \in Nat : ~(i <= q) => h[i] = y
  OBVIOUS
<1> HIDE DEF h
<1>3. ASSUME NEW a \in Nat, NEW b \in Nat, NEW c \in Nat, a <= b, b <= c
      PROVE  Ids(h[a]) \cap Ids(h[c]) \subseteq Ids(h[b])
  <2>1. CASE ~(b <= q)
    <3>1. h[b] = y /\ h[c] = y BY <1>2, <1>3, <2>1
    <3> QED BY <3>1
  <2>2. CASE b <= q /\ c <= q
    <3>1. h[a] = g[a] /\ h[b] = g[b] /\ h[c] = g[c] BY <1>2, <1>3, <2>2
    <3> QED BY <1>3, <3>1 DEF Convex
  <2>3. CASE b <= q /\ ~(c <= q)
    <3>1. h[a] = g[a] /\ h[b] = g[b] /\ h[c] = y BY <1>2, <1>3, <2>3
    <3>2. Ids(g[a]) \cap Ids(y) \subseteq Ids(g[q]) OBVIOUS
    <3>3. Ids(g[a]) \cap Ids(g[q]) \subseteq Ids(g[b]) BY <1>3, <2>3 DEF Convex
    <3> QED BY <3>1, <3>2, <3>3
  <2> QED BY <2>1, <2>2, <2>3
<1>4. Convex(h) BY <1>3 DEF Convex
<1>5. h[q + 1] = y BY <1>2
<1>6. \A i \in 0 .. q : h[i] = g[i] BY <1>2
<1>7. \A a \in Nat : h[a] = y \/ h[a] = g[a] BY <1>2
<1>8. Extends(h, g, q, y) BY <1>1, <1>4, <1>5, <1>6, <1>7 DEF Extends
<1> QED BY <1>8

\* The line g goes on, from p, with the texts of n edits.
Grows(g, p, edits, n, h) ==
    LET at == Respellings(edits) IN
    /\ h \in [Nat -> Texts] /\ Convex(h) /\ \A i \in 0 .. p : h[i] = g[i]
    /\ at[n].fresh \in Nat /\ fresh <= at[n].fresh
    /\ \A a \in Nat : \A k \in Ids(h[a]) : k < at[n].fresh
    /\ h[p + n] = at[n].text
    /\ \A i \in 1 .. n :
         /\ Spliced(h[p + i - 1], edits[i], h[p + i])
         /\ \A k \in Ids(h[p + i]) : k < fresh => k \in Ids(h[p + i - 1])

LEMMA EditGrows ==
    ASSUME text \in Texts, fresh \in Nat, NEW ranges \in Batches, Valid(ranges),
           NEW g \in [Nat -> Texts], NEW p \in Nat, g[p] = text, Convex(g),
           \A a \in Nat : \A k \in Ids(g[a]) : k < fresh
    PROVE  \E h : Grows(g, p, LineEdits(ranges), Len(ranges), h)
<1> DEFINE e == LineEdits(ranges)
           L == Len(ranges)
           at == Respellings(e)
           Room(n) == n < L => e[n + 1].start + e[n + 1].old <= Len(at[n].text)
           Q == {n \in 0 .. L : Room(n) /\ \E h : Grows(g, p, e, n, h)}
<1>1. L \in Nat BY RangeFacts
<1>2. /\ e \in Seq(Edits) /\ Len(e) = L
      /\ \A i \in 1 .. L :
           /\ e[i].start = ranges[L + 1 - i].l0 /\ e[i].new = ranges[L + 1 - i].new
           /\ e[i].old = IF Total = 0 /\ i = 1 THEN 0
                         ELSE ranges[L + 1 - i].l1 + 1 - ranges[L + 1 - i].l0
  BY LineEditsFacts
<1>3. /\ at[0] = [text |-> text, fresh |-> fresh]
      /\ \A n \in 1 .. L : at[n] = Respelt(at[n - 1], e[n])
  BY <1>2, RespellingsSteps
<1> HIDE DEF e, at
<1>4. \A i \in 1 .. L : /\ ranges[i].l0 \in Nat /\ ranges[i].l1 \in Nat
                        /\ ranges[i].new \in Nat \ {0} /\ ranges[i].l0 <= ranges[i].l1
  BY RangeFacts
<1>5. \A i \in 1 .. L : IF Total = 0 THEN ranges[i].l1 = 0 ELSE ranges[i].l1 < Total
  BY RangeFacts DEF Valid
<1>6. \A i \in 1 .. L - 1 : ranges[i].l1 <= ranges[i + 1].l0 BY DEF Valid
<1>7. Total \in Nat /\ Total = Len(text) BY TextFacts DEF Total
<1> HIDE DEF L
<1>8. \E h : Grows(g, p, e, 0, h)
  <2>1. Convex(g) /\ g[p + 0] = at[0].text /\ at[0].fresh = fresh BY <1>3
  <2>2. Grows(g, p, e, 0, g) BY <2>1 DEF Grows, at
  <2> QED BY <2>2
<1>9. Room(0)
  <2> SUFFICES ASSUME 0 < L PROVE e[1].start + e[1].old <= Total BY <1>3, <1>7
  <2> DEFINE r == ranges[L]
  <2>1. L \in 1 .. L /\ 1 \in 1 .. L /\ L + 1 - 1 = L BY <1>1
  <2>2. /\ r.l0 \in Nat /\ r.l1 \in Nat /\ r.l0 <= r.l1
        /\ IF Total = 0 THEN r.l1 = 0 ELSE r.l1 < Total
    BY <1>4, <1>5, <2>1
  <2>3. e[1].start = r.l0 /\ e[1].old = IF Total = 0 THEN 0 ELSE r.l1 + 1 - r.l0
    BY <1>2, <2>1
  <2> HIDE DEF r
  <2>4. CASE Total = 0 BY <1>7, <2>2, <2>3, <2>4
  <2>5. CASE Total # 0
    <3>1. r.l0 + (r.l1 + 1 - r.l0) = r.l1 + 1 BY <2>2
    <3>2. r.l1 + 1 <= Total BY <1>7, <2>2, <2>5
    <3> QED BY <2>3, <2>5, <3>1, <3>2
  <2> QED BY <2>4, <2>5
<1>10. ASSUME NEW n \in 1 .. L, n - 1 \in Q PROVE n \in Q
  <2>1. PICK h : Grows(g, p, e, n - 1, h) BY <1>10
  <2> DEFINE q == p + (n - 1)
             x == h[q]
             f == at[n - 1].fresh
             now == Respelt(at[n - 1], e[n])
  <2>2. n \in Nat /\ n - 1 \in Nat /\ q \in Nat /\ p <= q /\ q + 1 = p + n /\ n - 1 < L
        /\ (n - 1) + 1 = n
    BY <1>1
  <2>3. /\ h \in [Nat -> Texts] /\ Convex(h) /\ \A i \in 0 .. p : h[i] = g[i]
        /\ f \in Nat /\ fresh <= f /\ \A a \in Nat : \A k \in Ids(h[a]) : k < f
        /\ x = at[n - 1].text
        /\ \A i \in 1 .. n - 1 :
             /\ Spliced(h[p + i - 1], e[i], h[p + i])
             /\ \A k \in Ids(h[p + i]) : k < fresh => k \in Ids(h[p + i - 1])
    BY <2>1 DEF Grows, at
  <2>4. x \in Texts /\ \A k \in Ids(x) : k < f BY <2>2, <2>3
  <2>5. e[n] \in Edits BY <1>2
  <2>6. L + 1 - n \in 1 .. L /\ L + 1 - n \in Nat BY <1>1
  <2>7. e[n].new > 0
    <3>1. ranges[L + 1 - n].new \in Nat \ {0} BY <1>4, <2>6
    <3>2. e[n].new = ranges[L + 1 - n].new BY <1>2
    <3> QED BY <3>1, <3>2
  <2>8. e[n].start + e[n].old <= Len(x)
    <3>1. Room(n - 1) BY <1>10
    <3> QED BY <2>2, <2>3, <3>1
  <2> HIDE DEF x, f, q
  <2>9. /\ now.text \in Texts /\ Spliced(x, e[n], now.text) /\ e[n].start < Len(now.text)
        /\ now.fresh \in Nat /\ f <= now.fresh
        /\ \A k \in Ids(now.text) : k < now.fresh /\ (k < f => k \in Ids(x))
    <3>1. at[n - 1].text = x /\ at[n - 1].fresh = f /\ f \in Nat BY <2>3 DEF f
    <3> HIDE DEF now
    <3> QED BY <2>4, <2>5, <2>7, <2>8, <3>1, RespeltSplices DEF now
  <2>10. at[n] = now BY <1>3
  <2> HIDE DEF now
  <2>11. PICK w \in [Nat -> Texts] :
           /\ Convex(w) /\ \A i \in 0 .. q : w[i] = h[i]
           /\ w[q + 1] = now.text
           /\ \A a \in Nat : w[a] = now.text \/ w[a] = h[a]
    <3>1. h[q] = x BY DEF x
    <3> DEFINE y == now.text
    <3>2. y \in Texts /\ \A k \in Ids(y) : k < f => k \in Ids(h[q]) BY <2>9, <3>1
    <3>3. q \in Nat /\ f \in Nat /\ h \in [Nat -> Texts] /\ Convex(h) BY <2>2, <2>3
    <3>4. \A a \in Nat : \A k \in Ids(h[a]) : k < f BY <2>3
    <3> HIDE DEF y
    <3>5. PICK w : Extends(w, h, q, y) BY <3>2, <3>3, <3>4, ExtendedLine
    <3> QED BY <3>5 DEF y, Extends
  <2>12. \A i \in 0 .. p : w[i] = g[i]
    <3> TAKE i \in 0 .. p
    <3>1. i \in 0 .. q BY <2>2
    <3> QED BY <2>3, <2>11, <3>1
  <2>13. \A a \in Nat : \A k \in Ids(w[a]) : k < now.fresh
    <3> TAKE a \in Nat
    <3> TAKE k \in Ids(w[a])
    <3>1. CASE w[a] = now.text BY <2>9, <3>1
    <3>2. CASE w[a] = h[a]
      <4>1. k < f BY <2>3, <3>2
      <4>2. h[a] \in Texts BY <2>3
      <4>3. k \in Nat BY <4>2, IdsNat
      <4> QED BY <2>3, <2>9, <4>1, <4>3
    <3> QED BY <2>11, <3>1, <3>2
  <2>14. ASSUME NEW i \in 1 .. n
         PROVE  /\ Spliced(w[p + i - 1], e[i], w[p + i])
                /\ \A k \in Ids(w[p + i]) : k < fresh => k \in Ids(w[p + i - 1])
    <3>1. CASE i = n
      <4>1. p + n - 1 = q /\ p + n = q + 1 /\ q \in 0 .. q BY <2>2 DEF q
      <4>2. w[q] = x BY <2>11, <4>1 DEF x
      <4>3. ASSUME NEW k \in Ids(now.text), k < fresh PROVE k \in Ids(x)
        <5>1. k \in Nat BY <2>9, <4>3, IdsNat
        <5>2. k < f BY <2>3, <4>3, <5>1
        <5> QED BY <2>9, <5>2
      <4> QED BY <2>9, <2>11, <3>1, <4>1, <4>2, <4>3
    <3>2. CASE i # n
      <4>1. i \in 1 .. n - 1 /\ p + i \in 0 .. q /\ p + i - 1 \in 0 .. q BY <2>2, <3>2 DEF q
      <4> QED BY <2>3, <2>11, <4>1
    <3> QED BY <3>1, <3>2
  <2>15. fresh <= now.fresh BY <2>3, <2>9
  <2>16. w[p + n] = now.text BY <2>2, <2>11
  <2>17. Grows(g, p, e, n, w)
    BY <2>9, <2>10, <2>11, <2>12, <2>13, <2>14, <2>15, <2>16 DEF Grows, at
  <2>18. Room(n)
    <3> SUFFICES ASSUME n < L PROVE e[n + 1].start + e[n + 1].old <= Len(now.text) BY <2>10
    <3> DEFINE r == ranges[L - n]
    <3>1. /\ n + 1 \in 1 .. L /\ L + 1 - (n + 1) = L - n /\ L - n \in 1 .. L - 1
          /\ L - n \in 1 .. L /\ (L - n) + 1 = L + 1 - n /\ ~(n + 1 = 1)
      BY <1>1, <2>2
    <3>2. r.l0 \in Nat /\ r.l1 \in Nat /\ r.l0 <= r.l1 BY <1>4, <3>1
    <3>3. r.l1 <= ranges[(L - n) + 1].l0 BY <1>6, <3>1
    <3>4. e[n].start = ranges[(L - n) + 1].l0 BY <1>2, <3>1
    <3>5. e[n + 1].start = r.l0 /\ e[n + 1].old = r.l1 + 1 - r.l0
      <4>1. /\ e[n + 1].start = ranges[L + 1 - (n + 1)].l0
            /\ e[n + 1].old = IF Total = 0 /\ n + 1 = 1 THEN 0
                              ELSE ranges[L + 1 - (n + 1)].l1 + 1 - ranges[L + 1 - (n + 1)].l0
        BY <1>2, <3>1
      <4> QED BY <3>1, <4>1
    <3> HIDE DEF r
    <3>6. r.l1 <= e[n].start BY <3>3, <3>4
    <3>7. e[n].start \in Nat /\ Len(now.text) \in Nat BY <2>5, <2>9, TextFacts DEF Edits
    <3>8. r.l0 + (r.l1 + 1 - r.l0) <= Len(now.text) BY <2>9, <3>2, <3>6, <3>7
    <3> QED BY <3>5, <3>8
  <2> QED BY <1>1, <2>17, <2>18
<1>11. L \in Q
  <2>1. 0 \in Q BY <1>1, <1>8, <1>9
  <2>2. \A n \in 1 .. L : n - 1 \in Q => n \in Q BY <1>10
  <2>3. \A n \in 0 .. L : n \in Q
    <3> HIDE DEF Q
    <3> QED BY <1>1, <2>1, <2>2, Climb
  <2> QED BY <1>1, <2>3
<1> QED BY <1>11 DEF e, L

-----------------------------------------------------------------------------
(* The invariant.                                                          *)

\* There is a line of views: the one that is shown, those behind it on the
\* undo stack, those ahead of it on the redo stack, each with its record.
Follows(g, p, u, v) ==
    /\ g \in [Nat -> Texts] /\ p \in Nat /\ text = g[p] /\ Convex(g)
    /\ \A a \in Nat : \A k \in Ids(g[a]) : k < fresh
    /\ Behind(undo, mundo, marked, g, p, u) /\ Ahead(redo, mredo, marked, g, p, v)

Bounded ==
    /\ text \in Views /\ undo \in Seq(Views) /\ redo \in Seq(Views)
    /\ rev \in Nat /\ mrev \in Nat /\ fresh \in Nat /\ marked \subseteq Nat
    /\ \A k \in marked : k < fresh

Core == Bounded /\ BookmarksFollow /\ \E g, p, u, v : Follows(g, p, u, v)

LEMMA FollowIsAt == BookmarksFollow <=> marks = At(text, marked)
BY DEF BookmarksFollow, At

LEMMA EmptyStacks ==
    ASSUME NEW m, NEW g, NEW p
    PROVE  Behind(<<>>, <<>>, m, g, p, <<>>) /\ Ahead(<<>>, <<>>, m, g, p, <<>>)
<1>1. <<>> \in Seq(Nat) /\ <<>> \in Seq(Texts) /\ <<>> \in Seq(Seq(Transforms)) OBVIOUS
<1>2. Len(<<>>) = 0 OBVIOUS
<1>3. 1 .. 0 = {} OBVIOUS
<1> QED BY <1>1, <1>2, <1>3 DEF Behind, Ahead

LEMMA CoreInit == MarkInit => Core
<1> SUFFICES ASSUME MarkInit PROVE Core OBVIOUS
<1>1. /\ text \in {<<>>, <<1, 2>>} /\ fresh = Len(text) + 1
      /\ undo = <<>> /\ redo = <<>> /\ rev = 0
      /\ marks = {} /\ mundo = <<>> /\ mredo = <<>> /\ mrev = 0 /\ marked = {}
  BY DEF MarkInit
<1>2. /\ text \in Seq(Nat) /\ Len(text) \in Nat /\ Len(text) <= 2 /\ DOMAIN text = 1 .. Len(text)
      /\ \A i \in 1 .. Len(text) : text[i] = i
  <2>1. CASE text = <<>> BY <2>1
  <2>2. CASE text = <<1, 2>>
    <3>1. Len(text) = 2 /\ text[1] = 1 /\ text[2] = 2 BY <2>2
    <3>2. \A i \in 1 .. 2 : i = 1 \/ i = 2 OBVIOUS
    <3> QED BY <2>2, <3>1, <3>2
  <2> QED BY <1>1, <2>1, <2>2
<1>3. text \in Texts BY <1>2 DEF Texts
<1>4. \A k \in Ids(text) : k < fresh BY <1>1, <1>2 DEF Ids
<1>5. Bounded
  <2>1. text \in Views /\ <<>> \in Seq(Views) BY <1>2, MarkerBoundsAssumption DEF Views
  <2> QED BY <1>1, <1>2, <2>1 DEF Bounded
<1>6. BookmarksFollow BY <1>1 DEF BookmarksFollow
<1> DEFINE g == [a \in Nat |-> text]
<1>7. g \in [Nat -> Texts] /\ \A a \in Nat : g[a] = text BY <1>3
<1> HIDE DEF g
<1>8. Convex(g) BY <1>7 DEF Convex
<1>9. Follows(g, 0, <<>>, <<>>) BY <1>1, <1>4, <1>7, <1>8, EmptyStacks DEF Follows
<1> QED BY <1>5, <1>6, <1>9 DEF Core

\* An edit that fails or changes nothing leaves the markers.
LEMMA Restored ==
    ASSUME Core, NEW ranges \in Batches
    PROVE  LET begun == Begin(LineEdits(ranges)) IN ApplyRecord(begun.set, begun.inverse).set = marks
<1> DEFINE e == LineEdits(ranges)
           record == [i \in DOMAIN e |-> Transform(e[i], {})]
<1>1. e \in Seq(Edits) BY LineEditsFacts
<1> HIDE DEF e
<1>2. record \in Seq(Transforms) /\ \A n \in 1 .. Len(record) : record[n].restore = {}
  <2>1. DOMAIN e = 1 .. Len(e) /\ Len(e) \in Nat BY <1>1
  <2>2. \A i \in 1 .. Len(e) : Transform(e[i], {}) \in Transforms /\ Transform(e[i], {}).restore = {}
    BY <1>1 DEF Transforms, Transform
  <2> QED BY <2>1, <2>2
<1>3. marks \in SUBSET Nat
  <2>1. text \in Texts
    <3>1. PICK g, p, u, v : Follows(g, p, u, v) BY DEF Core
    <3> QED BY <3>1 DEF Follows
  <2> QED BY <2>1, TextFacts, FollowIsAt DEF Core
<1>4. Begin(e) = Replay(marks, record) BY DEF Begin
<1> HIDE DEF record
<1> QED BY <1>2, <1>3, <1>4, RollsBack DEF e

\* A batch takes the markers to those of the new view, and its record back.
LEMMA BegunFits ==
    ASSUME text \in Texts, marks = At(text, marked), \A k \in marked : k < fresh,
           NEW e \in Seq(Edits), NEW g, NEW p \in Nat, NEW h, Grows(g, p, e, Len(e), h), g[p] = text
    PROVE  LET begun == Begin(e)
               q == p + Len(e) IN
           /\ begun.set = At(h[q], marked)
           /\ begun.inverse \in Seq(Transforms)
           /\ Downward(begun.inverse, h, p, q, marked)
<1> DEFINE L == Len(e)
           record == [i \in DOMAIN e |-> Transform(e[i], {})]
           c == [n \in 0 .. L |-> h[p + n]]
           begun == Begin(e)
<1>1. L \in Nat /\ DOMAIN e = 1 .. L OBVIOUS
<1>2. /\ h \in [Nat -> Texts] /\ \A i \in 0 .. p : h[i] = g[i]
      /\ \A i \in 1 .. L :
           /\ Spliced(h[p + i - 1], e[i], h[p + i])
           /\ \A k \in Ids(h[p + i]) : k < fresh => k \in Ids(h[p + i - 1])
  BY DEF Grows
<1> HIDE DEF L
<1>3. record \in Seq(Transforms) /\ Len(record) = L
      /\ \A i \in 1 .. L : record[i] = [edit |-> e[i], restore |-> {}]
  <2>1. \A i \in 1 .. L : [edit |-> e[i], restore |-> {}] \in Transforms BY <1>1 DEF Transforms
  <2>2. record = [i \in 1 .. L |-> [edit |-> e[i], restore |-> {}]] BY <1>1 DEF Transform
  <2> QED BY <1>1, <2>1, <2>2
<1>4. \A n \in 0 .. L : c[n] = h[p + n] /\ c[n] \in Texts BY <1>1, <1>2
<1>5. c[0] = text /\ c[L] = h[p + L]
  <2>1. 0 \in 0 .. L /\ L \in 0 .. L /\ p \in 0 .. p /\ p + 0 = p BY <1>1
  <2> QED BY <1>2, <1>4, <2>1
<1>6. Begin(e) = Replay(marks, record) BY DEF Begin
<1> HIDE DEF record, c, begun
<1>7. \A n \in 1 .. L : Fits(record[n], c[n - 1], c[n], marked)
  <2> TAKE n \in 1 .. L
  <2>1. n - 1 \in 0 .. L /\ n \in 0 .. L /\ p + (n - 1) = p + n - 1 BY <1>1
  <2>2. c[n - 1] = h[p + n - 1] /\ c[n] = h[p + n] /\ c[n] \in Texts BY <1>4, <2>1
  <2>3. Spliced(c[n - 1], e[n], c[n]) /\ \A k \in Ids(c[n]) : k < fresh => k \in Ids(c[n - 1])
    BY <1>2, <2>2
  <2>4. At(c[n], marked \ Ids(c[n - 1])) = {}
    <3> SUFFICES ASSUME NEW l \in At(c[n], marked \ Ids(c[n - 1])) PROVE FALSE OBVIOUS
    <3> DEFINE k == c[n][l + 1]
    <3>1. l + 1 \in 1 .. Len(c[n]) /\ k \in marked /\ k \notin Ids(c[n - 1]) BY <2>2, TextFacts, SMTT(30)
    <3>2. k \in Ids(c[n]) BY <2>2, <3>1, TextFacts
    <3> HIDE DEF k
    <3> QED BY <2>3, <3>1, <3>2
  <2>5. record[n] = [edit |-> e[n], restore |-> {}] /\ record[n] \in Transforms BY <1>3
  <2>6. record[n].edit = e[n] /\ record[n].restore = {} BY <2>5
  <2> QED BY <2>3, <2>4, <2>5, <2>6 DEF Fits
<1>8. LET done == Replay(At(c[0], marked), record) IN
      /\ done.set = At(c[L], marked)
      /\ done.inverse \in Seq(Transforms) /\ Len(done.inverse) = L
      /\ \A n \in 1 .. L : Fits(done.inverse[n], c[n], c[n - 1], marked)
  BY <1>3, <1>4, <1>7, WalkFits, ZenonT(60)
<1>9. /\ begun.set = At(c[L], marked)
      /\ begun.inverse \in Seq(Transforms) /\ Len(begun.inverse) = L
      /\ \A n \in 1 .. L : Fits(begun.inverse[n], c[n], c[n - 1], marked)
  BY <1>5, <1>6, <1>8 DEF begun
<1>10. \A n \in 1 .. L : Fits(begun.inverse[n], h[p + n], h[(p + n) - 1], marked)
  <2> TAKE n \in 1 .. L
  <2>1. n - 1 \in 0 .. L /\ n \in 0 .. L /\ p + (n - 1) = (p + n) - 1 BY <1>1
  <2>2. c[n - 1] = h[(p + n) - 1] /\ c[n] = h[p + n] BY <1>4, <2>1
  <2> QED BY <1>9, <2>2
<1>11. Downward(begun.inverse, h, p, p + L, marked) BY <1>9, <1>10 DEF Downward
<1> QED BY <1>5, <1>9, <1>11 DEF begun, L

-----------------------------------------------------------------------------
(* Each action keeps it.                                                   *)

LEMMA EditKeeps ==
    ASSUME Core, NEW ranges \in Batches, Edit(ranges)
    PROVE  Core'
<1> DEFINE e == LineEdits(ranges)
           L == Len(ranges)
           now == Respellings(e)[L]
           begun == Begin(e)
<1>1. PICK g, p, u, v : Follows(g, p, u, v) BY DEF Core
<1>2. /\ g \in [Nat -> Texts] /\ p \in Nat /\ text = g[p] /\ Convex(g) /\ text \in Texts
      /\ \A a \in Nat : \A k \in Ids(g[a]) : k < fresh
      /\ Behind(undo, mundo, marked, g, p, u)
  BY <1>1 DEF Follows
<1>3. /\ undo \in Seq(Views) /\ text \in Views
      /\ rev \in Nat /\ mrev \in Nat /\ fresh \in Nat /\ marked \subseteq Nat
      /\ \A k \in marked : k < fresh
  BY DEF Core, Bounded
<1>4. marks = At(text, marked) BY FollowIsAt DEF Core
<1>5. Valid(ranges) BY DEF Edit
<1>6. PICK h : Grows(g, p, e, L, h) BY <1>2, <1>3, <1>5, EditGrows
<1>7. e \in Seq(Edits) /\ Len(e) = L /\ L \in Nat BY LineEditsFacts, RangeFacts
<1>8. /\ Len(now.text) <= MaxLines
      /\ text' = now.text /\ fresh' = now.fresh
      /\ undo' = Push(undo, text) /\ redo' = <<>> /\ rev' = rev + 1
      /\ marks' = begun.set
      /\ mundo' = Push(mundo, begun.inverse) /\ mredo' = <<>> /\ mrev' = mrev + 1
      /\ marked' = marked
  BY DEF Edit
<1> HIDE DEF e, L, begun
<1> DEFINE q == p + L
<1>9. /\ begun.set = At(h[q], marked)
      /\ begun.inverse \in Seq(Transforms) /\ Downward(begun.inverse, h, p, q, marked)
  <2>1. Grows(g, p, e, Len(e), h) BY <1>6, <1>7
  <2>2. LET b == Begin(e)
            w == p + Len(e) IN
        /\ b.set = At(h[w], marked)
        /\ b.inverse \in Seq(Transforms)
        /\ Downward(b.inverse, h, p, w, marked)
    BY <1>2, <1>3, <1>4, <1>7, <2>1, BegunFits
  <2> QED BY <1>7, <2>2 DEF begun
<1>10. /\ h \in [Nat -> Texts] /\ Convex(h) /\ \A i \in 0 .. p : h[i] = g[i]
       /\ now.fresh \in Nat /\ fresh <= now.fresh
       /\ \A a \in Nat : \A k \in Ids(h[a]) : k < now.fresh
       /\ h[q] = now.text
  BY <1>6 DEF Grows
<1> HIDE DEF now
<1>11. q \in Nat /\ p <= q BY <1>2, <1>7
<1> HIDE DEF q
<1>12. Behind(undo, mundo, marked, h, p, u) BY <1>2, <1>10, ExtendedBehind
<1>13. text = h[p] BY <1>2, <1>10
<1>14. Behind(Push(undo, text), Push(mundo, begun.inverse), marked, h, q, Push(u, p))
  BY <1>2, <1>9, <1>11, <1>12, <1>13, PushBehind
<1>15. Follows(h, q, Push(u, p), <<>>)'
  <2>1. Ahead(<<>>, <<>>, marked, h, q, <<>>) BY EmptyStacks
  <2> QED BY <1>8, <1>10, <1>11, <1>14, <2>1 DEF Follows
<1>16. Bounded'
  <2>1. text' \in Views
    <3>1. now.text \in Texts BY <1>10, <1>11
    <3> QED BY <1>8, <3>1, TextFacts DEF Views
  <2>2. undo' \in Seq(Views) BY <1>3, <1>8, PushFacts
  <2>3. \A k \in marked' : k < fresh'
    <3> TAKE k \in marked'
    <3>1. k \in Nat /\ k < fresh BY <1>3, <1>8
    <3> QED BY <1>3, <1>8, <1>10, <3>1
  <2>4. redo' \in Seq(Views) BY <1>8
  <2> QED BY <1>3, <1>8, <1>10, <2>1, <2>2, <2>3, <2>4 DEF Bounded
<1>17. BookmarksFollow'
  <2>1. marks' = At(text', marked') BY <1>8, <1>9, <1>10
  <2> QED BY <2>1 DEF BookmarksFollow, At
<1> QED BY <1>15, <1>16, <1>17 DEF Core

LEMMA UndoKeeps ==
    ASSUME Core, Undo
    PROVE  Core'
<1> DEFINE done == ApplyRecord(marks, Last(mundo))
<1>1. PICK g, p, u, v : Follows(g, p, u, v) BY DEF Core
<1>2. /\ g \in [Nat -> Texts] /\ p \in Nat /\ text = g[p] /\ Convex(g) /\ text \in Texts
      /\ \A a \in Nat : \A k \in Ids(g[a]) : k < fresh
      /\ Behind(undo, mundo, marked, g, p, u) /\ Ahead(redo, mredo, marked, g, p, v)
  BY <1>1 DEF Follows
<1>3. Bounded /\ marks = At(text, marked) BY FollowIsAt DEF Core
<1>4. undo # <<>> BY DEF Undo
<1>5. mundo # <<>> BY <1>2, <1>4 DEF Behind
<1>6. /\ text' = Last(undo) /\ undo' = Front(undo) /\ redo' = Push(redo, text) /\ rev' = rev + 1
      /\ marks' = done.set
      /\ mundo' = Front(mundo) /\ mredo' = Push(mredo, done.inverse) /\ mrev' = mrev + 1
      /\ fresh' = fresh /\ marked' = marked
  BY <1>5 DEF Undo
<1> DEFINE q == Last(u)
<1>7. /\ Behind(Front(undo), Front(mundo), marked, g, q, Front(u))
      /\ q \in Nat /\ q <= p /\ Last(undo) = g[q]
      /\ Last(mundo) \in Seq(Transforms) /\ Downward(Last(mundo), g, q, p, marked)
  BY <1>2, <1>4, PopBehind
<1> HIDE DEF q
<1>8. /\ done.set = At(g[q], marked) /\ done.inverse \in Seq(Transforms)
      /\ Upward(done.inverse, g, q, p, marked)
  <2>1. LET d == ApplyRecord(At(g[p], marked), Last(mundo)) IN
        /\ d.set = At(g[q], marked) /\ d.inverse \in Seq(Transforms)
        /\ Upward(d.inverse, g, q, p, marked)
    BY <1>2, <1>7, GoDown
  <2> QED BY <1>2, <1>3, <2>1
<1> HIDE DEF done
<1>9. Ahead(Push(redo, text), Push(mredo, done.inverse), marked, g, q, Push(v, p))
  BY <1>2, <1>7, <1>8, PushAhead
<1>10. Follows(g, q, Front(u), Push(v, p))' BY <1>2, <1>6, <1>7, <1>9 DEF Follows
<1>11. Bounded'
  <2>1. Last(undo) \in Views /\ Front(undo) \in Seq(Views) BY <1>3, <1>4, PopFacts DEF Bounded
  <2>2. Push(redo, text) \in Seq(Views) BY <1>3, PushFacts DEF Bounded
  <2> QED BY <1>3, <1>6, <2>1, <2>2 DEF Bounded
<1>12. BookmarksFollow'
  <2>1. marks' = At(text', marked') BY <1>6, <1>7, <1>8
  <2> QED BY <2>1 DEF BookmarksFollow, At
<1> QED BY <1>10, <1>11, <1>12 DEF Core

LEMMA RedoKeeps ==
    ASSUME Core, Redo
    PROVE  Core'
<1> DEFINE done == ApplyRecord(marks, Last(mredo))
<1>1. PICK g, p, u, v : Follows(g, p, u, v) BY DEF Core
<1>2. /\ g \in [Nat -> Texts] /\ p \in Nat /\ text = g[p] /\ Convex(g) /\ text \in Texts
      /\ \A a \in Nat : \A k \in Ids(g[a]) : k < fresh
      /\ Behind(undo, mundo, marked, g, p, u) /\ Ahead(redo, mredo, marked, g, p, v)
  BY <1>1 DEF Follows
<1>3. Bounded /\ marks = At(text, marked) BY FollowIsAt DEF Core
<1>4. redo # <<>> BY DEF Redo
<1>5. mredo # <<>> BY <1>2, <1>4 DEF Ahead
<1>6. /\ text' = Last(redo) /\ redo' = Front(redo) /\ undo' = Push(undo, text) /\ rev' = rev + 1
      /\ marks' = done.set
      /\ mredo' = Front(mredo) /\ mundo' = Push(mundo, done.inverse) /\ mrev' = mrev + 1
      /\ fresh' = fresh /\ marked' = marked
  BY <1>5 DEF Redo
<1> DEFINE q == Last(v)
<1>7. /\ Ahead(Front(redo), Front(mredo), marked, g, q, Front(v))
      /\ q \in Nat /\ p <= q /\ Last(redo) = g[q]
      /\ Last(mredo) \in Seq(Transforms) /\ Upward(Last(mredo), g, p, q, marked)
  BY <1>2, <1>4, PopAhead
<1> HIDE DEF q
<1>8. /\ done.set = At(g[q], marked) /\ done.inverse \in Seq(Transforms)
      /\ Downward(done.inverse, g, p, q, marked)
  <2>1. LET d == ApplyRecord(At(g[p], marked), Last(mredo)) IN
        /\ d.set = At(g[q], marked) /\ d.inverse \in Seq(Transforms)
        /\ Downward(d.inverse, g, p, q, marked)
    BY <1>2, <1>7, GoUp
  <2> QED BY <1>2, <1>3, <2>1
<1> HIDE DEF done
<1>9. Behind(Push(undo, text), Push(mundo, done.inverse), marked, g, q, Push(u, p))
  BY <1>2, <1>7, <1>8, PushBehind
<1>10. Follows(g, q, Push(u, p), Front(v))' BY <1>2, <1>6, <1>7, <1>9 DEF Follows
<1>11. Bounded'
  <2>1. Last(redo) \in Views /\ Front(redo) \in Seq(Views) BY <1>3, <1>4, PopFacts DEF Bounded
  <2>2. Push(undo, text) \in Seq(Views) BY <1>3, PushFacts DEF Bounded
  <2> QED BY <1>3, <1>6, <2>1, <2>2 DEF Bounded
<1>12. BookmarksFollow'
  <2>1. marks' = At(text', marked') BY <1>6, <1>7, <1>8
  <2> QED BY <2>1 DEF BookmarksFollow, At
<1> QED BY <1>10, <1>11, <1>12 DEF Core

\* The user marks lines of what is shown: the rest of the invariant keeps.
LEMMA RemarkedKeeps ==
    ASSUME Core, UNCHANGED <<docVars, mundo, mredo>>, mrev' \in Nat,
           marked' \subseteq Nat, \A k \in marked' : k < fresh,
           marked \ Ids(text) = marked' \ Ids(text), marks' = At(text, marked')
    PROVE  Core'
<1>1. PICK g, p, u, v : Follows(g, p, u, v) BY DEF Core
<1>2. /\ g \in [Nat -> Texts] /\ p \in Nat /\ text = g[p] /\ Convex(g)
      /\ \A a \in Nat : \A k \in Ids(g[a]) : k < fresh
      /\ Behind(undo, mundo, marked, g, p, u) /\ Ahead(redo, mredo, marked, g, p, v)
  BY <1>1 DEF Follows
<1>3. /\ text' = text /\ undo' = undo /\ redo' = redo /\ rev' = rev /\ fresh' = fresh
      /\ mundo' = mundo /\ mredo' = mredo
  BY DEF docVars
<1>4. marked \ Ids(g[p]) = marked' \ Ids(g[p]) BY <1>2
<1>5. Behind(undo, mundo, marked', g, p, u) BY <1>2, <1>4, ToggledBehind
<1>6. Ahead(redo, mredo, marked', g, p, v) BY <1>2, <1>4, ToggledAhead
<1>7. Follows(g, p, u, v)' BY <1>2, <1>3, <1>5, <1>6 DEF Follows
<1>8. Bounded' BY <1>3 DEF Core, Bounded
<1>9. BookmarksFollow'
  <2>1. marks' = At(text', marked') BY <1>3
  <2> QED BY <2>1 DEF BookmarksFollow, At
<1> QED BY <1>7, <1>8, <1>9 DEF Core

\* What the lines of the text are, in terms of the invariant.
LEMMA ShownFacts ==
    ASSUME Core
    PROVE  /\ text \in Texts /\ Total = Len(text) /\ marks = At(text, marked)
           /\ \A k \in Ids(text) : k \in Nat /\ k < fresh
           /\ marked \subseteq Nat /\ (\A k \in marked : k < fresh) /\ mrev \in Nat
<1>1. PICK g, p, u, v : Follows(g, p, u, v) BY DEF Core
<1>2. /\ g \in [Nat -> Texts] /\ p \in Nat /\ text = g[p]
      /\ \A a \in Nat : \A k \in Ids(g[a]) : k < fresh
  BY <1>1 DEF Follows
<1>3. text \in Texts /\ \A k \in Ids(text) : k \in Nat /\ k < fresh BY <1>2, IdsNat
<1> QED BY <1>3, FollowIsAt DEF Core, Bounded, Total

LEMMA ToggleKeeps ==
    ASSUME Core, NEW l \in 0 .. MaxLines - 1, Toggle(l)
    PROVE  Core'
<1> DEFINE y == text[l + 1]
<1>0. l \in Nat BY MarkerBoundsAssumption
<1>1. /\ l < Total
      /\ marks' = IF l \in marks THEN marks \ {l} ELSE marks \cup {l}
      /\ marked' = IF l \in marks THEN marked \ {y} ELSE marked \cup {y}
      /\ mrev' = mrev + 1 /\ UNCHANGED <<docVars, mundo, mredo>>
  BY DEF Toggle
<1>2. l + 1 \in 1 .. Len(text) /\ y \in Ids(text) BY <1>0, <1>1, ShownFacts, TextFacts
<1>3. \A k, m : k \in At(text, m) <=> k \in Nat /\ k + 1 \in 1 .. Len(text) /\ text[k + 1] \in m
  BY ShownFacts, TextFacts
<1>4. \A k \in Nat : k + 1 \in 1 .. Len(text) /\ text[k + 1] = y => k = l
  <2> TAKE k \in Nat
  <2> HAVE k + 1 \in 1 .. Len(text) /\ text[k + 1] = y
  <2>1. k + 1 = l + 1 BY <1>2, ShownFacts, TextFacts
  <2> QED BY <1>0, <2>1
<1> HIDE DEF y
<1>5. marks' = At(text, marked')
  <2>1. CASE l \in marks
    <3>1. \A k : k \in marks' <=> k \in At(text, marked')
      <4> TAKE k
      <4>1. k \in marks' <=> k \in At(text, marked) /\ k # l BY <1>1, <2>1, ShownFacts
      <4>2. k \in At(text, marked') <=> k \in At(text, marked) /\ text[k + 1] # y
        BY <1>1, <1>3, <2>1
      <4>3. k \in At(text, marked) => (text[k + 1] = y <=> k = l) BY <1>3, <1>4 DEF y
      <4> QED BY <4>1, <4>2, <4>3
    <3> QED BY <3>1
  <2>2. CASE l \notin marks
    <3>1. \A k : k \in marks' <=> k \in At(text, marked')
      <4> TAKE k
      <4>1. k \in marks' <=> k \in At(text, marked) \/ k = l BY <1>1, <2>2, ShownFacts
      <4>2. k \in At(text, marked') <=>
              \/ k \in At(text, marked)
              \/ k \in Nat /\ k + 1 \in 1 .. Len(text) /\ text[k + 1] = y
        BY <1>1, <1>3, <2>2
      <4>3. k \in Nat /\ k + 1 \in 1 .. Len(text) /\ text[k + 1] = y <=> k = l
        BY <1>0, <1>2, <1>4 DEF y
      <4> QED BY <4>1, <4>2, <4>3
    <3> QED BY <3>1
  <2> QED BY <2>1, <2>2
<1>6. marked \ Ids(text) = marked' \ Ids(text) BY <1>1, <1>2
<1>7. marked' \subseteq Nat /\ \A k \in marked' : k < fresh BY <1>1, <1>2, ShownFacts
<1>8. mrev' \in Nat BY <1>1, ShownFacts
<1> QED BY <1>1, <1>5, <1>6, <1>7, <1>8, RemarkedKeeps

LEMMA AddLinesKeeps ==
    ASSUME Core, NEW lines \in SUBSET (0 .. MaxLines - 1), AddLines(lines)
    PROVE  Core'
<1> DEFINE more == Added(lines)
           new == {text[l + 1] : l \in more}
<1>1. more \subseteq lines /\ lines \subseteq Nat BY MarkerBoundsAssumption DEF Added
<1>2. /\ \A l \in lines : l < Total
      /\ marks' = marks \cup more /\ marked' = marked \cup new
      /\ mrev' = (IF more = {} THEN mrev ELSE mrev + 1) /\ UNCHANGED <<docVars, mundo, mredo>>
  BY DEF AddLines
<1> HIDE DEF more
<1>3. \A l \in more : l \in Nat /\ l + 1 \in 1 .. Len(text) /\ text[l + 1] \in Ids(text)
  <2> TAKE l \in more
  <2>1. l \in Nat /\ l < Len(text) /\ Len(text) \in Nat BY <1>1, <1>2, ShownFacts, TextFacts
  <2>2. l + 1 \in 1 .. Len(text) BY <2>1
  <2> QED BY <2>1, <2>2, ShownFacts, TextFacts
<1>4. \A k, m : k \in At(text, m) <=> k \in Nat /\ k + 1 \in 1 .. Len(text) /\ text[k + 1] \in m
  BY ShownFacts, TextFacts
<1>5. \A k \in Nat, l \in more : k + 1 \in 1 .. Len(text) /\ text[k + 1] = text[l + 1] => k = l
  <2> TAKE k \in Nat, l \in more
  <2> HAVE k + 1 \in 1 .. Len(text) /\ text[k + 1] = text[l + 1]
  <2>1. k + 1 = l + 1 BY <1>3, ShownFacts, TextFacts
  <2> QED BY <1>3, <2>1
<1>6. \A k : k \in marks' <=> k \in At(text, marked')
  <2> TAKE k
  <2>1. k \in marks' <=> k \in At(text, marked) \/ k \in more BY <1>2, ShownFacts
  <2>2. k \in At(text, marked') <=>
          \/ k \in At(text, marked)
          \/ k \in Nat /\ k + 1 \in 1 .. Len(text) /\ text[k + 1] \in new
    BY <1>2, <1>4
  <2>3. k \in Nat /\ k + 1 \in 1 .. Len(text) /\ text[k + 1] \in new <=> k \in more
    <3>1. ASSUME k \in Nat, k + 1 \in 1 .. Len(text), text[k + 1] \in new PROVE k \in more
      <4>1. PICK l \in more : text[k + 1] = text[l + 1] BY <3>1
      <4> QED BY <1>5, <3>1, <4>1
    <3>2. ASSUME k \in more PROVE k \in Nat /\ k + 1 \in 1 .. Len(text) /\ text[k + 1] \in new
      BY <1>3, <3>2
    <3> QED BY <3>1, <3>2
  <2> QED BY <2>1, <2>2, <2>3
<1>7. new \subseteq Ids(text) BY <1>3
<1> HIDE DEF new
<1>8. marked \ Ids(text) = marked' \ Ids(text) BY <1>2, <1>7
<1>9. marked' \subseteq Nat /\ \A k \in marked' : k < fresh BY <1>2, <1>7, ShownFacts
<1>10. mrev' \in Nat BY <1>2, ShownFacts
<1>11. marks' = At(text, marked') BY <1>6
<1> QED BY <1>2, <1>8, <1>9, <1>10, <1>11, RemarkedKeeps

LEMMA ClearKeeps ==
    ASSUME Core, Clear
    PROVE  Core'
<1>1. PICK g, p, u, v : Follows(g, p, u, v) BY DEF Core
<1>2. /\ g \in [Nat -> Texts] /\ p \in Nat /\ text = g[p] /\ Convex(g)
      /\ \A a \in Nat : \A k \in Ids(g[a]) : k < fresh
      /\ Behind(undo, mundo, marked, g, p, u) /\ Ahead(redo, mredo, marked, g, p, v)
  BY <1>1 DEF Follows
<1>3. /\ text' = text /\ undo' = undo /\ redo' = redo /\ rev' = rev /\ fresh' = fresh
      /\ marks' = {} /\ marked' = {} /\ mundo' = Scrubbed(mundo) /\ mredo' = Scrubbed(mredo)
      /\ mrev' = IF <<marks', mundo', mredo'>> = <<marks, mundo, mredo>> THEN mrev ELSE mrev + 1
  BY DEF Clear, docVars
<1>4. Behind(undo, mundo', marked', g, p, u) BY <1>2, <1>3, ScrubbedBehind
<1>5. Ahead(redo, mredo', marked', g, p, v) BY <1>2, <1>3, ScrubbedAhead
<1>6. Follows(g, p, u, v)' BY <1>2, <1>3, <1>4, <1>5 DEF Follows
<1>7. Bounded'
  <2>1. mrev' \in Nat
    <3>1. mrev' = mrev \/ mrev' = mrev + 1 BY <1>3
    <3> QED BY <3>1, ShownFacts
  <2> QED BY <1>3, <2>1 DEF Core, Bounded
<1>8. BookmarksFollow' BY <1>3 DEF BookmarksFollow
<1> QED BY <1>6, <1>7, <1>8 DEF Core

LEMMA CoreFrame ==
    ASSUME Core, UNCHANGED <<docVars, mkVars, marked>>
    PROVE  Core'
BY DEF Core, Bounded, BookmarksFollow, Follows, docVars, mkVars

LEMMA CoreStep == Core /\ [MarkNext]_markVars => Core'
<1> SUFFICES ASSUME Core, [MarkNext]_markVars PROVE Core' OBVIOUS
<1>1. ASSUME NEW ranges \in Batches, EditFails(ranges) PROVE Core'
  <2>1. UNCHANGED <<docVars, mkVars, marked>>
    <3>1. /\ marks' = ApplyRecord(Begin(LineEdits(ranges)).set, Begin(LineEdits(ranges)).inverse).set
          /\ UNCHANGED <<docVars, mundo, mredo, mrev, marked>>
      BY <1>1 DEF EditFails
    <3>2. ApplyRecord(Begin(LineEdits(ranges)).set, Begin(LineEdits(ranges)).inverse).set = marks
      BY Restored
    <3> QED BY <3>1, <3>2 DEF mkVars
  <2> QED BY <2>1, CoreFrame
<1>2. ASSUME NEW ranges \in Batches, EditIsNoOp(ranges) PROVE Core'
  <2>1. UNCHANGED <<docVars, mkVars, marked>>
    <3>1. /\ marks' = ApplyRecord(Begin(LineEdits(ranges)).set, Begin(LineEdits(ranges)).inverse).set
          /\ UNCHANGED <<docVars, mundo, mredo, mrev, marked>>
      BY <1>2 DEF EditIsNoOp
    <3>2. ApplyRecord(Begin(LineEdits(ranges)).set, Begin(LineEdits(ranges)).inverse).set = marks
      BY Restored
    <3> QED BY <3>1, <3>2 DEF mkVars
  <2> QED BY <2>1, CoreFrame
<1>3. CASE ExportStarts BY <1>3, CoreFrame DEF ExportStarts
<1>4. CASE ExportPage BY <1>4, CoreFrame DEF ExportPage
<1>5. CASE ExportEnds BY <1>5, CoreFrame DEF ExportEnds
<1>6. CASE UNCHANGED markVars BY <1>6, CoreFrame DEF markVars
<1> QED
  BY <1>1, <1>2, <1>3, <1>4, <1>5, <1>6, EditKeeps, UndoKeeps, RedoKeeps, ToggleKeeps,
     AddLinesKeeps, ClearKeeps DEF MarkNext

\* The invariant holds throughout.
THEOREM MarkersStay == MarkSpec => []Core
<1>1. MarkInit => Core BY CoreInit
<1>2. Core /\ [MarkNext]_markVars => Core' BY CoreStep
<1> QED BY <1>1, <1>2, PTL DEF MarkSpec

\* A bookmark stays with its line through any edits, undos and redos (markers
\* apply, apply_record; MarkerSession begin, commit, rollback, undo, redo).
THEOREM MarksFollowLines == MarkSpec => []BookmarksFollow
<1>1. Core => BookmarksFollow BY DEF Core
<1> QED BY <1>1, MarkersStay, PTL

-----------------------------------------------------------------------------
(* Counting marked lines.                                                  *)

Rank(set, l) == Cardinality({k \in set : k < l})

LEMMA RankFacts ==
    ASSUME NEW set, IsFiniteSet(set), NEW l
    PROVE  /\ IsFiniteSet({k \in set : k < l}) /\ Rank(set, l) \in Nat
           /\ Cardinality(set) \in Nat
<1>1. IsFiniteSet({k \in set : k < l}) BY FS_Subset
<1> QED BY <1>1, FS_CardinalityType DEF Rank

LEMMA RankGrows ==
    ASSUME NEW set \in SUBSET Nat, IsFiniteSet(set), NEW l \in set, NEW k \in set, l < k
    PROVE  Rank(set, l) < Rank(set, k)
<1> DEFINE low == {j \in set : j < l}
           high == {j \in set : j < k}
<1>1. IsFiniteSet(low) /\ IsFiniteSet(high) BY RankFacts
<1>2. l \notin low /\ low \cup {l} \subseteq high
  <2>1. l \in Nat /\ k \in Nat /\ \A j \in set : j \in Nat OBVIOUS
  <2>2. \A j \in low : j \in high BY <2>1
  <2>3. l \notin low /\ l \in high BY <2>1
  <2> HIDE DEF low, high
  <2> QED BY <2>2, <2>3
<1>3. Rank(set, l) = Cardinality(low) /\ Rank(set, k) = Cardinality(high) BY DEF Rank
<1> HIDE DEF low, high
<1>4. IsFiniteSet(low \cup {l}) /\ Cardinality(low \cup {l}) = Cardinality(low) + 1
  BY <1>1, <1>2, FS_AddElement
<1>5. Cardinality(low \cup {l}) <= Cardinality(high) BY <1>1, <1>2, FS_Subset
<1>6. Cardinality(low) \in Nat /\ Cardinality(high) \in Nat BY <1>1, FS_CardinalityType
<1> QED BY <1>3, <1>4, <1>5, <1>6

\* There is a member with n members below it, while there are more than n.
LEMMA RanksReached ==
    ASSUME NEW set \in SUBSET Nat, IsFiniteSet(set), NEW n \in Nat, n < Cardinality(set)
    PROVE  \E l \in set : Rank(set, l) = n
<1> DEFINE Q == {m \in Nat : m < Cardinality(set) => \E l \in set : Rank(set, l) = m}
<1>1. Cardinality(set) \in Nat BY FS_CardinalityType
<1>2. 0 \in Q
  <2> SUFFICES ASSUME 0 < Cardinality(set) PROVE \E l \in set : Rank(set, l) = 0 OBVIOUS
  <2>1. set # {} BY FS_EmptySet
  <2>2. PICK l \in set : \A m \in set : l <= m BY <2>1, Least
  <2>3. {k \in set : k < l} = {}
    <3>1. ASSUME NEW k \in set, k < l PROVE FALSE
      <4>1. k \in Nat /\ l \in Nat /\ l <= k BY <2>2
      <4> QED BY <3>1, <4>1
    <3> QED BY <3>1
  <2>4. Rank(set, l) = 0 BY <2>3, FS_EmptySet DEF Rank
  <2> QED BY <2>4
<1>3. ASSUME NEW m \in 1 .. n, m - 1 \in Q PROVE m \in Q
  <2> SUFFICES ASSUME m < Cardinality(set) PROVE \E l \in set : Rank(set, l) = m OBVIOUS
  <2>1. m - 1 < Cardinality(set) /\ m \in Nat BY <1>1
  <2>2. PICK l \in set : Rank(set, l) = m - 1 BY <1>3, <2>1
  <2> DEFINE low == {k \in set : k < l}
             upto == low \cup {l}
             more == set \ upto
  <2>3. IsFiniteSet(low) /\ Cardinality(low) = m - 1 /\ l \notin low BY <2>2, RankFacts DEF Rank
  <2> HIDE DEF low
  <2>4. IsFiniteSet(upto) /\ Cardinality(upto) = m BY <2>1, <2>3, FS_AddElement
  <2>5. more # {} /\ more \subseteq Nat
    <3>1. upto \subseteq set BY DEF low
    <3> HIDE DEF upto
    <3>2. upto # set BY <1>1, <2>1, <2>4
    <3> QED BY <3>1, <3>2
  <2>6. PICK k \in more : \A j \in more : k <= j
    <3> HIDE DEF more
    <3> QED BY <2>5, Least
  <2>7. k \in set /\ k # l /\ ~(k < l) BY <2>6 DEF low
  <2>8. {j \in set : j < k} = upto
    <3>1. ASSUME NEW j \in set, j < k PROVE j \in upto BY <2>6, <3>1
    <3>2. ASSUME NEW j \in upto PROVE j \in set /\ j < k BY <2>7 DEF low
    <3> QED BY <3>1, <3>2
  <2>9. Rank(set, k) = m BY <2>4, <2>8 DEF Rank
  <2> QED BY <2>7, <2>9
<1>4. \A m \in 0 .. n : m \in Q
  <2> HIDE DEF Q
  <2> QED BY <1>2, <1>3, Climb
<1> QED BY <1>4

LEMMA NthIs ==
    ASSUME NEW set \in SUBSET Nat, IsFiniteSet(set), NEW l \in set, NEW i, Rank(set, l) = i - 1
    PROVE  Nth(set, i) = l
<1>1. \A k \in set : Rank(set, k) = i - 1 => k = l
  <2> TAKE k \in set
  <2> HAVE Rank(set, k) = i - 1
  <2>1. Rank(set, k) \in Nat /\ Rank(set, l) \in Nat BY RankFacts
  <2>2. k < l => Rank(set, k) < Rank(set, l) BY RankGrows
  <2>3. l < k => Rank(set, l) < Rank(set, k) BY RankGrows
  <2>4. k \in Nat /\ l \in Nat OBVIOUS
  <2> QED BY <2>1, <2>2, <2>3, <2>4
<1>2. Nth(set, i) = CHOOSE k \in set : Rank(set, k) = i - 1 BY DEF Nth, Rank
<1>3. (CHOOSE k \in set : Rank(set, k) = i - 1) = l BY <1>1
<1> QED BY <1>2, <1>3

LEMMA NthFacts ==
    ASSUME NEW set \in SUBSET Nat, IsFiniteSet(set), NEW i \in 1 .. Cardinality(set)
    PROVE  Nth(set, i) \in set /\ Rank(set, Nth(set, i)) = i - 1
<1>1. Cardinality(set) \in Nat /\ i - 1 \in Nat /\ i - 1 < Cardinality(set) BY FS_CardinalityType
<1>2. PICK l \in set : Rank(set, l) = i - 1 BY <1>1, RanksReached
<1> QED BY <1>2, NthIs

\* What comes after is read after.
LEMMA LinesJoin ==
    ASSUME NEW a \in SUBSET Nat, NEW b \in SUBSET Nat, IsFiniteSet(a), IsFiniteSet(b),
           \A i \in a, j \in b : i < j, \A l \in a \cup b : text[l + 1] \in Nat
    PROVE  /\ Cardinality(a \cup b) = Cardinality(a) + Cardinality(b)
           /\ Lines(a) \in Seq(Nat) /\ Lines(b) \in Seq(Nat)
           /\ Lines(a \cup b) = Lines(a) \o Lines(b)
<1> DEFINE n == Cardinality(a)
           m == Cardinality(b)
           c == a \cup b
<1>1. n \in Nat /\ m \in Nat BY FS_CardinalityType
<1>2. a \cap b = {} OBVIOUS
<1>3. IsFiniteSet(c) /\ Cardinality(c) = n + m
  <2>1. Cardinality(a \cap b) = 0 BY <1>2, FS_EmptySet
  <2>2. /\ IsFiniteSet(a \cup b)
        /\ Cardinality(a \cup b) = Cardinality(a) + Cardinality(b) - Cardinality(a \cap b)
    <3> HIDE DEF n, m, c
    <3> QED BY FS_Union
  <2> QED BY <1>1, <2>1, <2>2
<1>4. \A i \in 1 .. n : Nth(c, i) = Nth(a, i)
  <2> TAKE i \in 1 .. n
  <2> DEFINE l == Nth(a, i)
  <2>1. l \in a /\ Rank(a, l) = i - 1 BY NthFacts
  <2> HIDE DEF l
  <2>2. {k \in c : k < l} = {k \in a : k < l}
    <3>1. \A k \in b : ~(k < l) BY <2>1
    <3> QED BY <3>1
  <2>3. Rank(c, l) = i - 1 BY <2>1, <2>2 DEF Rank
  <2> QED BY <1>3, <2>1, <2>3, NthIs DEF l
<1>5. \A i \in 1 .. m : Nth(c, n + i) = Nth(b, i)
  <2> TAKE i \in 1 .. m
  <2> DEFINE l == Nth(b, i)
             low == {k \in b : k < l}
  <2>1. l \in b /\ Rank(b, l) = i - 1 BY NthFacts
  <2>2. IsFiniteSet(low) /\ Cardinality(low) = i - 1 BY <2>1, RankFacts DEF Rank
  <2>3. {k \in c : k < l} = a \cup low /\ a \cap low = {}
    <3>1. l \in Nat /\ \A k \in a : k \in Nat /\ k < l BY <2>1
    <3> HIDE DEF l
    <3>2. \A k \in c : k < l <=> k \in a \/ k \in low BY <3>1
    <3>3. low \subseteq b OBVIOUS
    <3> HIDE DEF low
    <3> QED BY <1>2, <3>2, <3>3
  <2>4. Cardinality(a \cup low) = n + (i - 1)
    <3> HIDE DEF low
    <3>1. Cardinality(a \cap low) = 0 BY <2>3, FS_EmptySet
    <3>2. Cardinality(a \cup low) = (n + Cardinality(low)) - Cardinality(a \cap low)
      <4>1. Cardinality(a \cup low) = Cardinality(a) + Cardinality(low) - Cardinality(a \cap low)
        <5> HIDE DEF n, c
        <5> QED BY <2>2, FS_Union
      <4>2. n = Cardinality(a) OBVIOUS
      <4> HIDE DEF n
      <4> QED BY <1>1, <2>2, <3>1, <4>1, <4>2
    <3> QED BY <1>1, <2>2, <3>1, <3>2
  <2>5. Rank(c, l) = (n + i) - 1 BY <1>1, <2>3, <2>4 DEF Rank
  <2> HIDE DEF l, low
  <2>6. Nth(c, n + i) = l BY <1>3, <2>1, <2>5, NthIs
  <2> QED BY <2>6 DEF l
<1> HIDE DEF c
<1>6. \A i \in 1 .. n : text[Nth(a, i) + 1] \in Nat BY NthFacts DEF c
<1>7. \A i \in 1 .. m : text[Nth(b, i) + 1] \in Nat BY NthFacts DEF c
<1>8. Lines(a) \in Seq(Nat) /\ Len(Lines(a)) = n /\ \A i \in 1 .. n : Lines(a)[i] = text[Nth(a, i) + 1]
  <2> DEFINE F(i) == text[Nth(a, i) + 1]
  <2>1. Lines(a) = [i \in 1 .. n |-> F(i)] BY DEF Lines
  <2>2. \A i \in 1 .. n : F(i) \in Nat BY <1>6
  <2> HIDE DEF n
  <2>3. \A i \in 1 .. n : Lines(a)[i] = F(i) BY <2>1
  <2> HIDE DEF F
  <2>4. Lines(a) \in Seq(Nat) /\ Len(Lines(a)) = n BY <1>1, <2>1, <2>2
  <2> QED BY <2>3, <2>4 DEF F
<1>9. Lines(b) \in Seq(Nat) /\ Len(Lines(b)) = m /\ \A i \in 1 .. m : Lines(b)[i] = text[Nth(b, i) + 1]
  <2> DEFINE F(i) == text[Nth(b, i) + 1]
  <2>1. Lines(b) = [i \in 1 .. m |-> F(i)] BY DEF Lines
  <2>2. \A i \in 1 .. m : F(i) \in Nat BY <1>7
  <2> HIDE DEF m
  <2>3. \A i \in 1 .. m : Lines(b)[i] = F(i) BY <2>1
  <2> HIDE DEF F
  <2>4. Lines(b) \in Seq(Nat) /\ Len(Lines(b)) = m BY <1>1, <2>1, <2>2
  <2> QED BY <2>3, <2>4 DEF F
<1>10. Lines(c) = [i \in 1 .. n + m |-> text[Nth(c, i) + 1]] BY <1>3 DEF Lines
<1> HIDE DEF n, m
<1>11. Lines(c) = Lines(a) \o Lines(b)
  <2> DEFINE w == Lines(a) \o Lines(b)
  <2>1. /\ w \in Seq(Nat) /\ Len(w) = n + m
        /\ \A i \in 1 .. n + m : w[i] = IF i <= n THEN Lines(a)[i] ELSE Lines(b)[i - n]
    <3>1. Lines(a) \in Seq(Nat) /\ Lines(b) \in Seq(Nat) BY <1>8, <1>9
    <3>2. /\ Lines(a) \o Lines(b) \in Seq(Nat)
          /\ Len(Lines(a) \o Lines(b)) = Len(Lines(a)) + Len(Lines(b))
          /\ \A i \in 1 .. Len(Lines(a)) + Len(Lines(b)) : (Lines(a) \o Lines(b))[i] =
                 IF i <= Len(Lines(a)) THEN Lines(a)[i] ELSE Lines(b)[i - Len(Lines(a))]
      BY <3>1, ConcatProperties
    <3> QED BY <1>8, <1>9, <3>2
  <2> HIDE DEF w
  <2>2. w = [i \in 1 .. n + m |-> w[i]] BY <1>1, <2>1
  <2>3. \A i \in 1 .. n + m : w[i] = text[Nth(c, i) + 1]
    <3> TAKE i \in 1 .. n + m
    <3>1. CASE i <= n
      <4>1. i \in 1 .. n BY <1>1, <3>1
      <4>2. w[i] = Lines(a)[i] BY <2>1, <3>1
      <4>3. Lines(a)[i] = text[Nth(a, i) + 1] BY <1>8, <4>1
      <4>4. Nth(c, i) = Nth(a, i) BY <1>4, <4>1 DEF n
      <4> QED BY <4>2, <4>3, <4>4
    <3>2. CASE ~(i <= n)
      <4>1. i - n \in 1 .. m /\ n + (i - n) = i BY <1>1, <3>2
      <4>2. w[i] = Lines(b)[i - n] BY <2>1, <3>2
      <4>3. Lines(b)[i - n] = text[Nth(b, i - n) + 1] BY <1>9, <4>1
      <4>4. Nth(c, n + (i - n)) = Nth(b, i - n) BY <1>5, <4>1 DEF m
      <4> QED BY <4>1, <4>2, <4>3, <4>4
    <3> QED BY <3>1, <3>2
  <2>4. w = Lines(c) BY <1>10, <2>2, <2>3
  <2> QED BY <2>4 DEF w
<1>12. Cardinality(c) = n + m BY <1>3
<1> QED BY <1>8, <1>9, <1>11, <1>12 DEF c, n, m

-----------------------------------------------------------------------------
(* The export.                                                             *)

Before(s) == {l \in marks : l < s}
From(s) == {l \in marks : l >= s}

\* While nothing has changed, what is read is what lies before the place that
\* it has come to, and what is left lies from there on.
ExportInv ==
    /\ export \in [on : BOOLEAN, rev : Nat, mrev : Nat, left : Nat, start : Nat, out : Seq(Nat)]
    /\ ~export.on => export.left = 0
    /\ export.on => export.rev <= rev /\ export.mrev <= mrev
    /\ export.on /\ PinMatches(export) =>
         export.left = Cardinality(From(export.start)) /\ export.out = Lines(Before(export.start))

MarkIInv == Core /\ ExportInv

LEMMA MarksFacts ==
    ASSUME Core
    PROVE  /\ marks \in SUBSET Nat /\ marks \subseteq 0 .. MaxLines - 1 /\ IsFiniteSet(marks)
           /\ \A l \in marks : text[l + 1] \in Nat
           /\ rev \in Nat /\ mrev \in Nat
<1>1. text \in Texts /\ marks = At(text, marked) BY ShownFacts
<1>2. text \in Views /\ rev \in Nat /\ mrev \in Nat BY DEF Core, Bounded
<1>3. \A l \in marks : l \in Nat /\ l + 1 \in 1 .. Len(text) BY <1>1, TextFacts
<1>4. Len(text) <= MaxLines /\ Len(text) \in Nat /\ MaxLines \in Nat
  BY <1>2, MarkerBoundsAssumption DEF Views
<1>5. marks \subseteq 0 .. MaxLines - 1
  <2> SUFFICES ASSUME NEW l \in marks PROVE l \in 0 .. MaxLines - 1 OBVIOUS
  <2>1. l \in Nat /\ l + 1 <= Len(text) BY <1>3
  <2> QED BY <1>4, <2>1
<1>6. IsFiniteSet(0 .. MaxLines - 1)
  <2>1. 0 \in Int /\ MaxLines - 1 \in Int BY <1>4
  <2> QED BY <2>1, FS_Interval
<1>7. IsFiniteSet(marks) BY <1>5, <1>6, FS_Subset
<1> QED BY <1>1, <1>2, <1>3, <1>5, <1>7, TextFacts

\* A set of marked lines has a last one.
LEMMA Greatest ==
    ASSUME NEW Q, Q \subseteq 0 .. MaxLines - 1, Q # {}
    PROVE  Max(Q) \in Q /\ \A y \in Q : y <= Max(Q)
<1>0. MaxLines \in Nat BY MarkerBoundsAssumption
<1> DEFINE T == {k \in Nat : MaxLines - k \in Q}
<1>1. T \subseteq Nat /\ T # {}
  <2>1. PICK q \in Q : TRUE OBVIOUS
  <2>2. q \in Nat /\ q <= MaxLines BY <1>0
  <2>3. MaxLines - q \in Nat /\ MaxLines - (MaxLines - q) = q BY <1>0, <2>2
  <2> QED BY <2>1, <2>3
<1>2. PICK k \in T : \A j \in T : k <= j
  <2> HIDE DEF T
  <2> QED BY <1>1, Least
<1> DEFINE t == MaxLines - k
<1>3. t \in Q BY <1>2
<1>4. \A y \in Q : t >= y
  <2> TAKE y \in Q
  <2>1. y \in Nat /\ y <= MaxLines BY <1>0
  <2>2. MaxLines - y \in Nat /\ MaxLines - (MaxLines - y) = y BY <1>0, <2>1
  <2>3. k <= MaxLines - y BY <1>2, <2>2
  <2> QED BY <1>0, <1>2, <2>1, <2>3
<1> HIDE DEF t
<1>5. Max(Q) \in Q /\ \A y \in Q : Max(Q) >= y BY <1>3, <1>4 DEF Max
<1>6. \A y \in Q : y \in Nat BY <1>0
<1> QED BY <1>5, <1>6

\* What moves marks or text moves a revision.
LEMMA Pinned ==
    ASSUME Core, MarkNext, export' = export
    PROVE  /\ rev' \in Nat /\ mrev' \in Nat /\ rev <= rev' /\ mrev <= mrev'
           /\ rev' = rev /\ mrev' = mrev => text' = text /\ marks' = marks
<1>1. rev \in Nat /\ mrev \in Nat BY MarksFacts
<1> DEFINE G == /\ rev' \in Nat /\ mrev' \in Nat /\ rev <= rev' /\ mrev <= mrev'
                /\ rev' = rev /\ mrev' = mrev => text' = text /\ marks' = marks
<1>2. ASSUME NEW ranges \in Batches, EditFails(ranges) PROVE G
  BY <1>1, <1>2, Restored DEF EditFails, docVars
<1>3. ASSUME NEW ranges \in Batches, EditIsNoOp(ranges) PROVE G
  BY <1>1, <1>3, Restored DEF EditIsNoOp, docVars
<1>4. ASSUME NEW ranges \in Batches, Edit(ranges) PROVE G
  <2>1. rev' = rev + 1 /\ mrev' = mrev + 1 BY <1>4 DEF Edit
  <2> QED BY <1>1, <2>1
<1>5. ASSUME Undo PROVE G
  <2>1. rev' = rev + 1 /\ (mrev' = mrev \/ mrev' = mrev + 1) BY <1>5 DEF Undo, mkVars
  <2> QED BY <1>1, <2>1
<1>6. ASSUME Redo PROVE G
  <2>1. rev' = rev + 1 /\ (mrev' = mrev \/ mrev' = mrev + 1) BY <1>6 DEF Redo, mkVars
  <2> QED BY <1>1, <2>1
<1>7. ASSUME NEW l \in 0 .. MaxLines - 1, Toggle(l) PROVE G
  <2>1. rev' = rev /\ mrev' = mrev + 1 BY <1>7 DEF Toggle, docVars
  <2> QED BY <1>1, <2>1
<1>8. ASSUME NEW lines \in SUBSET (0 .. MaxLines - 1), AddLines(lines) PROVE G
  <2>1. /\ rev' = rev /\ text' = text /\ marks' = marks \cup Added(lines)
        /\ mrev' = IF Added(lines) = {} THEN mrev ELSE mrev + 1
    BY <1>8 DEF AddLines, docVars
  <2>2. CASE Added(lines) = {} BY <1>1, <2>1, <2>2
  <2>3. CASE Added(lines) # {} BY <1>1, <2>1, <2>3
  <2> QED BY <2>2, <2>3
<1>9. ASSUME Clear PROVE G
  <2>1. /\ rev' = rev /\ text' = text
        /\ mrev' = IF <<marks', mundo', mredo'>> = <<marks, mundo, mredo>> THEN mrev ELSE mrev + 1
    BY <1>9 DEF Clear, docVars
  <2>2. CASE <<marks', mundo', mredo'>> = <<marks, mundo, mredo>> BY <1>1, <2>1, <2>2
  <2>3. CASE <<marks', mundo', mredo'>> # <<marks, mundo, mredo>> BY <1>1, <2>1, <2>3
  <2> QED BY <2>2, <2>3
<1>10. ASSUME ExportStarts \/ ExportPage \/ ExportEnds PROVE G
  <2>1. text' = text /\ rev' = rev /\ marks' = marks /\ mrev' = mrev
    BY <1>10 DEF ExportStarts, ExportPage, ExportEnds, docVars, mkVars
  <2> QED BY <1>1, <2>1
<1> HIDE DEF G
<1>11. G BY <1>2, <1>3, <1>4, <1>5, <1>6, <1>7, <1>8, <1>9, <1>10 DEF MarkNext
<1> QED BY <1>11 DEF G

\* A page reads on from where the one before it ended.
LEMMA PageReads ==
    ASSUME Core, NEW s \in Nat, NEW page, page # {},
           page = {l \in From(s) : Rank(From(s), l) < SaveBatch}
    PROVE  /\ Max(page) + 1 \in Nat /\ Lines(page) \in Seq(Nat)
           /\ Cardinality(From(Max(page) + 1)) \in Nat
           /\ Cardinality(From(Max(page) + 1)) = Cardinality(From(s)) - Cardinality(page)
           /\ Lines(Before(Max(page) + 1)) = Lines(Before(s)) \o Lines(page)
<1> DEFINE from == From(s)
           t == Max(page)
<1>1. /\ marks \in SUBSET Nat /\ marks \subseteq 0 .. MaxLines - 1 /\ IsFiniteSet(marks)
      /\ \A l \in marks : text[l + 1] \in Nat
  BY MarksFacts
<1>2. from \in SUBSET Nat /\ IsFiniteSet(from) /\ \A l : l \in from <=> l \in marks /\ l >= s
  <2>1. from \subseteq marks BY DEF From
  <2> QED BY <1>1, <2>1, FS_Subset DEF From
<1>3. \A l : l \in page <=> l \in from /\ Rank(from, l) < SaveBatch OBVIOUS
<1>4. page \subseteq marks /\ page \in SUBSET Nat /\ IsFiniteSet(page)
  <2>1. page \subseteq from BY <1>3
  <2> HIDE DEF from
  <2> QED BY <1>1, <1>2, <2>1, FS_Subset
<1>5. t \in page /\ \A y \in page : y <= t BY <1>1, <1>4, Greatest
<1> HIDE DEF t, from
<1>6. t \in Nat /\ t + 1 \in Nat /\ s <= t /\ t \in from
  <2>1. t \in from /\ t \in Nat BY <1>3, <1>4, <1>5
  <2> QED BY <1>2, <2>1
<1>7. \A l \in from : l <= t => l \in page
  <2> TAKE l \in from
  <2> HAVE l <= t
  <2>1. CASE l = t BY <1>5, <2>1
  <2>2. CASE l # t
    <3>1. l < t BY <1>2, <1>6, <2>2
    <3>2. Rank(from, l) < Rank(from, t) BY <1>2, <1>6, <3>1, RankGrows
    <3>3. Rank(from, t) < SaveBatch BY <1>3, <1>5
    <3>4. Rank(from, l) \in Nat /\ Rank(from, t) \in Nat BY <1>2, RankFacts
    <3>5. Rank(from, l) < SaveBatch BY <3>2, <3>3, <3>4, MarkerBoundsAssumption
    <3> QED BY <1>3, <3>5
  <2> QED BY <2>1, <2>2
<1>8. /\ Before(s) \in SUBSET Nat /\ IsFiniteSet(Before(s)) /\ \A l \in Before(s) : l \in marks /\ l < s
      /\ From(t + 1) \in SUBSET Nat /\ IsFiniteSet(From(t + 1))
      /\ \A l \in From(t + 1) : l \in marks /\ l >= t + 1
  <2>1. Before(s) \subseteq marks /\ From(t + 1) \subseteq marks BY DEF Before, From
  <2>2. IsFiniteSet(Before(s)) /\ IsFiniteSet(From(t + 1)) BY <1>1, <2>1, FS_Subset
  <2> QED BY <1>1, <2>1, <2>2 DEF Before, From
<1>9. Before(s) \cup page = Before(t + 1)
  <2>1. ASSUME NEW l \in marks PROVE l \in Before(s) \cup page <=> l \in Before(t + 1)
    <3>1. l \in Nat BY <1>1
    <3>2. l \in Before(t + 1) <=> l <= t BY <1>6, <3>1 DEF Before
    <3>3. CASE l < s
      <4>1. l \in Before(s) /\ l <= t BY <1>6, <3>1, <3>3 DEF Before
      <4> QED BY <3>2, <4>1
    <3>4. CASE ~(l < s)
      <4>1. l \in from /\ l \notin Before(s) BY <1>2, <3>1, <3>4 DEF Before
      <4> QED BY <1>5, <1>7, <3>2, <4>1
    <3> QED BY <3>3, <3>4
  <2> QED BY <1>4, <2>1 DEF Before
<1>10. page \cup From(t + 1) = from
  <2>1. ASSUME NEW l \in marks PROVE l \in page \cup From(t + 1) <=> l \in from
    <3>1. l \in Nat BY <1>1
    <3>2. l \in From(t + 1) <=> ~(l <= t) BY <1>6, <3>1 DEF From
    <3>3. CASE l <= t BY <1>3, <1>7, <3>2, <3>3
    <3>4. CASE ~(l <= t)
      <4>1. l >= s BY <1>6, <3>1, <3>4
      <4> QED BY <1>2, <3>2, <3>4, <4>1
    <3> QED BY <3>3, <3>4
  <2>2. page \subseteq marks /\ From(t + 1) \subseteq marks /\ from \subseteq marks BY <1>2, <1>4, <1>8
  <2> QED BY <2>1, <2>2
<1>11. /\ Lines(page) \in Seq(Nat)
       /\ Lines(Before(s) \cup page) = Lines(Before(s)) \o Lines(page)
  <2>1. \A i \in Before(s), j \in page : i < j
    <3> TAKE i \in Before(s), j \in page
    <3>1. i \in Nat /\ j \in Nat /\ i < s /\ j >= s BY <1>2, <1>3, <1>4, <1>8
    <3> QED BY <3>1
  <2>2. \A l \in Before(s) \cup page : text[l + 1] \in Nat BY <1>1, <1>4, <1>8
  <2> QED BY <1>4, <1>8, <2>1, <2>2, LinesJoin
<1>12. Cardinality(from) = Cardinality(page) + Cardinality(From(t + 1))
  <2>1. \A i \in page, j \in From(t + 1) : i < j
    <3> TAKE i \in page, j \in From(t + 1)
    <3>1. i \in Nat /\ j \in Nat /\ i <= t /\ j >= t + 1 BY <1>4, <1>5, <1>8
    <3> QED BY <1>6, <3>1
  <2>2. \A l \in page \cup From(t + 1) : text[l + 1] \in Nat BY <1>1, <1>4, <1>8
  <2>3. Cardinality(page \cup From(t + 1)) = Cardinality(page) + Cardinality(From(t + 1))
    BY <1>4, <1>8, <2>1, <2>2, LinesJoin
  <2> QED BY <1>10, <2>3
<1>13. Cardinality(page) \in Nat /\ Cardinality(From(t + 1)) \in Nat
  BY <1>4, <1>8, FS_CardinalityType
<1>14. Cardinality(From(t + 1)) = Cardinality(from) - Cardinality(page) BY <1>12, <1>13
<1> QED BY <1>6, <1>9, <1>11, <1>13, <1>14 DEF t, from

\* What an export does in a step.
LEMMA PageStep ==
    ASSUME Core, ExportInv, ExportPage
    PROVE  \/ export' = NoExport
           \/ /\ export.on /\ PinMatches(export)
              /\ export' = [export EXCEPT !.out = export'.out, !.left = export'.left,
                                          !.start = export'.start]
              /\ export'.start \in Nat /\ export'.left \in Nat /\ export'.out \in Seq(Nat)
              /\ export'.left = Cardinality(From(export'.start))
              /\ export'.out = Lines(Before(export'.start))
<1>1. export.on /\ export.left > 0 BY DEF ExportPage
<1> DEFINE from == From(export.start)
           page == {l \in from : Rank(from, l) < SaveBatch}
<1>2. \/ export' = NoExport
      \/ /\ PinMatches(export) /\ page # {}
         /\ export' = [export EXCEPT !.out = @ \o Lines(page), !.left = @ - Cardinality(page),
                                     !.start = Max(page) + 1]
  BY DEF ExportPage, From, Rank
<1> SUFFICES ASSUME PinMatches(export), page # {},
                    export' = [export EXCEPT !.out = @ \o Lines(page),
                                             !.left = @ - Cardinality(page),
                                             !.start = Max(page) + 1]
             PROVE  /\ export' = [export EXCEPT !.out = export'.out, !.left = export'.left,
                                                !.start = export'.start]
                    /\ export'.start \in Nat /\ export'.left \in Nat /\ export'.out \in Seq(Nat)
                    /\ export'.left = Cardinality(From(export'.start))
                    /\ export'.out = Lines(Before(export'.start))
  BY <1>1, <1>2
<1>3. /\ export \in [on : BOOLEAN, rev : Nat, mrev : Nat, left : Nat, start : Nat, out : Seq(Nat)]
      /\ export.left = Cardinality(from) /\ export.out = Lines(Before(export.start))
  BY <1>1 DEF ExportInv
<1>4. export.start \in Nat /\ export.out \in Seq(Nat) BY <1>3
<1> DEFINE s == export.start
<1>5. page = {l \in From(s) : Rank(From(s), l) < SaveBatch} OBVIOUS
<1> HIDE DEF page
<1>6. /\ Max(page) + 1 \in Nat /\ Lines(page) \in Seq(Nat)
      /\ Cardinality(From(Max(page) + 1)) \in Nat
      /\ Cardinality(From(Max(page) + 1)) = Cardinality(From(s)) - Cardinality(page)
      /\ Lines(Before(Max(page) + 1)) = Lines(Before(s)) \o Lines(page)
  <2>1. s \in Nat BY <1>4
  <2> HIDE DEF s, from
  <2> QED BY <1>5, <2>1, PageReads
<1> DEFINE u == Max(page) + 1
           r == export.left - Cardinality(page)
           o == export.out \o Lines(page)
<1>7. u \in Nat /\ r \in Nat /\ r = Cardinality(From(u)) /\ o = Lines(Before(u)) BY <1>3, <1>6
<1>8. o \in Seq(Nat) BY <1>4, <1>6
<1>9. export' = [export EXCEPT !.out = o, !.left = r, !.start = u] OBVIOUS
<1> HIDE DEF o, r, u, from, s
<1>10. export'.out = o /\ export'.left = r /\ export'.start = u BY <1>3, <1>9
<1> QED BY <1>7, <1>8, <1>9, <1>10

LEMMA ExportStep == Core /\ ExportInv /\ [MarkNext]_markVars => ExportInv'
<1> SUFFICES ASSUME Core, ExportInv, [MarkNext]_markVars PROVE ExportInv' OBVIOUS
<1> DEFINE Record == [on : BOOLEAN, rev : Nat, mrev : Nat, left : Nat, start : Nat, out : Seq(Nat)]
<1>1. /\ marks \in SUBSET Nat /\ IsFiniteSet(marks)
      /\ \A l \in marks : text[l + 1] \in Nat /\ rev \in Nat /\ mrev \in Nat
  BY MarksFacts
<1>0. rev \in Nat /\ mrev \in Nat BY MarksFacts
<1>2. export \in Record BY DEF ExportInv
<1>3. ASSUME export' = NoExport PROVE ExportInv'
  <2>1. NoExport \in Record /\ ~NoExport.on /\ NoExport.left = 0 BY DEF NoExport
  <2> QED BY <1>3, <2>1 DEF ExportInv
<1>4. ASSUME export' = export, rev' \in Nat, mrev' \in Nat, rev <= rev', mrev <= mrev',
             rev' = rev /\ mrev' = mrev => text' = text /\ marks' = marks
      PROVE  ExportInv'
  <2>1. export'.on => export'.rev <= rev' /\ export'.mrev <= mrev'
    <3> SUFFICES ASSUME export.on PROVE export.rev <= rev' /\ export.mrev <= mrev' BY <1>4
    <3>1. export.rev <= rev /\ export.mrev <= mrev BY DEF ExportInv
    <3>2. export.rev \in Nat /\ export.mrev \in Nat BY <1>2
    <3> QED BY <1>0, <1>4, <3>1, <3>2
  <2>2. ASSUME export.on, export.rev = rev', export.mrev = mrev'
        PROVE  /\ export.left = Cardinality(From(export.start))'
               /\ export.out = Lines(Before(export.start))'
    <3>1. export.rev <= rev /\ export.mrev <= mrev BY <2>2 DEF ExportInv
    <3>2. rev' = rev /\ mrev' = mrev BY <1>0, <1>4, <2>2, <3>1
    <3>3. text' = text /\ marks' = marks BY <1>4, <3>2
    <3>4. export.left = Cardinality(From(export.start)) /\ export.out = Lines(Before(export.start))
      BY <2>2, <3>2 DEF ExportInv, PinMatches
    <3> QED BY <1>4, <3>3, <3>4 DEF From, Before, Lines
  <2> QED BY <1>4, <2>1, <2>2 DEF ExportInv, PinMatches
<1>5. CASE ExportStarts
  <2>1. export' = [on |-> TRUE, rev |-> rev, mrev |-> mrev, left |-> Cardinality(marks),
                   start |-> 0, out |-> <<>>]
        /\ rev' = rev /\ mrev' = mrev /\ text' = text /\ marks' = marks
    BY <1>5 DEF ExportStarts, docVars, mkVars
  <2>2. From(0) = marks /\ Before(0) = {}
    <3>1. \A l \in marks : l >= 0 /\ ~(l < 0) BY <1>1
    <3> QED BY <3>1 DEF From, Before
  <2>3. Lines({}) = <<>>
    <3>1. Cardinality({}) = 0 BY FS_EmptySet
    <3> QED BY <3>1 DEF Lines
  <2>4. Cardinality(marks) \in Nat BY <1>1, FS_CardinalityType
  <2>5. export' \in Record BY <1>0, <2>1, <2>4
  <2>6. /\ export'.left = Cardinality(From(0)) /\ export'.out = Lines(Before(0))
        /\ export'.start = 0 /\ export'.on /\ export'.rev = rev /\ export'.mrev = mrev
    BY <2>1, <2>2, <2>3
  <2>7. From(0)' = From(0) /\ Lines(Before(0))' = Lines(Before(0)) BY <2>1 DEF From, Before, Lines
  <2> QED BY <1>0, <2>1, <2>5, <2>6, <2>7 DEF ExportInv
<1>6. CASE ExportPage
  <2>1. rev' = rev /\ mrev' = mrev /\ text' = text /\ marks' = marks
    BY <1>6 DEF ExportPage, docVars, mkVars
  <2>2. CASE export' = NoExport BY <1>3, <2>2
  <2>3. CASE /\ export.on /\ PinMatches(export)
             /\ export' = [export EXCEPT !.out = export'.out, !.left = export'.left,
                                         !.start = export'.start]
             /\ export'.start \in Nat /\ export'.left \in Nat /\ export'.out \in Seq(Nat)
             /\ export'.left = Cardinality(From(export'.start))
             /\ export'.out = Lines(Before(export'.start))
    <3> DEFINE o == export'.out
               r == export'.left
               u == export'.start
    <3>1. export' = [export EXCEPT !.out = o, !.left = r, !.start = u] BY <2>3
    <3>2. o \in Seq(Nat) /\ r \in Nat /\ u \in Nat BY <2>3
    <3> HIDE DEF o, r, u
    <3>3. export' \in Record /\ export'.on = export.on /\ export'.rev = export.rev /\ export'.mrev = export.mrev
      BY <1>2, <3>1, <3>2
    <3>4. export.rev <= rev /\ export.mrev <= mrev BY <2>3 DEF ExportInv
    <3>5. /\ Cardinality(From(export'.start)) = Cardinality({l \in marks' : l >= export'.start})
          /\ Lines(Before(export'.start)) = Lines(Before(export.start))'
      BY <2>1 DEF From, Before, Lines
    <3>6. Cardinality({l \in marks' : l >= export'.start}) = Cardinality(From(export.start))'
      BY DEF From
    <3> QED BY <2>1, <2>3, <3>3, <3>4, <3>5, <3>6 DEF ExportInv
  <2> QED BY <1>6, <2>2, <2>3, PageStep
<1>7. CASE ExportEnds BY <1>3, <1>7 DEF ExportEnds
<1>8. CASE UNCHANGED markVars
  <2>1. export' = export /\ rev' = rev /\ mrev' = mrev /\ text' = text /\ marks' = marks
    BY <1>8 DEF markVars, docVars, mkVars
  <2> QED BY <1>0, <1>4, <2>1
<1>9. CASE MarkNext /\ export' = export BY <1>4, <1>9, Pinned
<1>10. MarkNext => export' = export \/ ExportStarts \/ ExportPage \/ ExportEnds
  BY DEF MarkNext, EditFails, EditIsNoOp, Edit, Undo, Redo, Toggle, AddLines, Clear
<1> QED BY <1>5, <1>6, <1>7, <1>8, <1>9, <1>10

THEOREM MarkInvariance == MarkSpec => []MarkIInv
<1>1. MarkInit => MarkIInv
  <2>1. MarkInit => ExportInv BY DEF MarkInit, ExportInv, NoExport
  <2> QED BY <2>1, CoreInit DEF MarkIInv
<1>2. MarkIInv /\ [MarkNext]_markVars => MarkIInv' BY CoreStep, ExportStep DEF MarkIInv
<1> QED BY <1>1, <1>2, PTL DEF MarkSpec

\* Every variable of Markers has its type, the stacks hold records, and the
\* markers lie in the text.
THEOREM MarkTypeCorrect == MarkSpec => []MarkTypeOK
<1>1. MarkIInv => MarkTypeOK
  <2> SUFFICES ASSUME MarkIInv PROVE MarkTypeOK OBVIOUS
  <2>1. PICK g, p, u, v : Follows(g, p, u, v) BY DEF MarkIInv, Core
  <2>2. mundo \in Seq(MarkRecords) /\ mredo \in Seq(MarkRecords)
    <3>1. MarkRecords = Seq(Transforms) BY DEF MarkRecords, Transforms, Edits
    <3> QED BY <2>1, <3>1 DEF Follows, Behind, Ahead
  <2>3. marks \subseteq 0 .. MaxLines - 1 BY MarksFacts DEF MarkIInv
  <2> QED BY <2>2, <2>3 DEF MarkTypeOK, MarkIInv, Core, Bounded, ExportInv
<1> QED BY <1>1, MarkInvariance, PTL

\* write_markers_to_file writes the lines marked when it reads the last page,
\* in order and each once, though it takes the lock anew for every page.
THEOREM ExportsAreViews == MarkSpec => ExportIsOneView
<1> DEFINE A == export.left > 0 /\ export'.on /\ export'.left = 0 => export'.out = Lines(marks)
<1>1. MarkIInv /\ [MarkNext]_markVars => [A]_markVars
  <2> SUFFICES ASSUME MarkIInv, [MarkNext]_markVars,
                      export.left > 0, export'.on, export'.left = 0
               PROVE  export'.out = Lines(marks)
    OBVIOUS
  <2>1. Core /\ ExportInv BY DEF MarkIInv
  <2>2. export' # export OBVIOUS
  <2>3. ~ExportStarts
    <3>1. export.on BY <2>1 DEF ExportInv
    <3> QED BY <3>1 DEF ExportStarts
  <2>4. ~ExportEnds BY DEF ExportEnds, NoExport
  <2>5. ExportPage
    BY <2>2, <2>3, <2>4 DEF MarkNext, EditFails, EditIsNoOp, Edit, Undo, Redo, Toggle, AddLines,
       Clear, markVars
  <2>6. export' # NoExport BY DEF NoExport
  <2>7. /\ export'.start \in Nat /\ export'.left = Cardinality(From(export'.start))
        /\ export'.out = Lines(Before(export'.start))
    BY <2>1, <2>5, <2>6, PageStep
  <2> DEFINE s == export'.start
  <2>8. s \in Nat /\ Cardinality(From(s)) = 0 /\ export'.out = Lines(Before(s)) BY <2>7
  <2> HIDE DEF s
  <2>9. From(s) = {}
    <3>1. IsFiniteSet(marks) /\ From(s) \subseteq marks BY <2>1, MarksFacts DEF From
    <3>2. IsFiniteSet(From(s)) BY <3>1, FS_Subset
    <3> QED BY <2>8, <3>2, FS_EmptySet
  <2>10. Before(s) = marks
    <3>1. \A l \in marks : l < s
      <4> TAKE l \in marks
      <4>1. l \in Nat BY <2>1, MarksFacts
      <4>2. ~(l >= s) BY <2>9 DEF From
      <4> QED BY <2>8, <4>1, <4>2
    <3> QED BY <3>1 DEF Before
  <2> QED BY <2>8, <2>10
<1>2. MarkSpec => [][MarkNext]_markVars BY DEF MarkSpec
<1> QED BY <1>1, <1>2, MarkInvariance, PTL DEF ExportIsOneView
=============================================================================
