----------------------------- MODULE Operations -----------------------------
(***************************************************************************)
(* Long operations of the server (serve/ops, serve/actions): a request      *)
(* materializes its input, runs a child process under a timeout and a       *)
(* cancel, and cleans up.  Batch operations run this binary again (worker); *)
(* an external action runs any program.  A search and an action that is     *)
(* given a snapshot share one dirty view, which a cache keeps for the next  *)
(* reader and which goes with the last guard of it.  Updates replace the    *)
(* binary, the client may hang up, the server may die and start again.      *)
(***************************************************************************)
EXTENDS Naturals, FiniteSets

CONSTANTS
    Ops,          \* the operations requested, each with its own fresh id
    OpKinds       \* what they may be: see the kinds below

VARIABLES
    job,          \* kind, handler position and answer of each request
    registry,     \* artifact_ops: the ids that status and cancel can find
    op,           \* ArtifactOperation: canceled and done
    watch,        \* where wait_for_cancel is, and whether it missed a wake-up
    child,        \* the child process of each request
    pipe,         \* whether some process still holds its output pipes
    target,       \* the artifact: "old", "part" or "new"
    scratch,      \* private directories: owner process, request, purpose
    holds,        \* the guards of directories in each request's frame
    cache,        \* the guard in find_snapshot, if there is one
    others,       \* those of finds, analyses and tasks whose request is over
    pid, alive,   \* this server's process, and the processes that live
    installed     \* the build under the executable's path

dirVars == <<scratch, holds, cache, others>>
jobVars == <<job, registry, op, watch, child, pipe, target, dirVars>>
hostVars == <<pid, alive, installed>>
opVars == <<jobVars, hostVars>>

Sibling == 9                      \* another window's process
Version == pid                    \* a server runs the build it was started from
Answers == {"none", "ok", "failed", "timeout", "canceled", "restart", "unlocated", "dropped",
            "lost"}
Handler == {"start", "input", "write", "select", "copy", "plan", "spawn", "run", "drain",
            "tidy", "done"}
Jobs == [kind : OpKinds, pc : Handler, res : Answers]

In(r, pc) == job[r].pc = pc
To(r, pc) == job' = [job EXCEPT ![r].pc = pc]
Answer(r, pc, a) == job' = [job EXCEPT ![r].pc = pc, ![r].res = a]

\* The kinds: sort spills, a grep refuses a target that is there, a search
\* writes none and has no id; "artifact" is any other rewrite of the file, or
\* the parts of a split, "action" an external program, "snapshot" one that is
\* given a snapshot of the text.
Spills(r) == job[r].kind = "sort"
Refuses(r) == job[r].kind \in {"grep", "sort", "action", "snapshot"}
Tracked(r) == job[r].kind # "search"
Writes(r) == job[r].kind # "search"
Worker(r) == job[r].kind \notin {"action", "snapshot"}
UsesView(r) == job[r].kind \in {"search", "snapshot"}

Dir(r, what) == [owner |-> pid, r |-> r, what |-> what]

-----------------------------------------------------------------------------
(* Who keeps a private directory.                                          *)

\* The guards there are: each is an Arc of a WorkerInput, or its only owner.
Held == cache \cup others \cup UNION {holds[s] : s \in Ops}

\* Mutant: a directory goes with the first guard that is dropped.
FreedAtOnce(gone) == scratch \ gone

\* Of the directories whose guards are dropped, those go that nobody holds.
Freed(gone) == scratch \ (gone \ Held')

Given(r, what) ==
    /\ scratch' = scratch \cup {Dir(r, what)}
    /\ holds' = [holds EXCEPT ![r] = @ \cup {Dir(r, what)}]

\* The handler's frame is gone, with its entry in the registry.
Over(r, a) ==
    /\ Answer(r, "done", a)
    /\ registry' = registry \ {r}
    /\ holds' = [holds EXCEPT ![r] = {}]

\* A find, a link or an analysis takes the cached view, and lets go of it; a
\* task that outlived its request ends, and its result is dropped.
Pins ==
    /\ cache # {}
    /\ others' = others \cup cache
    /\ UNCHANGED <<job, registry, op, watch, child, pipe, target, scratch, holds, cache, hostVars>>

LetGo(d) ==
    /\ others' = others \ {d}
    /\ UNCHANGED <<job, registry, op, watch, child, pipe, target, holds, cache, hostVars>>
    /\ scratch' = Freed({d})

\* invalidate_dirty_snapshot: a tab, a save, a reload, a clean session; and a
\* reader that finds the cached view stale, or replaces it by its own.
Invalidate ==
    /\ cache # {}
    /\ cache' = {}
    /\ UNCHANGED <<job, registry, op, watch, child, pipe, target, holds, others, hostVars>>
    /\ scratch' = Freed(cache)

-----------------------------------------------------------------------------
(* One request.                                                            *)

\* An action is tracked before its input is made, a worker when it is spawned.
Request(r) ==
    /\ In(r, "start")
    /\ To(r, IF Worker(r) \/ UsesView(r) THEN "input" ELSE "select")
    /\ registry' = IF Worker(r) THEN registry ELSE registry \cup {r}
    /\ UNCHANGED <<op, watch, child, pipe, target, dirVars, hostVars>>

\* dirty_aware_input: a task writes the unsaved edits, if there are any, to a
\* private directory.
Materialize(r) ==
    /\ In(r, "input") /\ ~UsesView(r)
    /\ To(r, "write")
    /\ \/ UNCHANGED <<scratch, holds>>
       \/ Given(r, "input")
    /\ UNCHANGED <<registry, op, watch, child, pipe, target, cache, others, hostVars>>

\* dirty_view: a clean session drops the cached view and needs none; a view
\* of this revision is shared; a stale one is dropped and a task builds anew.
PinView(r) ==
    /\ In(r, "input") /\ UsesView(r)
    /\ UNCHANGED <<registry, op, watch, child, pipe, target, others, hostVars>>
    /\ LET ready == To(r, IF Worker(r) THEN "plan" ELSE "select") IN
       \/ ready /\ cache' = {} /\ UNCHANGED holds /\ scratch' = Freed(cache)
       \/ /\ cache # {} /\ ready
          /\ holds' = [holds EXCEPT ![r] = cache]
          /\ UNCHANGED <<cache, scratch>>
       \/ /\ To(r, "write") /\ cache' = {}
          /\ holds' = [holds EXCEPT ![r] = {Dir(r, "view")}]
          /\ scratch' = Freed(cache) \cup {Dir(r, "view")}

\* The task is done; store_dirty_snapshot replaces what another reader stored.
Written(r) ==
    /\ In(r, "write")
    /\ To(r, IF Worker(r) THEN "plan" ELSE "select")
    /\ cache' = IF UsesView(r) THEN holds[r] ELSE cache
    /\ UNCHANGED <<registry, op, watch, child, pipe, target, holds, others, hostVars>>
    /\ scratch' = Freed(cache)

\* An action is given the selection in a file, if it asks for it.
Select(r) ==
    /\ In(r, "select")
    /\ \/ To(r, "plan") /\ UNCHANGED <<scratch, holds>>
       \/ To(r, "copy") /\ Given(r, "selection")
    /\ UNCHANGED <<registry, op, watch, child, pipe, target, cache, others, hostVars>>

Copied(r) ==
    /\ In(r, "copy")
    /\ To(r, "plan")
    /\ UNCHANGED <<registry, op, watch, child, pipe, target, dirVars, hostVars>>

\* The early returns: no document, a failed write, a target that is there, an
\* argument that does not expand.
GivesUp(r) ==
    /\ \/ job[r].pc \in {"input", "write", "select", "copy"}
       \/ In(r, "plan") /\ Refuses(r)
    /\ Over(r, "failed")
    /\ UNCHANGED <<op, watch, child, pipe, target, cache, others, hostVars>>
    /\ scratch' = Freed(holds[r])

\* SpawnBlocked: the system never said where this executable lies, or it was
\* replaced.
Blocked == {"unlocated"} \cup IF installed = Version THEN {} ELSE {"restart"}

\* worker_command may refuse; sort has made its spill directory by then.
Plan(r) ==
    /\ In(r, "plan")
    /\ UNCHANGED <<op, watch, child, pipe, target, cache, others, hostVars>>
    /\ LET spill == IF Spills(r) THEN {Dir(r, "spill")} ELSE {} IN
       \/ /\ Worker(r) => installed = Version
          /\ To(r, "spawn") /\ UNCHANGED <<registry, holds>>
          /\ scratch' = scratch \cup spill
       \/ /\ Worker(r)
          /\ \E why \in Blocked : Over(r, why)
          /\ scratch' = Freed(holds[r]) \cup spill

\* tracked_operation, then the spawn; a worker of another build leaves at once.
Spawn(r) ==
    /\ In(r, "spawn")
    /\ \/ /\ To(r, "run")
          /\ registry' = IF Tracked(r) THEN registry \cup {r} ELSE registry
          /\ child' = [child EXCEPT ![r] =
                IF Worker(r) /\ installed # Version THEN "mismatch" ELSE "running"]
       \/ Answer(r, "tidy", "failed") /\ registry' = registry \ {r} /\ UNCHANGED child
    /\ UNCHANGED <<op, watch, pipe, target, dirVars, hostVars>>

\* wait_for_cancel reads the flag, and only then starts to listen.
Look(r) ==
    /\ In(r, "run") /\ watch[r].at = "load"
    /\ watch' = [watch EXCEPT ![r].at = IF op[r].canceled THEN "hit" ELSE "arm"]
    /\ UNCHANGED <<job, registry, op, child, pipe, target, dirVars, hostVars>>

Listen(r) ==
    /\ In(r, "run") /\ watch[r].at = "arm"
    /\ watch' = [watch EXCEPT ![r].at = "parked"]
    /\ UNCHANGED <<job, registry, op, child, pipe, target, dirVars, hostVars>>

\* api_operation_cancel for an id that is still found; notify_waiters wakes
\* those who listen, and nobody later.
Cancel(r) ==
    /\ r \in registry
    /\ op' = [op EXCEPT ![r].canceled = TRUE]
    /\ watch' = [watch EXCEPT ![r] =
          [at |-> IF @.at = "parked" THEN "load" ELSE @.at, missed |-> @.missed \/ @.at = "arm"]]
    /\ UNCHANGED <<job, registry, child, pipe, target, dirVars, hostVars>>

Exited(r) == child[r] \in {"ok", "failed", "mismatch"}

\* A killed action dies with its process group, a killed worker alone.
Killed(r) ==
    /\ child' = [child EXCEPT ![r] = IF @ = "running" THEN "killed" ELSE @]
    /\ pipe' = [pipe EXCEPT ![r] = @ /\ Worker(r)]

\* Mutant: the output is read, the exit status is not.
WaitedBlind(r) ==
    /\ In(r, "run") /\ Exited(r)
    /\ Answer(r, "drain", IF child[r] = "mismatch" THEN "restart" ELSE "ok")
    /\ UNCHANGED <<registry, op, watch, child, pipe, target, dirVars, hostVars>>

\* The select of supervise_worker and of api_external_action_run.
Waited(r) ==
    /\ In(r, "run") /\ Exited(r)
    /\ Answer(r, "drain", CASE child[r] = "ok" -> "ok"
                            [] child[r] = "mismatch" -> "restart"
                            [] OTHER -> "failed")
    /\ UNCHANGED <<registry, op, watch, child, pipe, target, dirVars, hostVars>>

\* Mutant: a worker that timed out is not killed.
TimesOutGently(r) ==
    /\ In(r, "run")
    /\ Answer(r, "drain", "timeout")
    /\ UNCHANGED <<registry, op, watch, child, pipe, target, dirVars, hostVars>>

TimesOut(r) ==
    /\ In(r, "run")
    /\ Answer(r, "drain", "timeout")
    /\ Killed(r)
    /\ UNCHANGED <<registry, op, watch, target, dirVars, hostVars>>

Canceled(r) ==
    /\ In(r, "run") /\ watch[r].at = "hit"
    /\ Answer(r, "drain", "canceled")
    /\ op' = [op EXCEPT ![r] = [canceled |-> TRUE, done |-> TRUE]]
    /\ Killed(r)
    /\ UNCHANGED <<registry, watch, target, dirVars, hostVars>>

\* The reader tasks end with the pipes; then the operation leaves the registry.
Drain(r) ==
    /\ In(r, "drain") /\ child[r] # "running" /\ ~pipe[r]
    /\ To(r, "tidy")
    /\ op' = [op EXCEPT ![r].done = @ \/ job[r].res # "timeout"]
    /\ registry' = registry \ {r}
    /\ UNCHANGED <<watch, child, pipe, target, dirVars, hostVars>>

\* Mutant: the spill directory is left to the end of the server.
TidyInput(r) ==
    /\ In(r, "tidy")
    /\ Over(r, job[r].res)
    /\ UNCHANGED <<op, watch, child, pipe, target, cache, others, hostVars>>
    /\ scratch' = Freed(holds[r])

\* The spill directory goes, then the guards of the frame.
Tidy(r) ==
    /\ In(r, "tidy")
    /\ Over(r, job[r].res)
    /\ UNCHANGED <<op, watch, child, pipe, target, cache, others, hostVars>>
    /\ scratch' = Freed(holds[r]) \ {Dir(r, "spill")}

\* The client hangs up: the handler is dropped where it awaits, with its
\* guards; kill_on_drop reaches the child alone.  A task that writes an input
\* keeps its guard; one that writes a selection does not, and a file it
\* creates just then keeps the directory from being removed.
HangUp(r) ==
    /\ job[r].pc \in {"write", "copy", "run", "drain", "tidy"}
    /\ Over(r, "dropped")
    /\ child' = [child EXCEPT ![r] = IF @ = "running" THEN "killed" ELSE @]
    /\ others' = IF In(r, "write") THEN others \cup holds[r] ELSE others
    /\ UNCHANGED <<op, watch, pipe, target, cache, hostVars>>
    /\ \/ scratch' = Freed(holds[r])
       \/ In(r, "copy") /\ scratch' = Freed(holds[r] \ {Dir(r, "selection")})

-----------------------------------------------------------------------------
(* Children and the machine.                                               *)

\* The child writes, may leave a process that keeps its pipes, and ends.
ChildWrites(r) ==
    /\ child[r] = "running" /\ Writes(r) /\ target[r] = "old"
    /\ target' = [target EXCEPT ![r] = "part"]
    /\ UNCHANGED <<job, registry, op, watch, child, pipe, dirVars, hostVars>>

ChildForks(r) ==
    /\ child[r] = "running" /\ ~Worker(r) /\ ~pipe[r]
    /\ pipe' = [pipe EXCEPT ![r] = TRUE]
    /\ UNCHANGED <<job, registry, op, watch, child, target, dirVars, hostVars>>

ChildExits(r) ==
    /\ child[r] = "running"
    /\ \/ child' = [child EXCEPT ![r] = "ok"]
          /\ target' = [target EXCEPT ![r] = IF Writes(r) THEN "new" ELSE @]
       \/ child' = [child EXCEPT ![r] = "failed"] /\ UNCHANGED target
    /\ UNCHANGED <<job, registry, op, watch, pipe, dirVars, hostVars>>

\* ayame update: one newer build.
Update ==
    /\ installed = 0
    /\ installed' = 1
    /\ UNCHANGED <<jobVars, pid, alive>>

Crash ==
    /\ pid \in alive
    /\ alive' = alive \ {pid}
    /\ job' = [r \in Ops |-> IF job[r].pc \in {"start", "done"} THEN job[r]
                             ELSE [job[r] EXCEPT !.pc = "done", !.res = "lost"]]
    /\ registry' = {}
    /\ holds' = [r \in Ops |-> {}] /\ cache' = {} /\ others' = {}
    /\ UNCHANGED <<op, watch, child, pipe, target, scratch, pid, installed>>

SiblingEnds ==
    /\ Sibling \in alive
    /\ alive' = alive \ {Sibling}
    /\ UNCHANGED <<jobVars, pid, installed>>

\* sweep_stale_scratch at the start of a process.
Swept(living, me) == {d \in scratch : d.owner \in living}

Restart ==
    /\ pid \notin alive /\ pid = 0 /\ installed = 1
    /\ pid' = 1 /\ alive' = alive \cup {1}
    /\ scratch' = Swept(alive', 1)
    /\ UNCHANGED <<job, registry, op, watch, child, pipe, target, holds, cache, others, installed>>

Up == pid \in alive

Handles(r) ==
    Up /\ (\/ Materialize(r) \/ PinView(r) \/ Written(r) \/ Select(r) \/ Copied(r) \/ GivesUp(r)
           \/ Plan(r) \/ Spawn(r) \/ Look(r) \/ Listen(r) \/ Waited(r) \/ TimesOut(r)
           \/ Canceled(r) \/ Drain(r) \/ Tidy(r))

OpNext ==
    \/ \E r \in Ops :
        \/ Up /\ (Request(r) \/ Cancel(r) \/ HangUp(r))
        \/ Handles(r)
        \/ ChildWrites(r) \/ ChildForks(r) \/ ChildExits(r)
    \/ Up /\ (Pins \/ Invalidate \/ \E d \in others : LetGo(d))
    \/ Update \/ Crash \/ SiblingEnds \/ Restart

OpInit ==
    /\ job \in [Ops -> {[kind |-> k, pc |-> "start", res |-> "none"] : k \in OpKinds}]
    /\ registry = {}
    /\ op = [r \in Ops |-> [canceled |-> FALSE, done |-> FALSE]]
    /\ watch = [r \in Ops |-> [at |-> "load", missed |-> FALSE]]
    /\ child = [r \in Ops |-> "none"]
    /\ pipe = [r \in Ops |-> FALSE]
    /\ target = [r \in Ops |-> "old"]
    /\ scratch = {[owner |-> Sibling, r |-> r, what |-> "input"] : r \in Ops}
    /\ holds = [r \in Ops |-> {}] /\ cache = {} /\ others = {}
    /\ pid = 0 /\ alive = {0, Sibling} /\ installed = 0

OpSpec == OpInit /\ [][OpNext]_opVars /\ \A r \in Ops : WF_opVars(Handles(r))

-----------------------------------------------------------------------------
(* Properties.                                                             *)

Dirs == [owner : {0, 1, Sibling}, r : Ops, what : {"input", "view", "selection", "spill"}]

OpTypeOK ==
    /\ job \in [Ops -> Jobs]
    /\ registry \subseteq Ops
    /\ op \in [Ops -> [canceled : BOOLEAN, done : BOOLEAN]]
    /\ watch \in [Ops -> [at : {"load", "arm", "parked", "hit"}, missed : BOOLEAN]]
    /\ child \in [Ops -> {"none", "running", "ok", "failed", "mismatch", "killed"}]
    /\ pipe \in [Ops -> BOOLEAN]
    /\ target \in [Ops -> {"old", "part", "new"}]
    /\ scratch \subseteq Dirs
    /\ holds \in [Ops -> SUBSET Dirs] /\ cache \subseteq Dirs /\ others \subseteq Dirs
    /\ pid \in {0, 1} /\ alive \subseteq {0, 1, Sibling} /\ installed \in {0, 1}

\* When a request is over, nothing of it is left: no entry that a poll or a
\* cancel could find, no running child, no private directory.  Left are the
\* view it made, as long as the cache or another reader holds it; the spill
\* directory of a sort that was refused or whose client hung up; the input of
\* one whose client hung up while a task wrote it, until that task ends, and
\* a selection a task was writing then; and what a process that died owned.
NothingLeft ==
    \A r \in Ops : In(r, "done") /\ job[r].res # "lost" =>
        /\ r \notin registry
        /\ child[r] # "running"
        /\ \A d \in scratch :
            d.r = r /\ d.owner # Sibling =>
                \/ d.what = "view" /\ (d \in Held \/ d.owner \notin alive)
                \/ d.what = "spill" /\ job[r].res \in {"dropped", "restart", "unlocated"}
                \/ /\ job[r].res = "dropped"
                   /\ \/ d.what = "selection"
                      \/ d.what = "input" /\ (d \in others \/ d.owner \notin alive)

\* What a request was given to read stays while its child runs, whichever
\* other reader of a shared view ends, is dropped or builds a newer one, and
\* whenever the cache lets go of it.
InputStays ==
    \A r \in Ops : In(r, "run") /\ child[r] = "running" => holds[r] \subseteq scratch

\* An answer tells what happened: success means a whole artifact by a worker
\* of this build, a refusal to run an untouched target, a cancel or timeout
\* that the child is gone.
AnswerIsTrue ==
    \A r \in Ops :
        /\ job[r].res = "ok" => child[r] = "ok" /\ (Writes(r) => target[r] = "new")
        /\ job[r].res \in {"restart", "unlocated"} => target[r] = "old"
        /\ job[r].res \in {"canceled", "timeout"} => child[r] # "running"
        /\ job[r].res = "canceled" => op[r].canceled

\* Every worker request of a server that stays up is answered, whatever its
\* child does.
WorkersEnd ==
    \A r \in Ops :
        Worker(r) /\ ~In(r, "start") ~> In(r, "done") \/ ~Up

\* The same of an external action, which has a timeout and a cancel.
ActionsEnd ==
    \A r \in Ops : ~Worker(r) /\ ~In(r, "start") ~> In(r, "done") \/ ~Up
=============================================================================
