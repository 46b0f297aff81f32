----------------------------- MODULE Workspace -----------------------------
(***************************************************************************)
(* The tabs of one server and the requests that work on them (serve/state,  *)
(* serve/edit, serve/ops).  One tab is live, the others are parked.  A      *)
(* request runs in steps: what it does under the workspace lock, and what   *)
(* it does off the lock between two awaits, are each one step.  Some steps  *)
(* hold the transition lock; edits never take it.                           *)
(*                                                                         *)
(* A content stands for the decoded text of a file or of a view.  A file    *)
(* is an identity and a content: another program replaces it or appends to  *)
(* it.  A crash log holds the file it was started for, the content its      *)
(* anchors count in and the view a replay would give.  Undo is an edit      *)
(* here (EditHistory, CrashLog), aside files are SaveSwap's.                *)
(***************************************************************************)
EXTENDS Naturals, Sequences, SequencesExt

CONSTANTS
    Paths,        \* files of the machine
    First,        \* the file given on the command line
    Requests,     \* requests served, each of them once
    Kinds,        \* what each request may ask
    None,
    MaxText       \* bound: contents typed or written

ASSUME PathsAssumption == First \in Paths
ASSUME BoundAssumption == MaxText \in Nat

Contents == [text : Nat \cup Paths \cup {None}, grown : BOOLEAN, sorted : BOOLEAN]
Files == [ino : Nat, content : Contents]
Docs == [h : Requests \cup {None}, path : Paths, ino : Nat, content : Contents]
Logs == [on : Files, base : Contents, view : Contents \cup {None}]
Snapshots == [h : Requests \cup {None}, rev : Nat, view : Contents]
Sessions == [doc : Docs \cup {None}, view : Contents \cup {None}, saved : Contents \cup {None},
             rev : Nat, wal : BOOLEAN, rec : BOOLEAN, base : Files \cup {None}]

ASSUME NoneAssumption ==
    None \notin Nat \cup Requests \cup Contents \cup Files \cup Docs \cup Logs \cup Snapshots

VARIABLES
    disk,         \* the file at each path
    log,          \* the crash log of each path
    made,         \* contents and file identities made so far
    live,         \* doc, edits, recoverable and disk_baseline of the live slot
    order,        \* TabList.order
    active,       \* TabList.active
    inactive,     \* TabList.inactive
    nextId,       \* TabList.next_id
    cache,        \* find_snapshot
    lock,         \* who holds transitions
    req           \* where each request is

files == <<disk, log, made>>
tabs == <<live, order, active, inactive, nextId>>
vars == <<files, tabs, cache, lock, req>>

-----------------------------------------------------------------------------
(* Contents, files, documents, sessions.                                   *)

\* f, and g where f says nothing.
Over(f, g) == [x \in DOMAIN f \cup DOMAIN g |-> IF x \in DOMAIN f THEN f[x] ELSE g[x]]

Plain(t) == [text |-> t, grown |-> FALSE, sorted |-> FALSE]
Sorted(c) == [c EXCEPT !.sorted = TRUE]
Grown(c) == [c EXCEPT !.grown = TRUE]

\* A document: its own identity (the Arc), its path, the file it mapped.
Doc(h, p, f) == [h |-> h, path |-> p, ino |-> f.ino, content |-> f.content]

\* A clean session over d; the baseline is a stat made when it is installed.
Session(d) == [doc |-> d, view |-> d.content, saved |-> d.content, rev |-> 0,
               wal |-> FALSE, rec |-> FALSE, base |-> disk[d.path]]

Empty == [doc |-> None, view |-> None, saved |-> None, rev |-> 0,
          wal |-> FALSE, rec |-> FALSE, base |-> None]

Dirty(s) == s.view # s.saved
HasEdits(s) == s.doc # None /\ s.view # s.doc.content
DiskChanged(s) == s.base # None /\ s.doc # None /\ disk[s.doc.path] # s.base

\* reload's set_doc and, when it resets the edits, their default.
Reset(s, d) == [Session(d) EXCEPT !.rec = s.rec]

Open == DOMAIN inactive \cup (IF active = None THEN {} ELSE {active})
Slot(t) == IF t = active THEN live ELSE inactive[t]

-----------------------------------------------------------------------------
(* Crash logs.                                                             *)

\* A fresh log has no record of a session without edits.
Header(s) == [on |-> disk[s.doc.path], base |-> s.doc.content,
              view |-> IF HasEdits(s) \/ Dirty(s) THEN s.view ELSE None]

Recoverable(p) == log[p] # None /\ log[p].on = disk[p] /\ log[p].view # None

\* wal_prepare_for_open leaves a clean log and deletes a stale one.
Prepared(p) == IF log[p] # None /\ log[p].on # disk[p] THEN [log EXCEPT ![p] = None] ELSE log

Attaches(s) == s.doc # None /\ ~s.rec
Attached(s) == [s EXCEPT !.wal = IF Attaches(s) THEN TRUE ELSE @]
AttachedLog(s) == IF Attaches(s) THEN [log EXCEPT ![s.doc.path] = Header(s)] ELSE log

InUse(p, slots) == \E s \in slots : s.doc # None /\ s.doc.path = p

-----------------------------------------------------------------------------
(* Tabs.                                                                   *)

\* park_active: the inactive tabs once the live one has joined them.
Parked ==
    IF active # None /\ live.doc # None
    THEN Over([t \in {active} |-> [live EXCEPT !.wal = FALSE]], inactive)
    ELSE inactive

Without(f, t) == [u \in DOMAIN f \ {t} |-> f[u]]

TabWithPath(p) == {t \in ToSet(order) \cap Open : InUse(p, {Slot(t)})}

\* focus_tab for a tab of the order; install_tab_state of nothing is empty.
Focus(t) ==
    /\ cache' = None
    /\ IF active = t \/ t \notin ToSet(order)
       THEN UNCHANGED <<tabs, log>>
       ELSE LET s == IF t \in DOMAIN Parked THEN Parked[t] ELSE Empty IN
            /\ live' = Attached(s)
            /\ log' = AttachedLog(s)
            /\ active' = t
            /\ inactive' = Without(Parked, t)
            /\ UNCHANGED <<order, nextId>>

\* install_new_tab.
NewTab(d, rec) ==
    LET s == [Session(d) EXCEPT !.rec = rec] IN
    /\ cache' = None
    /\ inactive' = Parked
    /\ order' = Append(order, nextId)
    /\ active' = nextId
    /\ nextId' = nextId + 1
    /\ live' = Attached(s)
    /\ log' = AttachedLog(s)

Place(t) == CHOOSE j \in 1..Len(order) : order[j] = t
Rest(t) == RemoveAt(order, Place(t))

\* remove_tab_and_focus_neighbor; the slot that comes to life is attached.
Neighbor(t) ==
    IF Rest(t) = <<>> THEN None
    ELSE IF Place(t) <= Len(Rest(t)) THEN Rest(t)[Place(t)] ELSE Last(Rest(t))

Removed(t) ==
    /\ order' = Rest(t)
    /\ UNCHANGED nextId
    /\ IF t # active
       THEN inactive' = Without(inactive, t) /\ UNCHANGED <<live, active>>
       ELSE IF live.doc = None
       THEN UNCHANGED <<live, active, inactive>>
       ELSE LET n == Neighbor(t) IN
            /\ active' = n
            /\ inactive' = Without(inactive, n)
            /\ live' = IF n \in DOMAIN inactive THEN Attached(inactive[n]) ELSE Empty

\* The logs after the neighbor of a removed live tab has been attached.
RelitLog(t) ==
    IF t = active /\ live.doc # None /\ Neighbor(t) \in DOMAIN inactive
    THEN AttachedLog(inactive[Neighbor(t)]) ELSE log

-----------------------------------------------------------------------------
(* Requests.                                                               *)

At(r, pc) == req[r].pc = pc
Goto(r, f) == req' = [req EXCEPT ![r] = Over(f, @)]
Done(r) == req' = [req EXCEPT ![r] = [pc |-> "done", kind |-> @.kind]]

Locks(r) == lock = None /\ lock' = r
Unlocks(r) == lock = r /\ lock' = None
LockFree == lock = None /\ UNCHANGED lock

\* Mutant: the revision is not compared.
UnchangedDoc(r) == live.doc # None /\ live.doc.h = req[r].snap.doc.h

\* The same document and the same revision as when r looked.
Unchanged(r) == live.doc # None /\ live.doc.h = req[r].snap.doc.h /\ live.rev = req[r].snap.rev

Replace(p, c) ==
    /\ disk' = [disk EXCEPT ![p] = [ino |-> made + 1, content |-> c]]
    /\ made' = made + 1

Begin(r, k) == At(r, "start") /\ req[r].kind = k

\* api_open, api_new: a tab that has the path is focused, else the file is read.
OpenStart(r) ==
    /\ Begin(r, "open")
    /\ \E p \in Paths :
        IF TabWithPath(p) = {}
        THEN Goto(r, [pc |-> "load", path |-> p])
        ELSE \E t \in TabWithPath(p) : Goto(r, [pc |-> "focus", tab |-> t])
    /\ UNCHANGED <<files, tabs, cache, lock>>

OpenLoad(r) ==
    /\ At(r, "load") /\ req[r].kind = "open"
    /\ LET p == req[r].path IN
        /\ log' = Prepared(p)
        /\ Goto(r, [pc |-> "install", doc |-> Doc(r, p, disk[p]), rec |-> Recoverable(p),
                    swept |-> log[p] # Prepared(p)[p]])
    /\ UNCHANGED <<disk, made, tabs, cache, lock>>

OpenInstall(r) ==
    /\ At(r, "install")
    /\ LockFree
    /\ IF TabWithPath(req[r].path) # {}
       THEN \E t \in TabWithPath(req[r].path) : Focus(t)
       ELSE NewTab(req[r].doc, req[r].rec)
    /\ req' = [req EXCEPT ![r] = [pc |-> "done", kind |-> "open", path |-> @.path, swept |-> @.swept]]
    /\ UNCHANGED <<disk, made>>

Switch(r) ==
    /\ \/ At(r, "focus") /\ Focus(req[r].tab)
       \/ Begin(r, "switch") /\ \E t \in ToSet(order) : Focus(t)
    /\ LockFree
    /\ Done(r)
    /\ UNCHANGED <<disk, made>>

\* Move a tab before another one, or to the end.
Reorder(r) ==
    /\ Begin(r, "reorder")
    /\ LockFree
    /\ \E t \in ToSet(order), b \in ToSet(order) \cup {None} :
        order' = IF b = t THEN order
                 ELSE IF b = None THEN Append(Rest(t), t)
                 ELSE InsertAt(Rest(t), CHOOSE j \in 1..Len(Rest(t)) : Rest(t)[j] = b, t)
    /\ Done(r)
    /\ UNCHANGED <<files, live, active, inactive, nextId, cache>>

\* Mutant: another tab on the path does not keep the log.
DeadLogAlways(t, relit, slots) ==
    LET s == Slot(t) IN
    IF s.doc = None \/ s.rec THEN relit ELSE [relit EXCEPT ![s.doc.path] = None]

\* The log goes with the tab unless its recovery is undecided or another
\* open tab has the path.
DeadLog(t, relit, slots) ==
    LET s == Slot(t) IN
    IF s.doc = None \/ s.rec \/ InUse(s.doc.path, slots)
    THEN relit ELSE [relit EXCEPT ![s.doc.path] = None]

Close(r) ==
    /\ Begin(r, "close")
    /\ LockFree
    /\ cache' = None
    /\ \E t \in ToSet(order) :
        /\ Removed(t)
        /\ log' = IF t \in Open
                  THEN DeadLog(t, RelitLog(t), {Slot(u) : u \in Open \ {t}})
                  ELSE log
    /\ Done(r)
    /\ UNCHANGED <<disk, made>>

\* The tab leaves, its log stays for the window that adopts it.
Detach(r) ==
    /\ Begin(r, "detach")
    /\ LockFree
    /\ cache' = None
    /\ \E t \in ToSet(order) \cap Open :
        IF Dirty(Slot(t)) /\ ~Slot(t).wal /\ ~Slot(t).rec
        THEN UNCHANGED <<tabs, log>>
        ELSE Removed(t) /\ log' = RelitLog(t)
    /\ Done(r)
    /\ UNCHANGED <<disk, made>>

-----------------------------------------------------------------------------
(* Saves, sorts and reloads.                                               *)

Snapshot(r, more) == Goto(r, Over(more, [pc |-> "written", snap |-> live, path |-> live.doc.path]))

\* save_in_place_mode: phase 1 streams the snapshot to a stage.
SaveStart(r) ==
    /\ Begin(r, "save") /\ live.doc # None
    /\ \E force \in BOOLEAN :
        IF ~force /\ DiskChanged(live)
        THEN Done(r)
        ELSE Snapshot(r, [force |-> force])
    /\ UNCHANGED <<files, tabs, cache, lock>>

\* Phase 2 asks again with the transitions held.
SaveConfirm(r) ==
    /\ At(r, "written") /\ req[r].kind = "save"
    /\ IF Unchanged(r) /\ (req[r].force \/ ~DiskChanged(live))
       THEN Locks(r) /\ Goto(r, [pc |-> "swap"])
       ELSE LockFree /\ Done(r)
    /\ UNCHANGED <<files, tabs, cache>>

SaveSwap(r) ==
    /\ At(r, "swap") /\ req[r].kind = "save"
    /\ \/ Replace(req[r].path, req[r].snap.view) /\ Goto(r, [pc |-> "commit"]) /\ UNCHANGED lock
       \/ Unlocks(r) /\ Done(r) /\ UNCHANGED <<disk, made>>
    /\ UNCHANGED <<log, tabs, cache>>

\* commit_in_place_save: the snapshot is what is saved, the log restarts on it.
Committed(r) == [live EXCEPT !.saved = req[r].snap.view, !.base = disk[live.doc.path]]

SaveCommit(r) ==
    /\ At(r, "commit") /\ req[r].kind = "save"
    /\ live' = Committed(r)
    /\ log' = IF live.wal
              THEN [log EXCEPT ![live.doc.path] =
                      [on |-> disk[live.doc.path], base |-> req[r].snap.view,
                       view |-> IF live.view = req[r].snap.view THEN None ELSE live.view]]
              ELSE log
    /\ Unlocks(r) /\ Done(r)
    /\ UNCHANGED <<disk, made, order, active, inactive, nextId, cache>>

\* save_copy_mode and save_converted_mode with switch_to_saved: the snapshot is
\* written with no lock held, then the active tab is switched to it.
SaveAsStart(r) ==
    /\ Begin(r, "saveas") /\ live.doc # None
    /\ \E p \in Paths :
        IF p = live.doc.path /\ DiskChanged(live)
        THEN Done(r)
        ELSE Goto(r, [pc |-> "write", snap |-> live, path |-> p])
    /\ UNCHANGED <<files, tabs, cache, lock>>

SaveAsWrite(r) ==
    /\ At(r, "write")
    /\ Replace(req[r].path, req[r].snap.view)
    /\ Goto(r, [pc |-> "written"])
    /\ UNCHANGED <<log, tabs, cache, lock>>

SaveAsConfirm(r) ==
    /\ At(r, "written") /\ req[r].kind = "saveas"
    /\ IF Unchanged(r)
       THEN Locks(r) /\ Goto(r, [pc |-> "load"])
       ELSE LockFree /\ Done(r)
    /\ UNCHANGED <<files, tabs, cache>>

\* sort_save_in_place: the worker reads the view if it is dirty, else the file.
SortStart(r) ==
    /\ Begin(r, "sort") /\ live.doc # None
    /\ Snapshot(r, [out |-> None])
    /\ UNCHANGED <<files, tabs, cache, lock>>

SortRun(r) ==
    /\ At(r, "written") /\ req[r].kind = "sort" /\ req[r].out = None
    /\ LET s == req[r].snap IN
       Goto(r, [out |-> Sorted(IF Dirty(s) THEN s.view ELSE disk[s.doc.path].content)])
    /\ UNCHANGED <<files, tabs, cache, lock>>

\* detach_for_overwrite; the session stays, without a document.
SortDetach(r) ==
    /\ At(r, "written") /\ req[r].kind = "sort" /\ req[r].out # None
    /\ IF Unchanged(r)
       THEN Locks(r) /\ live' = [live EXCEPT !.doc = None, !.base = None] /\ Goto(r, [pc |-> "swap"])
       ELSE LockFree /\ UNCHANGED live /\ Done(r)
    /\ UNCHANGED <<files, order, active, inactive, nextId, cache>>

\* The replacement; mark_edits_saved when it worked.
SortReplace(r) ==
    /\ At(r, "swap") /\ req[r].kind = "sort"
    /\ \/ /\ Replace(req[r].path, req[r].out)
          /\ live' = [Empty EXCEPT !.rec = live.rec]
          /\ cache' = None
       \/ UNCHANGED <<disk, made, live, cache>>
    /\ Goto(r, [pc |-> "load"])
    /\ UNCHANGED <<log, order, active, inactive, nextId, lock>>

\* api_edit_revert and api_reopen_encoding.
RevertStart(r) ==
    /\ Begin(r, "revert") /\ live.doc # None
    /\ Locks(r)
    /\ Goto(r, [pc |-> "load", path |-> live.doc.path])
    /\ UNCHANGED <<files, tabs, cache>>

\* reload opens the file off the lock; what it read may not open at all.
Reload(r) ==
    /\ At(r, "load") /\ req[r].kind # "open"
    /\ \/ /\ Goto(r, [pc |-> "put", doc |-> Doc(r, req[r].path, disk[req[r].path])])
          /\ UNCHANGED lock
       \/ Unlocks(r) /\ Done(r)
    /\ UNCHANGED <<files, tabs, cache>>

\* The session reload installs: a failed sort keeps the edits, the rest start
\* from the file.
Reloaded(r) ==
    LET d == req[r].doc IN
    IF req[r].kind = "sort" /\ live.view # None
    THEN [live EXCEPT !.doc = d, !.base = disk[d.path]]
    ELSE Reset(live, d)

\* The log of the path a tab was saved away from.
OldPath(r) == IF req[r].kind = "saveas" THEN req[r].snap.doc.path ELSE req[r].path

ReloadPut(r) ==
    /\ At(r, "put")
    /\ IF req[r].kind = "saveas" /\ ~Unchanged(r)
       THEN UNCHANGED <<live, log, cache>>
       ELSE /\ live' = Attached(Reloaded(r))
            /\ log' = LET l == AttachedLog(Reloaded(r)) IN
                      IF OldPath(r) # req[r].path THEN [l EXCEPT ![OldPath(r)] = None] ELSE l
            /\ cache' = None
    /\ Unlocks(r) /\ Done(r)
    /\ UNCHANGED <<disk, made, order, active, inactive, nextId>>

-----------------------------------------------------------------------------
(* Recovery, tail follow, materialized views.                              *)

RecoverStart(r) ==
    /\ Begin(r, "recover") /\ live.rec /\ live.doc # None
    /\ Locks(r)
    /\ Goto(r, [pc |-> "replay", path |-> live.doc.path, snap |-> live])
    /\ UNCHANGED <<files, tabs, cache>>

\* discard: the log goes and logging starts from here.
Discarded(r) ==
    LET s == [live EXCEPT !.rec = FALSE] IN
    /\ At(r, "replay")
    /\ live' = Attached(s)
    /\ log' = [log EXCEPT ![req[r].path] = Header(s)]
    /\ Unlocks(r) /\ Done(r)
    /\ UNCHANGED <<disk, made, order, active, inactive, nextId, cache>>

\* Replay off the lock into a session of its own, and re-arm the log; a log
\* that is gone or does not fit the file ends the request.
Replay(r) ==
    /\ At(r, "replay")
    /\ LET p == req[r].path IN
       IF Recoverable(p)
       THEN /\ log' = [log EXCEPT ![p] = [@ EXCEPT !.on = disk[p], !.base = live.doc.content]]
            /\ Goto(r, [pc |-> "replayed", view |-> log[p].view])
            /\ UNCHANGED lock
       ELSE Unlocks(r) /\ Done(r) /\ UNCHANGED log
    /\ UNCHANGED <<disk, made, tabs, cache>>

RecoverInstall(r) ==
    /\ At(r, "replayed")
    /\ IF live.doc.h = req[r].snap.doc.h /\ live.rev = 0 /\ ~HasEdits(live)
       THEN /\ live' = [live EXCEPT !.rec = FALSE, !.view = req[r].view, !.rev = 1, !.wal = TRUE]
            /\ cache' = None
       ELSE UNCHANGED <<live, cache>>
    /\ Unlocks(r) /\ Done(r)
    /\ UNCHANGED <<files, order, active, inactive, nextId>>

\* poll_tail: look, map the grown file off the lock, install if nothing moved.
TailLook(r) ==
    /\ Begin(r, "tail") /\ live.doc # None
    /\ LET f == disk[live.doc.path] IN
       IF f.ino = live.doc.ino /\ f.content # live.doc.content /\ ~HasEdits(live)
       THEN Goto(r, [pc |-> "grown", snap |-> live, path |-> live.doc.path,
                     doc |-> Doc(r, live.doc.path, f)])
       ELSE Done(r)
    /\ UNCHANGED <<files, tabs, cache, lock>>

TailInstall(r) ==
    /\ At(r, "grown")
    /\ IF Unchanged(r) /\ ~HasEdits(live)
       THEN LET d == req[r].doc IN
            /\ live' = [live EXCEPT !.doc = d, !.base = disk[d.path],
                                    !.view = d.content, !.saved = d.content]
            /\ cache' = None
       ELSE UNCHANGED <<live, cache>>
    /\ Done(r)
    /\ UNCHANGED <<files, order, active, inactive, nextId, lock>>

\* Mutant: the snapshot's document is not compared.
HitRevision == cache # None /\ cache.rev = live.rev

\* cached_dirty_snapshot.
Hit == cache # None /\ cache.h = live.doc.h /\ cache.rev = live.rev

\* dirty_view: find, search and analysis read the view as the user sees it.
ViewLook(r) ==
    /\ Begin(r, "view") /\ live.doc # None
    /\ IF ~HasEdits(live) /\ ~Dirty(live)
       THEN cache' = None /\ Goto(r, [pc |-> "read", snap |-> live, seen |-> live.doc.content])
       ELSE IF Hit
       THEN UNCHANGED cache /\ Goto(r, [pc |-> "read", snap |-> live, seen |-> cache.view])
       ELSE cache' = None /\ Goto(r, [pc |-> "build", snap |-> live])
    /\ UNCHANGED <<files, tabs, lock>>

\* The last builder's snapshot stays.
ViewStore(r) ==
    /\ At(r, "build")
    /\ LET s == req[r].snap IN
        /\ cache' = [h |-> s.doc.h, rev |-> s.rev, view |-> s.view]
        /\ Goto(r, [pc |-> "read", seen |-> s.view])
    /\ UNCHANGED <<files, tabs, lock>>

-----------------------------------------------------------------------------
(* What takes no lock: typing, and other programs.                         *)

Edit ==
    /\ live.doc # None /\ made < MaxText
    /\ made' = made + 1
    /\ live' = [live EXCEPT !.view = Plain(made + 1), !.rev = @ + 1]
    /\ log' = IF live.wal /\ log[live.doc.path] # None
              THEN [log EXCEPT ![live.doc.path].view = Plain(made + 1)] ELSE log
    /\ UNCHANGED <<disk, order, active, inactive, nextId, cache, lock, req>>

OtherWrites(p) ==
    /\ made < MaxText
    /\ made' = made + 1
    /\ \/ disk' = [disk EXCEPT ![p] = [ino |-> made + 1, content |-> Plain(made + 1)]]
       \/ ~disk[p].content.grown /\ disk' = [disk EXCEPT ![p].content = Grown(@)]
    /\ UNCHANGED <<log, tabs, cache, lock, req>>

Outside == Edit \/ \E p \in Paths : OtherWrites(p)

Step(r) ==
    \/ OpenStart(r) \/ OpenLoad(r) \/ OpenInstall(r) \/ Switch(r) \/ Reorder(r)
    \/ Close(r) \/ Detach(r)
    \/ SaveStart(r) \/ SaveConfirm(r) \/ SaveSwap(r) \/ SaveCommit(r)
    \/ SaveAsStart(r) \/ SaveAsWrite(r) \/ SaveAsConfirm(r)
    \/ SortStart(r) \/ SortRun(r) \/ SortDetach(r) \/ SortReplace(r)
    \/ RevertStart(r) \/ Reload(r) \/ ReloadPut(r)
    \/ RecoverStart(r) \/ Discarded(r) \/ Replay(r) \/ RecoverInstall(r)
    \/ TailLook(r) \/ TailInstall(r) \/ ViewLook(r) \/ ViewStore(r)

Next == Outside \/ \E r \in Requests : Step(r)

Init ==
    /\ disk = [p \in Paths |-> [ino |-> 0, content |-> Plain(p)]]
    /\ made = 0
    /\ \E rec \in BOOLEAN :
        LET s == [Session(Doc(None, First, disk[First])) EXCEPT !.rec = rec] IN
        /\ live = Attached(s)
        /\ log = [p \in Paths |->
                   IF p # First THEN None
                   ELSE IF rec THEN [Header(s) EXCEPT !.view = Plain(None)]
                   ELSE Header(s)]
    /\ order = <<1>> /\ active = 1 /\ inactive = <<>> /\ nextId = 2
    /\ cache = None
    /\ lock = None
    /\ \E k \in [Requests -> UNION {Kinds[r] : r \in Requests}] :
        /\ \A r \in Requests : k[r] \in Kinds[r]
        /\ req = [r \in Requests |-> [pc |-> "start", kind |-> k[r]]]

Spec == Init /\ [][Next]_vars

-----------------------------------------------------------------------------
(* Properties.                                                             *)

\* Every variable has its type; a tab is in the strip once, a parked tab has
\* a document and no writer, and no tab is both live and parked.
TypeOK ==
    /\ disk \in [Paths -> Files]
    /\ log \in [Paths -> Logs \cup {None}]
    /\ made \in Nat /\ nextId \in Nat \ {0}
    /\ live \in Sessions
    /\ active \in 1..(nextId - 1) \cup {None}
    /\ \A t \in DOMAIN inactive :
        inactive[t] \in Sessions /\ inactive[t].doc # None /\ ~inactive[t].wal
    /\ cache \in Snapshots \cup {None}
    /\ lock \in Requests \cup {None}
    /\ DOMAIN req = Requests
    /\ order \in Seq(1..(nextId - 1)) /\ IsInjective(order)
    /\ DOMAIN inactive \subseteq ToSet(order) \ {active}
    /\ live.doc # None => active \in ToSet(order)

\* Find, search and analysis read exactly the view that was live when they
\* looked, whatever edits, tab switches and other readers came in between
\* (edit_snapshot, cached_dirty_snapshot, dirty_view).
ReadIsView == \A r \in Requests : At(r, "read") => req[r].seen = req[r].snap.view

\* An open of p that found no tab of it has since deleted a stale log.
SweptBehind(p) == \E r \in Requests : "swept" \in DOMAIN req[r] /\ req[r].swept /\ req[r].path = p

\* Another tab shows the same path: a save-as was switched to over it.
Shared(t) == InUse(Slot(t).doc.path, {Slot(u) : u \in Open \ {t}})

\* The user asked to drop the edits of t.  The last alternative is the save-as
\* that lost its file to another writer; a detached tab loses what its log
\* does not have: an undecided recovery keeps the old log, and a log may have
\* been taken by another tab or open of its path.
Asked(t) ==
    \E r \in Requests :
        /\ req'[r] # req[r] /\ At(r, "done")'
        /\ \/ req'[r].kind = "close" /\ t \notin ToSet(order')
           \/ req'[r].kind = "revert" /\ t = active
           \/ /\ req'[r].kind = "detach" /\ t \notin ToSet(order')
              /\ Slot(t).rec \/ Shared(t) \/ SweptBehind(Slot(t).doc.path)
           \/ At(r, "put") /\ req[r].kind = "saveas" /\ t = active /\ req[r].snap.view = Slot(t).view

\* The view is in a file, or a log would give it back.
Elsewhere(s) ==
    \E p \in Paths :
        \/ disk'[p].content \in {s.view, Sorted(s.view)}
        \/ log'[p] # None /\ log'[p].view = s.view

\* The tab still has its edits, or newer ones, or they are followed by what
\* their file gained.
GoesOn(t) ==
    /\ t \in Open'
    /\ \/ Slot(t)'.view \in {Slot(t).view, Grown(Slot(t).view)}
       \/ Slot(t)'.rev > Slot(t).rev

\* Unsaved edits leave a tab only into a file, into a log, under newer edits
\* or because the user asked: no save, sort, reload or switch that raced an
\* edit drops it (confirm_overwrite, reload_reverted_if_unchanged,
\* park_active).  A slot left without a document by a sort whose reload
\* failed is not covered.
EditsKept == [][
    \A t \in ToSet(order) \cap Open : Dirty(Slot(t)) /\ Slot(t).doc # None =>
        GoesOn(t) \/ Elsewhere(Slot(t)) \/ Asked(t)
    ]_vars

\* The document is one that poll_tail mapped.
TailFollowed(s) == s.doc.h \in Requests /\ req[s.doc.h].kind = "tail"

\* The log a live writer writes to is there, unless an open of the same path
\* swept it; replayed, it gives back unsaved edits as they are now, it gives
\* nothing else, its anchors count in what the session mapped or saved, and
\* while the file is as the session last read or wrote it, the log is on that
\* file (attach_live_wal, wal_path_in_use, close_tab, commit_in_place_save).
\* poll_tail leaves the header and the records of the shorter file: of a
\* session that followed a tail only the unsaved edits are claimed.
LogOfLive ==
    live.wal /\ live.doc # None =>
        LET l == log[live.doc.path] IN
        IF l = None THEN SweptBehind(live.doc.path)
        ELSE /\ Dirty(live) => l.view = live.view
             /\ ~TailFollowed(live) =>
                    /\ l.view \in {None, live.view}
                    /\ l.base \in {live.doc.content, live.saved}
                    /\ ~DiskChanged(live) => l.on = disk[live.doc.path]

\* What switch_active_to_saved says of itself: the saved bytes ARE the view.
SavedIsView == [][
    \A r \in Requests :
        At(r, "put") /\ req[r].kind = "saveas" /\ live' # live => live'.view = live.view
    ]_vars

\* sort_save_in_place claims the guarantees of the in-place save: no external
\* change is buried without asking.
SortAsks == [][
    \A r \in Requests :
        req[r].kind = "sort" /\ At(r, "written") /\ At(r, "swap")' => ~DiskChanged(live)
    ]_vars
=============================================================================
