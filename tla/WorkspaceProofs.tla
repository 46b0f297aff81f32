--------------------------- MODULE WorkspaceProofs ---------------------------
(***************************************************************************)
(* Proofs about the tabs of a server (module Workspace), for any number of  *)
(* files and requests: readers see the view that was live when they looked, *)
(* the live session's log gives its edits back, and unsaved edits never     *)
(* just vanish.                                                             *)
(*                                                                         *)
(* The argument rests on identities.  A document is installed once, by the  *)
(* request whose name it bears, so no slot, snapshot or cached view names a *)
(* document its request has still to install (Fresh), no two slots show the *)
(* same one (Apart), and of one document an equal revision means an equal   *)
(* view (Agree).  What a request does off the lock it checks against that   *)
(* pair; what it does under the lock finds the slot as it left it (Held).   *)
(***************************************************************************)
EXTENDS Workspace, TLAPS

-----------------------------------------------------------------------------
(* The inductive invariant.                                                *)

Has(r, field) == field \in DOMAIN req[r]

\* A session over a document has a view, a saved view and a baseline.
Whole(s) ==
    /\ s.doc # None => s.view # None /\ s.base # None
    /\ s.view # None => s.saved # None

SlotsWhole == Whole(live) /\ \A t \in DOMAIN inactive : Whole(inactive[t])

\* What each request carries, and which requests are where.
Carries(r) ==
    /\ Has(r, "pc") /\ Has(r, "kind")
    /\ Has(r, "path") => req[r].path \in Paths
    /\ Has(r, "snap") => req[r].snap \in Sessions /\ Whole(req[r].snap) /\ req[r].snap.doc # None
    /\ Has(r, "doc") => Has(r, "path") /\ req[r].doc \in Docs /\ req[r].doc.h = r
                        /\ req[r].doc.path = req[r].path
    /\ Has(r, "swept") => req[r].pc \in {"install", "done"} /\ Has(r, "path")
    /\ req[r].pc = "done" => ~Has(r, "snap") /\ ~Has(r, "doc")

Where(r) ==
    LET pc == req[r].pc kind == req[r].kind IN
    /\ pc = "start" => DOMAIN req[r] = {"pc", "kind"}
    /\ pc = "focus" => kind = "open"
    /\ pc = "load" => kind \in {"open", "saveas", "sort", "revert"} /\ Has(r, "path")
    /\ pc = "install" => kind = "open" /\ Has(r, "path") /\ Has(r, "doc") /\ Has(r, "swept")
                         /\ Has(r, "rec") /\ req[r].rec \in BOOLEAN
    /\ pc = "written" => kind \in {"save", "saveas", "sort"} /\ Has(r, "path") /\ Has(r, "snap")
    /\ pc = "written" /\ kind = "save" => Has(r, "force") /\ req[r].path = req[r].snap.doc.path
    /\ pc = "write" => kind = "saveas" /\ Has(r, "path") /\ Has(r, "snap")
    /\ pc = "swap" => kind \in {"save", "sort"} /\ Has(r, "path") /\ Has(r, "snap")
    /\ pc \in {"written", "swap"} /\ kind = "sort" =>
        Has(r, "out") /\ req[r].out \in Contents \cup {None}
    /\ pc = "swap" /\ kind = "sort" => req[r].out # None
    /\ pc = "commit" => kind = "save" /\ Has(r, "path") /\ Has(r, "snap")
    /\ pc = "put" => kind \in {"saveas", "sort", "revert"} /\ Has(r, "path") /\ Has(r, "doc")
    /\ pc \in {"load", "put"} /\ kind = "saveas" => Has(r, "snap")
    /\ pc \in {"replay", "replayed"} => kind = "recover" /\ Has(r, "path") /\ Has(r, "snap")
    /\ pc = "replayed" => Has(r, "view") /\ req[r].view \in Contents
    /\ pc = "grown" => kind = "tail" /\ Has(r, "path") /\ Has(r, "snap") /\ Has(r, "doc")
    /\ pc \in {"build", "read"} => kind = "view" /\ Has(r, "snap")
    /\ pc = "read" => Has(r, "seen")

RequestsOK == \A r \in Requests : Carries(r) /\ Where(r)

\* What a request did to the live slot under the lock stays until it is done.
HoldsLock(r) ==
    \/ req[r].pc \in {"swap", "commit", "put", "replay", "replayed"}
    \/ req[r].pc = "load" /\ req[r].kind # "open"

Held ==
    \A r \in Requests : HoldsLock(r) =>
        /\ lock = r
        /\ IF req[r].kind = "sort"
           THEN live.doc = None /\ active \in ToSet(order)
           ELSE live.doc # None
        /\ req[r].kind \in {"save", "recover"} => live.doc.path = req[r].path
        /\ req[r].kind = "recover" => live.rec

\* Documents are installed once.
Names(s, r) == s.doc # None /\ s.doc.h = r

Fresh ==
    \A r \in Requests : req[r].pc # "done" =>
        /\ ~Names(live, r)
        /\ \A t \in DOMAIN inactive : ~Names(inactive[t], r)
        /\ cache # None => cache.h # r
        /\ \A q \in Requests : Has(q, "snap") => ~Names(req[q].snap, r)

Apart ==
    /\ \A t \in DOMAIN inactive : live.doc # None => inactive[t].doc.h # live.doc.h
    /\ \A t, u \in DOMAIN inactive : t # u => inactive[t].doc.h # inactive[u].doc.h

\* a is s as it was at some time, if it is of the same document.
Earlier(a, s) ==
    s.doc # None /\ s.doc.h = a.doc.h =>
        s.doc = a.doc /\ a.rev <= s.rev /\ (a.rev = s.rev => a.view = s.view)

Agree ==
    /\ \A r \in Requests : Has(r, "snap") =>
        /\ Earlier(req[r].snap, live)
        /\ \A t \in DOMAIN inactive : Earlier(req[r].snap, inactive[t])
    /\ cache # None /\ live.doc # None /\ live.doc.h = cache.h =>
        cache.rev <= live.rev /\ (cache.rev = live.rev => cache.view = live.view)

\* f was the file at p at some time: a file only grows in place, and only once.
Past(p, f) ==
    /\ f.ino <= made
    /\ disk[p].ino = f.ino => disk[p].content \in {f.content, Grown(f.content)}

PastOf(s) == s.doc # None => Past(s.doc.path, s.doc) /\ Past(s.doc.path, s.base)

FilesPast ==
    /\ \A p \in Paths : disk[p].ino <= made
    /\ PastOf(live)
    /\ \A t \in DOMAIN inactive : PastOf(inactive[t])
    /\ \A r \in Requests : Has(r, "doc") => Past(req[r].path, req[r].doc)
    /\ \A r \in Requests : req[r].pc = "grown" =>
        /\ req[r].path = req[r].snap.doc.path
        /\ req[r].doc.content = Grown(req[r].snap.doc.content)

\* The log a recovery has re-armed is the one of the session it installs.
Rearmed ==
    \A r \in Requests : req[r].pc = "replayed" =>
        LET l == log[req[r].path] IN
        IF l = None THEN SweptBehind(req[r].path)
        ELSE /\ l.view = req[r].view
             /\ live.doc.h = req[r].snap.doc.h =>
                    /\ l.base = live.doc.content
                    /\ ~DiskChanged(live) => l.on = disk[req[r].path]

Recovering == ~(live.wal /\ live.rec)

WsInv ==
    /\ TypeOK /\ SlotsWhole /\ RequestsOK /\ Held
    /\ Fresh /\ Apart /\ Agree /\ ReadIsView
    /\ FilesPast /\ Recovering /\ Rearmed /\ LogOfLive
-----------------------------------------------------------------------------
(* Records and requests.                                                   *)

LEMMA OverFacts ==
    ASSUME NEW f, NEW g
    PROVE  /\ DOMAIN Over(f, g) = DOMAIN f \cup DOMAIN g
           /\ \A x \in DOMAIN f : Over(f, g)[x] = f[x]
           /\ \A x \in DOMAIN g : x \notin DOMAIN f => Over(f, g)[x] = g[x]
BY DEF Over

\* Only r moves.
Moves(r) == DOMAIN req' = Requests /\ \A q \in Requests : q # r => req'[q] = req[q]

LEMMA Goes ==
    ASSUME DOMAIN req = Requests, NEW r \in Requests, NEW f, Goto(r, f)
    PROVE  /\ Moves(r)
           /\ DOMAIN req'[r] = DOMAIN f \cup DOMAIN req[r]
           /\ \A x \in DOMAIN f : req'[r][x] = f[x]
           /\ \A x \in DOMAIN req[r] : x \notin DOMAIN f => req'[r][x] = req[r][x]
<1>1. req'[r] = Over(f, req[r]) BY DEF Goto
<1>2. Moves(r) BY DEF Goto, Moves
<1> QED BY <1>1, <1>2 DEF Over

LEMMA Ends ==
    ASSUME DOMAIN req = Requests, NEW r \in Requests, Done(r)
    PROVE  /\ Moves(r)
           /\ DOMAIN req'[r] = {"pc", "kind"}
           /\ req'[r].pc = "done" /\ req'[r].kind = req[r].kind
BY DEF Done, Moves

\* The requests that have not moved carry what they carried.
LEMMA OthersCarry ==
    ASSUME RequestsOK, NEW r \in Requests, Moves(r), Carries(r)', Where(r)'
    PROVE  RequestsOK'
<1>1. ASSUME NEW q \in Requests, q # r PROVE Carries(q)' /\ Where(q)'
  <2>1. Carries(q) /\ Where(q) /\ req'[q] = req[q] BY <1>1 DEF RequestsOK, Moves
  <2> QED BY <2>1 DEF Carries, Where, Has
<1> QED BY <1>1 DEF RequestsOK

LEMMA EndsCarry ==
    ASSUME TypeOK, RequestsOK, NEW r \in Requests, Done(r)
    PROVE  RequestsOK'
<1>1. DOMAIN req = Requests BY DEF TypeOK
<1>2. Carries(r)' /\ Where(r)' BY <1>1, Ends DEF Carries, Where, Has
<1> QED BY <1>1, <1>2, Ends, OthersCarry

LEMMA RequestsMove ==
    ASSUME TypeOK, SlotsWhole, RequestsOK, NEW r \in Requests, Step(r)
    PROVE  RequestsOK' /\ Moves(r)
<1>1. DOMAIN req = Requests /\ Carries(r) /\ Where(r) BY DEF TypeOK, RequestsOK
<1>2. live.doc # None => live \in Sessions /\ Whole(live) /\ live.doc.path \in Paths
  BY DEF TypeOK, SlotsWhole, Sessions, Docs
<1>3. \A f : Goto(r, f) /\ Carries(r)' /\ Where(r)' => RequestsOK' /\ Moves(r)
  BY <1>1, Goes, OthersCarry
<1>4. Done(r) => RequestsOK' /\ Moves(r)
  BY <1>1, Ends, EndsCarry
<1>a. CASE OpenStart(r)
  <2>1. PICK p \in Paths :
            \/ Goto(r, [pc |-> "load", path |-> p])
            \/ \E t \in TabWithPath(p) : Goto(r, [pc |-> "focus", tab |-> t])
    BY <1>a DEF OpenStart
  <2>2. CASE Goto(r, [pc |-> "load", path |-> p])
    BY <1>a, <2>2, <1>1, <1>3, Goes DEF OpenStart, Begin, At, Carries, Where, Has
  <2>3. ASSUME NEW t \in TabWithPath(p), Goto(r, [pc |-> "focus", tab |-> t])
        PROVE  RequestsOK' /\ Moves(r)
    BY <1>a, <2>3, <1>1, <1>3, Goes DEF OpenStart, Begin, At, Carries, Where, Has
  <2> QED BY <2>1, <2>2, <2>3
<1>b. CASE OpenLoad(r)
  <2> DEFINE p == req[r].path
             d == Doc(r, p, disk[p])
             swept == log[p] # Prepared(p)[p]
  <2>1. req[r].pc = "load" /\ req[r].kind = "open" /\ Has(r, "path") /\ p \in Paths
    BY <1>b, <1>1 DEF OpenLoad, At, Carries, Where
  <2>2. Goto(r, [pc |-> "install", doc |-> d, rec |-> Recoverable(p), swept |-> swept])
    BY <1>b DEF OpenLoad
  <2>3. d \in Docs /\ d.h = r /\ d.path = p
    BY <2>1 DEF Doc, Docs, TypeOK, Files
  <2>4. Recoverable(p) \in BOOLEAN
    BY DEF Recoverable
  <2> HIDE DEF d, swept
  <2>5. Moves(r) /\ DOMAIN req'[r] = {"pc", "doc", "rec", "swept"} \cup DOMAIN req[r]
    BY <2>2, <1>1, Goes
  <2>6. /\ req'[r]["pc"] = "install" /\ req'[r]["doc"] = d /\ req'[r]["rec"] = Recoverable(p)
    BY <2>2, <1>1, Goes
  <2>7. \A x \in {"kind", "path", "snap"} : x \in DOMAIN req[r] => req'[r][x] = req[r][x]
    BY <2>2, <1>1, Goes
  <2>8. Carries(r)' /\ Where(r)'
    BY <2>1, <2>3, <2>4, <2>5, <2>6, <2>7, <1>1 DEF Carries, Where, Has
  <2> QED BY <2>2, <2>8, <1>3
<1>c. CASE OpenInstall(r)
  BY <1>c, <1>1, OthersCarry DEF OpenInstall, At, Carries, Where, Has, Moves
<1>d. CASE Switch(r)
  BY <1>d, <1>4 DEF Switch
<1>e. CASE Reorder(r)
  BY <1>e, <1>4 DEF Reorder
<1>f. CASE Close(r)
  BY <1>f, <1>4 DEF Close
<1>g. CASE Detach(r)
  BY <1>g, <1>4 DEF Detach
<1>h. CASE SaveStart(r)
  <2>1. PICK force \in BOOLEAN :
            Done(r) \/ Goto(r, Over([force |-> force],
                                    [pc |-> "written", snap |-> live, path |-> live.doc.path]))
    BY <1>h DEF SaveStart, Snapshot
  <2> DEFINE f == Over([force |-> force], [pc |-> "written", snap |-> live, path |-> live.doc.path])
  <2>2. DOMAIN f = {"force", "pc", "snap", "path"} /\ f["pc"] = "written" /\ f["snap"] = live
        /\ f["path"] = live.doc.path
    BY DEF Over
  <2>3. CASE Goto(r, f)
    <3> HIDE DEF f
    <3> QED BY <1>h, <2>2, <2>3, <1>1, <1>2, <1>3, Goes DEF SaveStart, Begin, At, Carries, Where, Has
  <2> QED BY <2>1, <2>3, <1>4
<1>i. CASE SaveConfirm(r)
  BY <1>i, <1>1, <1>3, <1>4, Goes DEF SaveConfirm, At, Carries, Where, Has
<1>j. CASE SaveSwap(r)
  BY <1>j, <1>1, <1>3, <1>4, Goes DEF SaveSwap, At, Carries, Where, Has
<1>k. CASE SaveCommit(r)
  BY <1>k, <1>4 DEF SaveCommit
<1>l. CASE SaveAsStart(r)
  <2>1. PICK p \in Paths :
            Done(r) \/ Goto(r, [pc |-> "write", snap |-> live, path |-> p])
    BY <1>l DEF SaveAsStart
  <2>2. CASE Goto(r, [pc |-> "write", snap |-> live, path |-> p])
    BY <1>l, <2>2, <1>1, <1>2, <1>3, Goes DEF SaveAsStart, Begin, At, Carries, Where, Has
  <2> QED BY <2>1, <2>2, <1>4
<1>m. CASE SaveAsWrite(r)
  BY <1>m, <1>1, <1>3, Goes DEF SaveAsWrite, At, Carries, Where, Has
<1>n. CASE SaveAsConfirm(r)
  BY <1>n, <1>1, <1>3, <1>4, Goes DEF SaveAsConfirm, At, Carries, Where, Has
<1>o. CASE SortStart(r)
  <2> DEFINE f == Over([out |-> None], [pc |-> "written", snap |-> live, path |-> live.doc.path])
  <2>1. Goto(r, f) BY <1>o DEF SortStart, Snapshot
  <2>2. DOMAIN f = {"out", "pc", "snap", "path"} /\ f["pc"] = "written" /\ f["snap"] = live
        /\ f["path"] = live.doc.path /\ f["out"] = None
    BY DEF Over
  <2> HIDE DEF f
  <2> QED BY <1>o, <2>1, <2>2, <1>1, <1>2, <1>3, Goes DEF SortStart, Begin, At, Carries, Where, Has
<1>p. CASE SortRun(r)
  <2> DEFINE s == req[r].snap
             c == IF Dirty(s) THEN s.view ELSE disk[s.doc.path].content
  <2>1. Goto(r, [out |-> Sorted(c)]) BY <1>p DEF SortRun
  <2>2. s \in Sessions /\ Whole(s) /\ s.doc # None
    BY <1>p, <1>1 DEF SortRun, At, Carries, Where
  <2>3. c \in Contents
    BY <2>2 DEF Whole, Sessions, Docs, TypeOK, Files
  <2>4. Sorted(c) \in Contents /\ Sorted(c) # None
    BY <2>3, NoneAssumption DEF Sorted, Contents
  <2> HIDE DEF c
  <2> QED BY <1>p, <2>1, <2>4, <1>1, <1>3, Goes DEF SortRun, At, Carries, Where, Has
<1>q. CASE SortDetach(r)
  BY <1>q, <1>1, <1>3, <1>4, Goes DEF SortDetach, At, Carries, Where, Has
<1>r. CASE SortReplace(r)
  BY <1>r, <1>1, <1>3, Goes DEF SortReplace, At, Carries, Where, Has
<1>s. CASE RevertStart(r)
  <2>1. live.doc # None /\ Goto(r, [pc |-> "load", path |-> live.doc.path])
    BY <1>s DEF RevertStart
  <2> QED BY <1>s, <2>1, <1>1, <1>2, <1>3, Goes DEF RevertStart, Begin, At, Carries, Where, Has
<1>t. CASE Reload(r)
  <2>1. CASE Done(r) BY <2>1, <1>4
  <2>2. CASE Goto(r, [pc |-> "put", doc |-> Doc(r, req[r].path, disk[req[r].path])])
    <3>1. req[r].pc = "load" /\ req[r].kind # "open" /\ Has(r, "path") /\ req[r].path \in Paths
      BY <1>t, <1>1 DEF Reload, At, Carries, Where
    <3>2. Doc(r, req[r].path, disk[req[r].path]) \in Docs
      BY <3>1 DEF Doc, Docs, TypeOK, Files
    <3>3. Doc(r, req[r].path, disk[req[r].path]).h = r
          /\ Doc(r, req[r].path, disk[req[r].path]).path = req[r].path
      BY DEF Doc
    <3> QED BY <2>2, <3>1, <3>2, <3>3, <1>1, <1>3, Goes DEF Carries, Where, Has
  <2> QED BY <1>t, <2>1, <2>2 DEF Reload
<1>u. CASE ReloadPut(r)
  BY <1>u, <1>4 DEF ReloadPut
<1>v. CASE RecoverStart(r)
  <2>1. live.doc # None /\ Goto(r, [pc |-> "replay", path |-> live.doc.path, snap |-> live])
    BY <1>v DEF RecoverStart
  <2> QED BY <1>v, <2>1, <1>1, <1>2, <1>3, Goes DEF RecoverStart, Begin, At, Carries, Where, Has
<1>w. CASE Discarded(r)
  BY <1>w, <1>4 DEF Discarded
<1>x. CASE Replay(r)
  <2>1. CASE Done(r) BY <2>1, <1>4
  <2>2. CASE Recoverable(req[r].path) /\ Goto(r, [pc |-> "replayed", view |-> log[req[r].path].view])
    <3>1. req[r].pc = "replay" /\ Has(r, "path") /\ req[r].path \in Paths
      BY <1>x, <1>1 DEF Replay, At, Carries, Where
    <3>2. log[req[r].path].view \in Contents
      BY <2>2, <3>1 DEF Recoverable, TypeOK, Logs
    <3> QED BY <2>2, <3>1, <3>2, <1>1, <1>3, Goes DEF Carries, Where, Has
  <2> QED BY <1>x, <2>1, <2>2 DEF Replay
<1>y. CASE RecoverInstall(r)
  BY <1>y, <1>4 DEF RecoverInstall
<1>z. CASE TailLook(r)
  <2> DEFINE d == Doc(r, live.doc.path, disk[live.doc.path])
  <2>1. CASE Done(r) BY <2>1, <1>4
  <2>2. CASE Goto(r, [pc |-> "grown", snap |-> live, path |-> live.doc.path, doc |-> d])
    <3>1. d \in Docs /\ d.h = r /\ d.path = live.doc.path
      BY <1>z, <1>2 DEF TailLook, Doc, Docs, TypeOK, Files
    <3> HIDE DEF d
    <3> QED BY <1>z, <2>2, <3>1, <1>1, <1>2, <1>3, Goes DEF TailLook, Begin, At, Carries, Where, Has
  <2> QED BY <1>z, <2>1, <2>2 DEF TailLook
<1>aa. CASE TailInstall(r)
  BY <1>aa, <1>4 DEF TailInstall
<1>ab. CASE ViewLook(r)
  BY <1>ab, <1>1, <1>2, <1>3, Goes DEF ViewLook, Begin, At, Carries, Where, Has
<1>ac. CASE ViewStore(r)
  BY <1>ac, <1>1, <1>3, Goes DEF ViewStore, At, Carries, Where, Has
<1> QED
  BY <1>a, <1>b, <1>c, <1>d, <1>e, <1>f, <1>g, <1>h, <1>i, <1>j, <1>k, <1>l, <1>m, <1>n,
     <1>o, <1>p, <1>q, <1>r, <1>s, <1>t, <1>u, <1>v, <1>w, <1>x, <1>y, <1>z, <1>aa, <1>ab,
     <1>ac DEF Step

-----------------------------------------------------------------------------
(* The strip of tabs.                                                      *)

LEMMA RemoveAtFacts ==
    ASSUME NEW S, NEW s \in Seq(S), NEW i \in 1..Len(s)
    PROVE  /\ RemoveAt(s, i) \in Seq(S) /\ Len(RemoveAt(s, i)) = Len(s) - 1
           /\ \A j \in 1..(Len(s) - 1) : RemoveAt(s, i)[j] = IF j < i THEN s[j] ELSE s[j + 1]
<1> DEFINE a == SubSeq(s, 1, i - 1)
           b == SubSeq(s, i + 1, Len(s))
<1>0. a \in Seq(S) /\ Len(a) = i - 1 /\ b \in Seq(S) /\ Len(b) = Len(s) - i
  OBVIOUS
<1>1. \A j \in 1..(i - 1) : a[j] = s[j]
  OBVIOUS
<1>2. \A j \in 1..(Len(s) - i) : b[j] = s[i + j]
  OBVIOUS
<1>3. RemoveAt(s, i) = a \o b BY DEF RemoveAt
<1> HIDE DEF a, b
<1>4. a \o b \in Seq(S) /\ Len(a \o b) = Len(s) - 1
  BY <1>0
<1>5. ASSUME NEW j \in 1..(Len(s) - 1) PROVE (a \o b)[j] = IF j < i THEN s[j] ELSE s[j + 1]
  <2>1. CASE j < i
    BY <1>0, <1>1, <2>1
  <2>2. CASE ~(j < i)
    <3>1. j - (i - 1) \in 1..(Len(s) - i) /\ i + (j - (i - 1)) = j + 1
      BY <2>2
    <3>2. (a \o b)[j] = b[j - (i - 1)]
      BY <1>0, <2>2
    <3> QED BY <1>2, <2>2, <3>1, <3>2
  <2> QED BY <2>1, <2>2
<1> QED BY <1>3, <1>4, <1>5

LEMMA InsertAtFacts ==
    ASSUME NEW S, NEW s \in Seq(S), NEW i \in 1..Len(s), NEW e \in S
    PROVE  /\ InsertAt(s, i, e) \in Seq(S) /\ Len(InsertAt(s, i, e)) = Len(s) + 1
           /\ \A j \in 1..(Len(s) + 1) :
                InsertAt(s, i, e)[j] = IF j < i THEN s[j] ELSE IF j = i THEN e ELSE s[j - 1]
BY DEF InsertAt

LEMMA RestFacts ==
    ASSUME NEW S, order \in Seq(S), IsInjective(order), NEW t \in ToSet(order)
    PROVE  /\ Rest(t) \in Seq(S) /\ IsInjective(Rest(t))
           /\ ToSet(Rest(t)) = ToSet(order) \ {t}
<1>1. Place(t) \in 1..Len(order) /\ order[Place(t)] = t
  BY DEF Place, ToSet
<1> DEFINE i == Place(t)
<1>2. /\ Rest(t) \in Seq(S) /\ Len(Rest(t)) = Len(order) - 1
      /\ \A j \in 1..(Len(order) - 1) : Rest(t)[j] = IF j < i THEN order[j] ELSE order[j + 1]
  BY <1>1, RemoveAtFacts DEF Rest
<1> HIDE DEF i
<1>3. \A j, k \in 1..Len(order) : order[j] = order[k] => j = k
  BY DEF IsInjective
<1>4. IsInjective(Rest(t))
  BY <1>2, <1>3, <1>1 DEF IsInjective, i
<1>5. ASSUME NEW x \in ToSet(Rest(t)) PROVE x \in ToSet(order) \ {t}
  <2>1. PICK j \in 1..(Len(order) - 1) : x = Rest(t)[j]
    BY <1>2 DEF ToSet
  <2>2. PICK k \in 1..Len(order) : x = order[k] /\ k # i
    BY <2>1, <1>2, <1>1 DEF i
  <2> QED BY <2>2, <1>1, <1>3 DEF ToSet, i
<1>6. ASSUME NEW x \in ToSet(order) \ {t} PROVE x \in ToSet(Rest(t))
  <2>1. PICK k \in 1..Len(order) : x = order[k] /\ k # i
    BY <1>1 DEF ToSet, i
  <2>2. CASE k < i
    <3>1. k \in 1..(Len(order) - 1) /\ Rest(t)[k] = x BY <2>1, <2>2, <1>1, <1>2 DEF i
    <3> QED BY <3>1, <1>2 DEF ToSet
  <2>3. CASE k > i
    <3>1. k - 1 \in 1..(Len(order) - 1) /\ Rest(t)[k - 1] = x BY <2>1, <2>3, <1>1, <1>2 DEF i
    <3> QED BY <3>1, <1>2 DEF ToSet
  <2> QED BY <2>1, <2>2, <2>3, <1>1 DEF i
<1> QED BY <1>2, <1>4, <1>5, <1>6

LEMMA NeighborFacts ==
    ASSUME NEW S, order \in Seq(S), IsInjective(order), NEW t \in ToSet(order)
    PROVE  Neighbor(t) \in (ToSet(order) \ {t}) \cup {None}
<1>1. Rest(t) \in Seq(S) /\ ToSet(Rest(t)) = ToSet(order) \ {t} BY RestFacts
<1>2. Place(t) \in 1..Len(order) BY DEF Place, ToSet
<1>3. ASSUME Rest(t) # <<>> PROVE Neighbor(t) \in ToSet(Rest(t))
  <2>1. Len(Rest(t)) \in Nat \ {0} /\ DOMAIN Rest(t) = 1..Len(Rest(t))
    BY <1>1, <1>3
  <2>2. CASE Place(t) <= Len(Rest(t)) BY <1>2, <1>3, <2>1, <2>2 DEF Neighbor, ToSet
  <2>3. CASE ~(Place(t) <= Len(Rest(t)))
    <3>1. Neighbor(t) = Rest(t)[Len(Rest(t))] BY <1>3, <2>3 DEF Neighbor, Last
    <3> QED BY <3>1, <2>1 DEF ToSet
  <2> QED BY <2>2, <2>3
<1>4. Rest(t) = <<>> => Neighbor(t) = None BY DEF Neighbor
<1> QED BY <1>1, <1>3, <1>4

LEMMA AppendFacts ==
    ASSUME NEW S, NEW s \in Seq(S), IsInjective(s), NEW e, e \notin ToSet(s)
    PROVE  IsInjective(Append(s, e)) /\ ToSet(Append(s, e)) = ToSet(s) \cup {e}
<1>1. /\ DOMAIN Append(s, e) = 1..(Len(s) + 1) /\ DOMAIN s = 1..Len(s) /\ Len(s) \in Nat
      /\ Append(s, e)[Len(s) + 1] = e
      /\ \A j \in 1..Len(s) : Append(s, e)[j] = s[j]
  OBVIOUS
<1>2. \A j \in 1..(Len(s) + 1) : j = Len(s) + 1 \/ j \in 1..Len(s)
  BY <1>1
<1>3. IsInjective(Append(s, e))
  BY <1>1, <1>2 DEF IsInjective, ToSet
<1>4. ASSUME NEW x \in ToSet(Append(s, e)) PROVE x \in ToSet(s) \cup {e}
  BY <1>1, <1>2 DEF ToSet
<1>5. ASSUME NEW x \in ToSet(s) \cup {e} PROVE x \in ToSet(Append(s, e))
  BY <1>1, <1>2 DEF ToSet
<1> QED BY <1>3, <1>4, <1>5

-----------------------------------------------------------------------------
(* What the operations build.                                              *)

LEMMA ContentsFacts ==
    ASSUME NEW c \in Contents
    PROVE  /\ Grown(c) \in Contents /\ Grown(c).grown
           /\ Sorted(c) \in Contents /\ c # None
           /\ Grown(c) # None /\ Sorted(c) # None
BY NoneAssumption DEF Grown, Sorted, Contents

LEMMA PlainFacts ==
    ASSUME NEW t \in Nat \cup Paths \cup {None}
    PROVE  Plain(t) \in Contents /\ Plain(t) # None
<1>1. Plain(t) \in Contents BY DEF Plain, Contents
<1> QED BY <1>1, NoneAssumption

LEMMA DocFacts ==
    ASSUME NEW h \in Requests \cup {None}, NEW p \in Paths, NEW f \in Files
    PROVE  /\ Doc(h, p, f) \in Docs /\ Doc(h, p, f) # None
           /\ Doc(h, p, f).h = h /\ Doc(h, p, f).path = p
           /\ Doc(h, p, f).ino = f.ino /\ Doc(h, p, f).content = f.content
BY NoneAssumption DEF Doc, Docs, Files

LEMMA SessionFacts ==
    ASSUME disk \in [Paths -> Files], NEW d \in Docs, NEW b \in BOOLEAN
    PROVE  LET s == [Session(d) EXCEPT !.rec = b] IN
           /\ s \in Sessions /\ Whole(s)
           /\ s.doc = d /\ s.doc # None /\ s.view = d.content /\ s.saved = d.content
           /\ s.rev = 0 /\ s.wal = FALSE /\ s.rec = b /\ s.base = disk[d.path]
<1> DEFINE s == [Session(d) EXCEPT !.rec = b]
<1>1. d.content \in Contents /\ d.path \in Paths /\ disk[d.path] \in Files
  BY DEF Docs
<1>2. d # None /\ d.content # None /\ disk[d.path] # None
  BY <1>1, NoneAssumption
<1>3. /\ s.doc = d /\ s.view = d.content /\ s.saved = d.content
      /\ s.rev = 0 /\ s.wal = FALSE /\ s.rec = b /\ s.base = disk[d.path]
  BY DEF Session
<1>4. s \in Sessions
  BY <1>1 DEF Session, Sessions
<1> HIDE DEF s
<1>5. Whole(s) BY <1>2, <1>3 DEF Whole
<1> QED BY <1>2, <1>3, <1>4, <1>5 DEF s

LEMMA EmptyFacts ==
    /\ Empty \in Sessions /\ Whole(Empty)
    /\ Empty.doc = None /\ Empty.view = None /\ Empty.saved = None /\ Empty.rev = 0
    /\ Empty.wal = FALSE /\ Empty.rec = FALSE /\ Empty.base = None
BY DEF Empty, Sessions, Whole

LEMMA AttachedFacts ==
    ASSUME NEW s \in Sessions
    PROVE  LET a == Attached(s) IN
           /\ a \in Sessions /\ a.doc = s.doc /\ a.view = s.view /\ a.saved = s.saved
           /\ a.rev = s.rev /\ a.rec = s.rec /\ a.base = s.base
           /\ a.wal = (Attaches(s) \/ s.wal)
           /\ Whole(s) => Whole(a)
BY DEF Attached, Sessions, Whole

LEMMA AttachedEmpty == Attached(Empty) = Empty /\ AttachedLog(Empty) = log
BY DEF Attached, AttachedLog, Attaches, Empty

\* A log made for a session.
LEMMA HeaderFacts ==
    ASSUME disk \in [Paths -> Files], NEW s \in Sessions, Whole(s), s.doc # None
    PROVE  /\ Header(s) \in Logs /\ Header(s) # None
           /\ Header(s).on = disk[s.doc.path] /\ Header(s).base = s.doc.content
           /\ Header(s).view \in {None, s.view}
           /\ Dirty(s) => Header(s).view = s.view
BY NoneAssumption DEF Header, Logs, Sessions, Docs, Whole, HasEdits, Dirty

LEMMA AttachedLogFacts ==
    ASSUME disk \in [Paths -> Files], log \in [Paths -> Logs \cup {None}],
           NEW s \in Sessions, Whole(s)
    PROVE  /\ AttachedLog(s) \in [Paths -> Logs \cup {None}]
           /\ Attaches(s) => AttachedLog(s)[s.doc.path] = Header(s)
           /\ \A p \in Paths : (Attaches(s) => p # s.doc.path) => AttachedLog(s)[p] = log[p]
<1>1. CASE Attaches(s)
  <2>1. s.doc # None /\ s.doc.path \in Paths BY <1>1 DEF Attaches, Sessions, Docs
  <2>2. Header(s) \in Logs BY <2>1, HeaderFacts
  <2> QED BY <1>1, <2>1, <2>2 DEF AttachedLog
<1>2. CASE ~Attaches(s)
  BY <1>2 DEF AttachedLog
<1> QED BY <1>1, <1>2

-----------------------------------------------------------------------------
(* What a step may do to the files.                                        *)

\* A file is replaced by a new one, or it grows.
FilesMove ==
    /\ disk' \in [Paths -> Files] /\ made' \in Nat /\ made <= made'
    /\ \A p \in Paths :
        \/ disk'[p] = disk[p]
        \/ disk'[p].ino = made' /\ made' = made + 1
        \/ ~disk[p].content.grown /\ disk'[p] = [disk[p] EXCEPT !.content = Grown(@)]

LEMMA Replaces ==
    ASSUME disk \in [Paths -> Files], made \in Nat, NEW p \in Paths, NEW c \in Contents, Replace(p, c)
    PROVE  FilesMove
<1>1. [ino |-> made + 1, content |-> c] \in Files BY DEF Files
<1>2. disk' \in [Paths -> Files] BY <1>1 DEF Replace
<1>3. ASSUME NEW q \in Paths
      PROVE  disk'[q] = IF q = p THEN [ino |-> made + 1, content |-> c] ELSE disk[q]
  BY DEF Replace
<1> QED BY <1>2, <1>3 DEF Replace, FilesMove

LEMMA FilesRest ==
    ASSUME disk \in [Paths -> Files], made \in Nat, UNCHANGED <<disk, made>>
    PROVE  FilesMove
BY DEF FilesMove

\* The steps after which no tab is another one.
Quiet(r) ==
    \/ OpenStart(r) \/ OpenLoad(r)
    \/ SaveStart(r) \/ SaveConfirm(r) \/ SaveSwap(r)
    \/ SaveAsStart(r) \/ SaveAsWrite(r) \/ SaveAsConfirm(r)
    \/ SortStart(r) \/ SortRun(r)
    \/ RevertStart(r) \/ Reload(r) \/ RecoverStart(r) \/ Replay(r)
    \/ TailLook(r) \/ ViewLook(r) \/ ViewStore(r)

\* The steps that change which tabs there are and which one is live.
Shuffles(r) == OpenInstall(r) \/ Switch(r) \/ Close(r) \/ Detach(r)

\* The steps that work on the live slot.
Works(r) ==
    \/ SaveCommit(r) \/ SortDetach(r) \/ SortReplace(r) \/ ReloadPut(r)
    \/ Discarded(r) \/ RecoverInstall(r) \/ TailInstall(r)

LEMMA StepKinds ==
    ASSUME NEW r, Step(r)
    PROVE  Quiet(r) \/ Reorder(r) \/ Shuffles(r) \/ Works(r)
BY DEF Step, Quiet, Shuffles, Works

LEMMA StepMovesFiles ==
    ASSUME TypeOK, RequestsOK, NEW r \in Requests, Step(r)
    PROVE  FilesMove
<1>1. disk \in [Paths -> Files] /\ made \in Nat /\ Carries(r) /\ Where(r) BY DEF TypeOK, RequestsOK
<1>2. Has(r, "path") => req[r].path \in Paths BY <1>1 DEF Carries
<1>3. Has(r, "snap") => req[r].snap.view \in Contents
  BY <1>1 DEF Carries, Sessions, Whole
<1>4. CASE SaveSwap(r) /\ Replace(req[r].path, req[r].snap.view)
  BY <1>1, <1>2, <1>3, <1>4, Replaces DEF SaveSwap, At, Where
<1>5. CASE SaveAsWrite(r)
  BY <1>1, <1>2, <1>3, <1>5, Replaces DEF SaveAsWrite, At, Where
<1>6. CASE SortReplace(r) /\ Replace(req[r].path, req[r].out)
  BY <1>1, <1>2, <1>6, Replaces DEF SortReplace, At, Where
<1>7. CASE UNCHANGED <<disk, made>>
  BY <1>1, <1>7, FilesRest
<1>8. CASE Quiet(r)
  BY <1>8, <1>4, <1>5, <1>7
  DEF Quiet, files, OpenStart, OpenLoad, SaveStart, SaveConfirm, SaveSwap, SaveAsStart,
      SaveAsConfirm, SortStart, SortRun, RevertStart, Reload, RecoverStart, Replay,
      TailLook, ViewLook, ViewStore
<1>9. CASE Reorder(r) \/ Shuffles(r)
  BY <1>9, <1>7 DEF Reorder, files, Shuffles, OpenInstall, Switch, Close, Detach
<1>10. CASE Works(r)
  BY <1>10, <1>6, <1>7
  DEF Works, files, SaveCommit, SortDetach, SortReplace, ReloadPut, Discarded, RecoverInstall,
      TailInstall
<1> QED BY <1>8, <1>9, <1>10, StepKinds

LEMMA OutsideMovesFiles ==
    ASSUME TypeOK, Outside
    PROVE  FilesMove
<1>1. disk \in [Paths -> Files] /\ made \in Nat BY DEF TypeOK
<1>2. CASE Edit
  BY <1>1, <1>2 DEF Edit, FilesMove
<1>3. ASSUME NEW p \in Paths, OtherWrites(p) PROVE FilesMove
  <2>1. made' = made + 1 /\ Plain(made + 1) \in Contents
    BY <1>1, <1>3, PlainFacts DEF OtherWrites
  <2>2. CASE disk' = [disk EXCEPT ![p] = [ino |-> made + 1, content |-> Plain(made + 1)]]
    BY <1>1, <2>1, <2>2, Replaces DEF Replace
  <2>3. CASE ~disk[p].content.grown /\ disk' = [disk EXCEPT ![p].content = Grown(@)]
    <3>1. disk[p] \in Files /\ disk[p].content \in Contents BY <1>1 DEF Files
    <3>2. [disk[p] EXCEPT !.content = Grown(@)] \in Files
      BY <3>1, ContentsFacts DEF Files
    <3>3. disk' \in [Paths -> Files]
          /\ \A q \in Paths : disk'[q] = IF q = p THEN [disk[p] EXCEPT !.content = Grown(@)] ELSE disk[q]
      BY <1>1, <2>3, <3>2
    <3> QED BY <1>1, <2>1, <2>3, <3>3 DEF FilesMove
  <2> QED BY <1>3, <2>2, <2>3 DEF OtherWrites
<1> QED BY <1>2, <1>3 DEF Outside

\* What was the file once was the file once.
LEMMA PastKept ==
    ASSUME disk \in [Paths -> Files], made \in Nat, FilesMove,
           NEW p \in Paths, NEW f, f.ino \in Nat, f.content \in Contents, Past(p, f)
    PROVE  Past(p, f)'
<1>1. disk[p] \in Files /\ disk[p].ino \in Nat /\ disk[p].content \in Contents
      /\ disk'[p].ino \in Nat
  BY DEF Files, FilesMove
<1>2. CASE disk'[p] = disk[p] BY <1>2 DEF Past, FilesMove
<1>3. CASE disk'[p].ino = made' /\ made' = made + 1
  BY <1>3 DEF Past, FilesMove
<1>4. CASE ~disk[p].content.grown /\ disk'[p] = [disk[p] EXCEPT !.content = Grown(@)]
  <2>1. disk'[p].ino = disk[p].ino /\ disk'[p].content = Grown(disk[p].content)
    BY <1>1, <1>4 DEF Files
  <2>2. disk[p].content # Grown(f.content) BY <1>4, ContentsFacts
  <2> QED BY <1>1, <2>1, <2>2 DEF Past, FilesMove
<1> QED BY <1>2, <1>3, <1>4 DEF FilesMove

\* A file that has changed is not again what it was.
LEMMA NoWayBack ==
    ASSUME disk \in [Paths -> Files], made \in Nat, FilesMove,
           NEW p \in Paths, NEW f \in Files, Past(p, f), disk'[p] = f
    PROVE  disk[p] = f
<1>1. disk[p] \in Files /\ disk[p].ino \in Nat /\ disk[p].content \in Contents
      /\ f.ino \in Nat /\ f.content \in Contents
  BY DEF Files
<1>2. CASE disk'[p].ino = made' /\ made' = made + 1
  BY <1>1, <1>2 DEF Past
<1>3. CASE ~disk[p].content.grown /\ disk'[p] = [disk[p] EXCEPT !.content = Grown(@)]
  <2>1. disk'[p].ino = disk[p].ino /\ disk'[p].content = Grown(disk[p].content)
    BY <1>1, <1>3 DEF Files
  <2>2. disk[p].content # f.content /\ disk[p].content # Grown(f.content)
    BY <1>1, <1>3, <2>1, ContentsFacts
  <2> QED BY <2>1, <2>2 DEF Past
<1> QED BY <1>2, <1>3 DEF FilesMove

-----------------------------------------------------------------------------
(* What a step may do to its request.                                      *)

KeepsDoc(r) == Has(r, "doc") /\ req'[r].doc = req[r].doc /\ req'[r].path = req[r].path
KeepsSnap(r) == Has(r, "snap") /\ req'[r].snap = req[r].snap
TakesSnap(r) == req'[r].snap = live /\ live.doc # None /\ Quiet(r)
KeepsSweep(r) == Has(r, "swept")' /\ req'[r].swept = req[r].swept /\ req'[r].path = req[r].path

Progress(r) ==
    /\ req[r].pc # "done" /\ req'[r].kind = req[r].kind
    /\ req'[r].pc = "read" => ViewLook(r) \/ ViewStore(r)
    /\ req'[r].pc = "grown" => TailLook(r)
    /\ req'[r].pc = "replayed" => Replay(r)
    /\ Has(r, "doc")' => OpenLoad(r) \/ Reload(r) \/ TailLook(r) \/ KeepsDoc(r)
    /\ Has(r, "snap")' => KeepsSnap(r) \/ TakesSnap(r)
    /\ Has(r, "swept") => KeepsSweep(r)

LEMMA Progresses ==
    ASSUME TypeOK, RequestsOK, NEW r \in Requests, Step(r)
    PROVE  Progress(r)
<1>1. DOMAIN req = Requests /\ Carries(r) /\ Where(r) BY DEF TypeOK, RequestsOK
<1>2. ASSUME Done(r), req[r].pc \notin {"install", "done"} PROVE Progress(r)
  BY <1>1, <1>2, Ends DEF Progress, Carries, Has
<1>3. ASSUME NEW f, Goto(r, f), req[r].pc \notin {"install", "done", "start"},
             DOMAIN f \subseteq {"pc", "path", "seen", "view", "out"},
             "path" \in DOMAIN f => ~Has(r, "doc"),
             "pc" \in DOMAIN f => f["pc"] \notin {"read", "grown", "replayed"},
             "pc" \notin DOMAIN f => req[r].pc \notin {"read", "grown", "replayed"}
      PROVE  Progress(r)
  BY <1>1, <1>3, Goes DEF Progress, KeepsDoc, KeepsSnap, Carries, Has
<1>4. ASSUME NEW f, Goto(r, f), req[r].pc = "start",
             "kind" \notin DOMAIN f, "doc" \notin DOMAIN f, "swept" \notin DOMAIN f,
             "snap" \in DOMAIN f => f["snap"] = live /\ live.doc # None /\ Quiet(r),
             "pc" \in DOMAIN f, f["pc"] \notin {"read", "grown", "replayed"}
      PROVE  Progress(r)
  BY <1>1, <1>4, Goes DEF Progress, TakesSnap, Where, Has
<1>a. CASE OpenStart(r)
  BY <1>a, <1>4 DEF OpenStart, Begin, At
<1>b. CASE OpenLoad(r)
  <2> DEFINE p == req[r].path
             d == Doc(r, p, disk[p])
             swept == log[p] # Prepared(p)[p]
  <2>1. req[r].pc = "load"
    BY <1>b DEF OpenLoad, At
  <2>2. Goto(r, [pc |-> "install", doc |-> d, rec |-> Recoverable(p), swept |-> swept])
    BY <1>b DEF OpenLoad
  <2> HIDE DEF d, swept
  <2>3. DOMAIN req'[r] = {"pc", "doc", "rec", "swept"} \cup DOMAIN req[r] /\ req'[r].pc = "install"
    BY <2>2, <1>1, Goes
  <2>4. \A x \in {"kind", "path", "snap"} : x \in DOMAIN req[r] => req'[r][x] = req[r][x]
    BY <2>2, <1>1, Goes
  <2> QED BY <2>1, <2>3, <2>4, <1>1, <1>b DEF Progress, KeepsSnap, Carries, Has
<1>c. CASE OpenInstall(r)
  BY <1>c, <1>1 DEF OpenInstall, At, Where, Has, Progress, KeepsSweep
<1>d. CASE Switch(r) \/ Reorder(r) \/ Close(r) \/ Detach(r)
  BY <1>d, <1>2 DEF Switch, Reorder, Close, Detach, Begin, At
<1>e. CASE SaveCommit(r) \/ ReloadPut(r) \/ Discarded(r) \/ RecoverInstall(r) \/ TailInstall(r)
  BY <1>e, <1>2 DEF SaveCommit, ReloadPut, Discarded, RecoverInstall, TailInstall, At
<1>h. CASE SaveStart(r)
  <2>1. PICK force \in BOOLEAN :
            Done(r) \/ Goto(r, Over([force |-> force],
                                    [pc |-> "written", snap |-> live, path |-> live.doc.path]))
    BY <1>h DEF SaveStart, Snapshot
  <2> DEFINE f == Over([force |-> force], [pc |-> "written", snap |-> live, path |-> live.doc.path])
  <2>2. DOMAIN f = {"force", "pc", "snap", "path"} /\ f["pc"] = "written" /\ f["snap"] = live
    BY DEF Over
  <2> HIDE DEF f
  <2> QED BY <1>h, <2>1, <2>2, <1>2, <1>4 DEF SaveStart, Begin, At, Quiet, f
<1>i. CASE SaveConfirm(r)
  BY <1>i, <1>2, <1>3 DEF SaveConfirm, At
<1>j. CASE SaveSwap(r)
  BY <1>j, <1>2, <1>3 DEF SaveSwap, At
<1>l. CASE SaveAsStart(r)
  BY <1>l, <1>2, <1>4 DEF SaveAsStart, Begin, At, Quiet
<1>m. CASE SaveAsWrite(r)
  BY <1>m, <1>3 DEF SaveAsWrite, At
<1>n. CASE SaveAsConfirm(r)
  BY <1>n, <1>2, <1>3 DEF SaveAsConfirm, At
<1>o. CASE SortStart(r)
  <2> DEFINE f == Over([out |-> None], [pc |-> "written", snap |-> live, path |-> live.doc.path])
  <2>1. Goto(r, f) BY <1>o DEF SortStart, Snapshot
  <2>2. DOMAIN f = {"out", "pc", "snap", "path"} /\ f["pc"] = "written" /\ f["snap"] = live
    BY DEF Over
  <2> HIDE DEF f
  <2> QED BY <1>o, <2>1, <2>2, <1>4 DEF SortStart, Begin, At, Quiet
<1>p. CASE SortRun(r)
  BY <1>p, <1>3 DEF SortRun, At
<1>q. CASE SortDetach(r)
  BY <1>q, <1>2, <1>3 DEF SortDetach, At
<1>r. CASE SortReplace(r)
  BY <1>r, <1>3 DEF SortReplace, At
<1>s. CASE RevertStart(r)
  BY <1>s, <1>4 DEF RevertStart, Begin, At
<1>t. CASE Reload(r)
  <2> DEFINE d == Doc(r, req[r].path, disk[req[r].path])
  <2>1. Done(r) \/ Goto(r, [pc |-> "put", doc |-> d]) BY <1>t DEF Reload
  <2> HIDE DEF d
  <2>2. CASE Goto(r, [pc |-> "put", doc |-> d])
    BY <1>t, <2>2, <1>1, Goes DEF Reload, At, Progress, KeepsSnap, Carries, Has
  <2> QED BY <1>t, <2>1, <2>2, <1>2 DEF Reload, At
<1>v. CASE RecoverStart(r)
  BY <1>v, <1>4 DEF RecoverStart, Begin, At, Quiet
<1>x. CASE Replay(r)
  <2>1. CASE Done(r) BY <1>x, <2>1, <1>2 DEF Replay, At
  <2>2. CASE Goto(r, [pc |-> "replayed", view |-> log[req[r].path].view])
    BY <1>x, <2>2, <1>1, Goes DEF Replay, At, Progress, KeepsSnap, KeepsDoc, Carries, Has
  <2> QED BY <1>x, <2>1, <2>2 DEF Replay
<1>z. CASE TailLook(r)
  <2> DEFINE d == Doc(r, live.doc.path, disk[live.doc.path])
  <2>1. CASE Done(r) BY <1>z, <2>1, <1>2 DEF TailLook, Begin, At
  <2>2. CASE Goto(r, [pc |-> "grown", snap |-> live, path |-> live.doc.path, doc |-> d])
    <3> HIDE DEF d
    <3> QED BY <1>z, <2>2, <1>1, Goes DEF TailLook, Begin, At, Progress, TakesSnap, Quiet, Where, Has
  <2> QED BY <1>z, <2>1, <2>2 DEF TailLook
<1>ab. CASE ViewLook(r)
  BY <1>ab, <1>1, Goes DEF ViewLook, Begin, At, Progress, TakesSnap, Quiet, Where, Has
<1>ac. CASE ViewStore(r)
  BY <1>ac, <1>1, Goes DEF ViewStore, At, Progress, KeepsSnap, KeepsDoc, Carries, Has
<1> QED
  BY <1>a, <1>b, <1>c, <1>d, <1>e, <1>h, <1>i, <1>j, <1>l, <1>m, <1>n, <1>o, <1>p, <1>q, <1>r,
     <1>s, <1>t, <1>v, <1>x, <1>z, <1>ab, <1>ac DEF Step

\* A log that an open has deleted stays deleted behind the back of its tabs.
LEMMA SweptStays ==
    ASSUME RequestsOK, NEW r \in Requests, Moves(r), Progress(r), NEW p, SweptBehind(p)
    PROVE  SweptBehind(p)'
<1>1. PICK q \in Requests : Has(q, "swept") /\ req[q].swept /\ req[q].path = p
  BY DEF SweptBehind, Has
<1>2. Has(q, "swept")' /\ req'[q].swept /\ req'[q].path = p
  BY <1>1 DEF Progress, KeepsSweep, Moves, Has
<1> QED BY <1>2 DEF SweptBehind, Has

LEMMA TailStays ==
    ASSUME NEW r \in Requests, Moves(r), Progress(r), NEW s
    PROVE  (s.doc.h \in Requests /\ req'[s.doc.h].kind = "tail") <=> TailFollowed(s)
BY DEF TailFollowed, Moves, Progress

-----------------------------------------------------------------------------
(* What a step may do to the tabs.                                         *)

Asleep == [live EXCEPT !.wal = FALSE]

Alike(a, b) ==
    /\ a.doc = b.doc /\ a.view = b.view /\ a.saved = b.saved
    /\ a.rev = b.rev /\ a.rec = b.rec /\ a.base = b.base

\* Some slots stay, the live one may fall asleep, and what comes to life was
\* asleep or is the document of r.
Shuffled(r) ==
    /\ cache' = None
    /\ \A t \in DOMAIN inactive' :
        \/ t \in DOMAIN inactive /\ inactive'[t] = inactive[t]
        \/ t = active /\ t # active' /\ live.doc # None /\ inactive'[t] = Asleep
    /\ \/ live' = live /\ active' = active
       \/ live' = Empty
       \/ \E t \in DOMAIN inactive \ DOMAIN inactive' : live' = Attached(inactive[t])
       \/ \E b \in BOOLEAN : At(r, "install") /\ live' = Attached([Session(req[r].doc) EXCEPT !.rec = b])

TabsOK ==
    /\ nextId \in Nat \ {0}
    /\ live \in Sessions
    /\ active \in 1..(nextId - 1) \cup {None}
    /\ \A t \in DOMAIN inactive :
        inactive[t] \in Sessions /\ inactive[t].doc # None /\ ~inactive[t].wal
    /\ order \in Seq(1..(nextId - 1)) /\ IsInjective(order)
    /\ DOMAIN inactive \subseteq ToSet(order) \ {active}
    /\ live.doc # None => active \in ToSet(order)

LEMMA OrderFacts ==
    ASSUME TabsOK
    PROVE  /\ ToSet(order) \subseteq 1..(nextId - 1) /\ None \notin ToSet(order)
           /\ nextId \notin ToSet(order)
           /\ live.doc # None => active # None
<1>1. ToSet(order) \subseteq 1..(nextId - 1)
  BY DEF TabsOK, ToSet
<1>2. \A n \in 1..(nextId - 1) : n \in Nat /\ n # nextId
  BY DEF TabsOK
<1> QED BY <1>1, <1>2, NoneAssumption DEF TabsOK

LEMMA AsleepFacts ==
    ASSUME live \in Sessions
    PROVE  /\ Asleep \in Sessions /\ ~Asleep.wal /\ Alike(Asleep, live)
           /\ Whole(live) => Whole(Asleep)
<1>1. Asleep \in Sessions /\ ~Asleep.wal /\ Alike(Asleep, live) BY DEF Asleep, Sessions, Alike
<1> QED BY <1>1 DEF Whole, Alike

LEMMA ParkedFacts ==
    ASSUME TabsOK
    PROVE  /\ DOMAIN inactive \subseteq DOMAIN Parked
           /\ \A t \in DOMAIN inactive : Parked[t] = inactive[t]
           /\ \A t \in DOMAIN Parked \ DOMAIN inactive :
                t = active /\ live.doc # None /\ Parked[t] = Asleep
           /\ live.doc # None => active \in DOMAIN Parked
           /\ DOMAIN Parked \subseteq ToSet(order)
<1>1. active \notin DOMAIN inactive BY DEF TabsOK
<1>2. CASE active # None /\ live.doc # None
  <2> DEFINE f == [t \in {active} |-> Asleep]
  <2>1. Parked = Over(f, inactive) BY <1>2 DEF Parked, Asleep
  <2>2. DOMAIN f = {active} /\ f[active] = Asleep OBVIOUS
  <2> HIDE DEF f
  <2>3. /\ DOMAIN Parked = {active} \cup DOMAIN inactive /\ Parked[active] = Asleep
        /\ \A t \in DOMAIN inactive : Parked[t] = inactive[t]
    BY <1>1, <2>1, <2>2 DEF Over
  <2> QED BY <1>2, <2>3 DEF TabsOK
<1>3. CASE ~(active # None /\ live.doc # None)
  BY <1>1, <1>3, OrderFacts DEF Parked, TabsOK
<1> QED BY <1>2, <1>3

LEMMA FocusMoves ==
    ASSUME TabsOK, SlotsWhole, NEW t, Focus(t), NEW r
    PROVE  TabsOK' /\ SlotsWhole' /\ Shuffled(r)
<1>1. CASE active = t \/ t \notin ToSet(order)
  BY <1>1 DEF Focus, tabs, TabsOK, SlotsWhole, Whole, Shuffled
<1>2. CASE ~(active = t \/ t \notin ToSet(order))
  <2> DEFINE s == IF t \in DOMAIN Parked THEN Parked[t] ELSE Empty
  <2>1. /\ cache' = None /\ live' = Attached(s) /\ active' = t /\ t # active /\ t \in ToSet(order)
        /\ DOMAIN inactive' = DOMAIN Parked \ {t} /\ UNCHANGED <<order, nextId>>
        /\ \A u \in DOMAIN inactive' : inactive'[u] = Parked[u]
    BY <1>2 DEF Focus, Without
  <2>2. IF t \in DOMAIN inactive THEN s = inactive[t] ELSE s = Empty
    BY <2>1, ParkedFacts
  <2>3. s \in Sessions /\ Whole(s) /\ (s.doc # None => s = inactive[t] /\ t \in DOMAIN inactive)
    BY <2>2, EmptyFacts DEF TabsOK, SlotsWhole
  <2> HIDE DEF s
  <2>4. live' \in Sessions /\ Whole(live')
    BY <2>1, <2>3, AttachedFacts
  <2>5. \A u \in DOMAIN inactive' :
            \/ u \in DOMAIN inactive /\ inactive'[u] = inactive[u]
            \/ u = active /\ u # active' /\ live.doc # None /\ inactive'[u] = Asleep
    BY <2>1, ParkedFacts
  <2>6. \A u \in DOMAIN inactive' :
            inactive'[u] \in Sessions /\ inactive'[u].doc # None /\ ~inactive'[u].wal /\ Whole(inactive'[u])
    BY <2>5, AsleepFacts DEF TabsOK, SlotsWhole, Alike
  <2>7. TabsOK'
    <3>1. active' \in 1..(nextId' - 1) BY <2>1, OrderFacts
    <3>2. DOMAIN inactive' \subseteq ToSet(order') \ {active'} BY <2>1, ParkedFacts
    <3> QED BY <2>1, <2>4, <2>6, <3>1, <3>2 DEF TabsOK
  <2>8. SlotsWhole'
    BY <2>4, <2>6 DEF SlotsWhole, Whole
  <2>9. live' = Empty \/ (t \in DOMAIN inactive \ DOMAIN inactive' /\ live' = Attached(inactive[t]))
    BY <2>1, <2>2, AttachedEmpty
  <2> QED BY <2>1, <2>5, <2>7, <2>8, <2>9 DEF Shuffled
<1> QED BY <1>1, <1>2

LEMMA NewTabMoves ==
    ASSUME TabsOK, SlotsWhole, disk \in [Paths -> Files], NEW r, At(r, "install"),
           req[r].doc \in Docs, NEW b \in BOOLEAN, NewTab(req[r].doc, b)
    PROVE  TabsOK' /\ SlotsWhole' /\ Shuffled(r)
<1> DEFINE s == [Session(req[r].doc) EXCEPT !.rec = b]
<1>1. /\ cache' = None /\ inactive' = Parked /\ order' = Append(order, nextId)
      /\ active' = nextId /\ nextId' = nextId + 1 /\ live' = Attached(s)
  BY DEF NewTab
<1>2. s \in Sessions /\ Whole(s) BY SessionFacts
<1>3. Shuffled(r)
  <2>1. \A u \in DOMAIN inactive' :
            \/ u \in DOMAIN inactive /\ inactive'[u] = inactive[u]
            \/ u = active /\ u # active' /\ live.doc # None /\ inactive'[u] = Asleep
    BY <1>1, ParkedFacts, OrderFacts DEF TabsOK
  <2> QED BY <1>1, <2>1 DEF Shuffled
<1> HIDE DEF s
<1>4. live' \in Sessions /\ Whole(live') BY <1>1, <1>2, AttachedFacts
<1>5. \A u \in DOMAIN inactive' :
            inactive'[u] \in Sessions /\ inactive'[u].doc # None /\ ~inactive'[u].wal /\ Whole(inactive'[u])
  BY <1>3, AsleepFacts DEF TabsOK, SlotsWhole, Alike, Shuffled
<1>6. SlotsWhole' BY <1>4, <1>5 DEF SlotsWhole, Whole
<1>7. IsInjective(order') /\ ToSet(order') = ToSet(order) \cup {nextId}
  BY <1>1, OrderFacts, AppendFacts DEF TabsOK
<1>8. order' \in Seq(1..(nextId' - 1)) /\ active' \in 1..(nextId' - 1) /\ nextId' \in Nat \ {0}
  <2>1. \A n \in 1..(nextId - 1) : n \in 1..nextId BY DEF TabsOK
  <2>2. nextId \in 1..nextId /\ nextId' - 1 = nextId BY <1>1 DEF TabsOK
  <2>3. order \in Seq(1..nextId)
    <3>1. \A n \in DOMAIN order : order[n] \in 1..nextId BY <2>1, OrderFacts DEF ToSet
    <3> QED BY <3>1 DEF TabsOK
  <2> QED BY <1>1, <2>2, <2>3 DEF TabsOK
<1>9. DOMAIN inactive' \subseteq ToSet(order') \ {active'}
  BY <1>1, <1>7, ParkedFacts, OrderFacts
<1>10. TabsOK' BY <1>1, <1>4, <1>5, <1>7, <1>8, <1>9 DEF TabsOK
<1> QED BY <1>3, <1>6, <1>10

LEMMA RemovedMoves ==
    ASSUME TabsOK, SlotsWhole, NEW t \in ToSet(order), Removed(t), cache' = None, NEW r
    PROVE  TabsOK' /\ SlotsWhole' /\ Shuffled(r)
<1>1. /\ order' = Rest(t) /\ nextId' = nextId /\ order' \in Seq(1..(nextId' - 1))
      /\ IsInjective(order') /\ ToSet(order') = ToSet(order) \ {t}
  BY RestFacts DEF TabsOK, Removed
<1>2. CASE t # active
  <2>1. UNCHANGED <<live, active>> /\ DOMAIN inactive' = DOMAIN inactive \ {t}
        /\ \A u \in DOMAIN inactive' : inactive'[u] = inactive[u]
    BY <1>2 DEF Removed, Without
  <2>2. SlotsWhole' BY <2>1 DEF SlotsWhole, Whole
  <2>3. TabsOK' BY <1>1, <1>2, <2>1 DEF TabsOK
  <2> QED BY <2>1, <2>2, <2>3 DEF Shuffled
<1>3. CASE t = active /\ live.doc = None
  <2>1. UNCHANGED <<live, active, inactive>> BY <1>3 DEF Removed
  <2>2. SlotsWhole' BY <2>1 DEF SlotsWhole, Whole
  <2>3. TabsOK' BY <1>1, <1>3, <2>1 DEF TabsOK
  <2> QED BY <2>1, <2>2, <2>3 DEF Shuffled
<1>4. CASE t = active /\ live.doc # None
  <2> DEFINE n == Neighbor(t)
  <2>1. /\ active' = n /\ DOMAIN inactive' = DOMAIN inactive \ {n}
        /\ \A u \in DOMAIN inactive' : inactive'[u] = inactive[u]
        /\ live' = IF n \in DOMAIN inactive THEN Attached(inactive[n]) ELSE Empty
    BY <1>4 DEF Removed, Without
  <2>2. n \in (ToSet(order) \ {t}) \cup {None} BY NeighborFacts DEF TabsOK
  <2> HIDE DEF n
  <2>3. live' \in Sessions /\ Whole(live') /\ (live'.doc # None => n \in DOMAIN inactive)
    BY <2>1, AttachedFacts, EmptyFacts DEF TabsOK, SlotsWhole
  <2>4. SlotsWhole' BY <2>1, <2>3 DEF SlotsWhole, Whole
  <2>5. DOMAIN inactive \subseteq ToSet(order') BY <1>1, <1>4 DEF TabsOK
  <2>6. active' \in 1..(nextId' - 1) \cup {None} BY <1>1, <2>1, <2>2, OrderFacts
  <2>7. TabsOK' BY <1>1, <2>1, <2>3, <2>5, <2>6 DEF TabsOK
  <2> QED BY <2>1, <2>4, <2>7 DEF Shuffled
<1> QED BY <1>2, <1>3, <1>4

LEMMA ShufflesShuffle ==
    ASSUME TypeOK, SlotsWhole, RequestsOK, NEW r \in Requests, Shuffles(r)
    PROVE  TabsOK' /\ SlotsWhole' /\ (Shuffled(r) \/ (cache' = None /\ UNCHANGED tabs))
<1> DEFINE Good == TabsOK' /\ SlotsWhole' /\ Shuffled(r)
<1>1. TabsOK /\ disk \in [Paths -> Files] BY DEF TypeOK, TabsOK
<1>a. ASSUME NEW t, Focus(t) PROVE Good
  BY <1>1, <1>a, FocusMoves
<1>b. ASSUME NEW t \in ToSet(order), Removed(t), cache' = None PROVE Good
  BY <1>1, <1>b, RemovedMoves
<1>c. ASSUME At(r, "install"), req[r].doc \in Docs, NEW b \in BOOLEAN, NewTab(req[r].doc, b) PROVE Good
  BY <1>1, <1>c, NewTabMoves
<1> HIDE DEF Good
<1>2. CASE OpenInstall(r)
  <2>1. At(r, "install") /\ req[r].doc \in Docs /\ req[r].rec \in BOOLEAN
    BY <1>2 DEF OpenInstall, At, RequestsOK, Carries, Where
  <2>2. (\E t \in TabWithPath(req[r].path) : Focus(t)) \/ NewTab(req[r].doc, req[r].rec)
    BY <1>2 DEF OpenInstall
  <2> QED BY <2>1, <2>2, <1>a, <1>c DEF Good
<1>3. CASE Switch(r)
  <2>1. \E t : Focus(t) BY <1>3 DEF Switch
  <2> QED BY <2>1, <1>a DEF Good
<1>4. CASE Close(r)
  <2>1. PICK t \in ToSet(order) : Removed(t) /\ cache' = None BY <1>4 DEF Close
  <2> QED BY <2>1, <1>b DEF Good
<1>5. CASE Detach(r)
  <2>1. cache' = None /\ \E t \in ToSet(order) : Removed(t) \/ UNCHANGED tabs
    BY <1>5 DEF Detach
  <2>2. CASE UNCHANGED tabs
    <3>1. UNCHANGED <<live, order, active, inactive, nextId>> BY <2>2 DEF tabs
    <3>2. SlotsWhole' BY <3>1 DEF SlotsWhole, Whole
    <3>3. TabsOK' BY <1>1, <3>1 DEF TabsOK
    <3> QED BY <2>1, <2>2, <3>2, <3>3
  <2> QED BY <2>1, <2>2, <1>b DEF Good
<1> QED BY <1>2, <1>3, <1>4, <1>5 DEF Shuffles

-----------------------------------------------------------------------------
(* Documents are installed once, and what is read off the lock is what was  *)
(* live: Fresh, Apart and Agree.                                           *)

Identity == Fresh /\ Apart /\ Agree

\* b is the same document as a, at a later revision or unchanged.
Continues(a, b) ==
    /\ a.doc # None /\ b.doc = a.doc
    /\ a.rev <= b.rev
    /\ a.rev = b.rev => b.view = a.view

\* The live slot goes on, loses its document, or shows the one r brought.
LiveMoves(r) ==
    /\ inactive' = inactive
    /\ \/ live' = live
       \/ live'.doc = None
       \/ Continues(live, live')
       \/ live'.doc # None /\ live'.doc.h = r /\ req'[r].pc = "done"

CacheMoves(r) ==
    \/ cache' = None
    \/ cache' = cache
    \/ /\ live' = live /\ Has(r, "snap") /\ cache' # None
       /\ cache'.h = req[r].snap.doc.h /\ cache'.rev = req[r].snap.rev
       /\ cache'.view = req[r].snap.view

\* Requests that are not done see what they saw.
RequestsGo(r) ==
    /\ Moves(r) /\ req[r].pc # "done"
    /\ \A q \in Requests : Has(q, "snap") => req[q].snap.doc # None /\ req[q].snap \in Sessions
    /\ Has(r, "snap")' => KeepsSnap(r) \/ (req'[r].snap = live /\ live.doc # None /\ live' = live
                                           /\ inactive' = inactive)

LEMMA RequestsGone ==
    ASSUME RequestsOK, NEW r \in Requests, Moves(r), Progress(r),
           Quiet(r) => live' = live /\ inactive' = inactive
    PROVE  RequestsGo(r)
<1>1. \A q \in Requests : Has(q, "snap") => req[q].snap.doc # None /\ req[q].snap \in Sessions
  BY DEF RequestsOK, Carries
<1> QED BY <1>1 DEF RequestsGo, Progress, TakesSnap

LEMMA SnapSources ==
    ASSUME NEW r \in Requests, RequestsGo(r), NEW q \in Requests, Has(q, "snap")'
    PROVE  \/ Has(q, "snap") /\ req'[q].snap = req[q].snap
           \/ req'[q].snap = live /\ live.doc # None /\ live' = live /\ inactive' = inactive
BY DEF RequestsGo, KeepsSnap, Moves, Has

\* A request that is not done after a step was not done before.
LEMMA NotDoneBefore ==
    ASSUME NEW r \in Requests, RequestsGo(r), NEW q \in Requests, req'[q].pc # "done"
    PROVE  req[q].pc # "done"
BY DEF RequestsGo, Moves

LEMMA FreshInPlace ==
    ASSUME Fresh, NEW r \in Requests, RequestsGo(r), LiveMoves(r), CacheMoves(r)
    PROVE  Fresh'
<1> SUFFICES ASSUME NEW n \in Requests, req'[n].pc # "done"
             PROVE  /\ ~Names(live', n)
                    /\ \A t \in DOMAIN inactive' : ~Names(inactive'[t], n)
                    /\ cache' # None => cache'.h # n
                    /\ \A q \in Requests : Has(q, "snap")' => ~Names(req'[q].snap, n)
  BY DEF Fresh, Names, Has
<1>1. /\ ~Names(live, n)
      /\ \A t \in DOMAIN inactive : ~Names(inactive[t], n)
      /\ cache # None => cache.h # n
      /\ \A q \in Requests : Has(q, "snap") => ~Names(req[q].snap, n)
  BY NotDoneBefore DEF Fresh
<1>2. ~Names(live', n) BY <1>1 DEF LiveMoves, Continues, Names
<1>3. \A t \in DOMAIN inactive' : ~Names(inactive'[t], n) BY <1>1 DEF LiveMoves
<1>4. cache' # None => cache'.h # n
  BY <1>1 DEF CacheMoves, RequestsGo, Names
<1>5. ASSUME NEW q \in Requests, Has(q, "snap")' PROVE ~Names(req'[q].snap, n)
  BY <1>1, <1>5, SnapSources
<1> QED BY <1>2, <1>3, <1>4, <1>5

LEMMA ApartInPlace ==
    ASSUME Fresh, Apart, NEW r \in Requests, RequestsGo(r), LiveMoves(r),
           \A t \in DOMAIN inactive : inactive[t].doc # None
    PROVE  Apart'
<1>1. \A t \in DOMAIN inactive : inactive[t].doc.h # r
  BY DEF Fresh, RequestsGo, Names
<1> QED BY <1>1 DEF Apart, LiveMoves, Continues

LEMMA EarlierOn ==
    ASSUME NEW a, NEW s, NEW b, Earlier(a, s), Continues(s, b),
           a.rev \in Nat, s.rev \in Nat, b.rev \in Nat
    PROVE  Earlier(a, b)
BY DEF Earlier, Continues

LEMMA AgreeInPlace ==
    ASSUME Fresh, Apart, Agree, NEW r \in Requests, RequestsGo(r), LiveMoves(r), CacheMoves(r),
           live \in Sessions, live' \in Sessions, cache \in Snapshots \cup {None},
           \A t \in DOMAIN inactive : inactive[t].doc # None
    PROVE  Agree'
<1>1. live.rev \in Nat /\ live'.rev \in Nat BY DEF Sessions
<1>2. ASSUME NEW q \in Requests, Has(q, "snap"), req'[q].snap = req[q].snap
      PROVE  Earlier(req'[q].snap, live') /\ \A t \in DOMAIN inactive' : Earlier(req'[q].snap, inactive'[t])
  <2> DEFINE a == req[q].snap
  <2>1. Earlier(a, live) /\ (\A t \in DOMAIN inactive : Earlier(a, inactive[t]))
        /\ a.doc # None /\ a.rev \in Nat
    BY <1>2 DEF Agree, RequestsGo, Sessions
  <2>2. a.doc.h # r BY <1>2 DEF Fresh, RequestsGo, Names
  <2> HIDE DEF a
  <2>3. Earlier(a, live')
    BY <1>1, <2>1, <2>2, EarlierOn DEF LiveMoves, Earlier
  <2> QED BY <1>2, <2>1, <2>3 DEF LiveMoves, a
<1>3. ASSUME NEW q \in Requests, req'[q].snap = live, live.doc # None, live' = live, inactive' = inactive
      PROVE  Earlier(req'[q].snap, live') /\ \A t \in DOMAIN inactive' : Earlier(req'[q].snap, inactive'[t])
  BY <1>1, <1>3 DEF Earlier, Apart
<1>4. ASSUME NEW q \in Requests, Has(q, "snap")'
      PROVE  Earlier(req'[q].snap, live') /\ \A t \in DOMAIN inactive' : Earlier(req'[q].snap, inactive'[t])
  BY <1>2, <1>3, <1>4, SnapSources
<1>5. ASSUME cache' # None, live'.doc # None, live'.doc.h = cache'.h
      PROVE  cache'.rev <= live'.rev /\ (cache'.rev = live'.rev => cache'.view = live'.view)
  <2>1. CASE cache' = cache
    <3>1. cache.rev \in Nat /\ cache # None BY <1>5, <2>1 DEF Snapshots
    <3>2. cache.h # r BY <3>1 DEF Fresh, RequestsGo
    <3>3. CASE live' = live BY <1>5, <2>1, <3>1, <3>3 DEF Agree
    <3>4. CASE Continues(live, live')
      <4>1. live.doc # None /\ live.doc.h = cache.h BY <1>5, <2>1, <3>4 DEF Continues
      <4>2. cache.rev <= live.rev /\ (cache.rev = live.rev => cache.view = live.view)
        BY <3>1, <4>1 DEF Agree
      <4> QED BY <1>1, <2>1, <3>1, <3>4, <4>2 DEF Continues
    <3> QED BY <1>5, <2>1, <3>2, <3>3, <3>4 DEF LiveMoves
  <2>2. CASE cache' # cache
    <3>1. live' = live /\ Has(r, "snap") /\ Earlier(req[r].snap, live)
          /\ cache'.h = req[r].snap.doc.h /\ cache'.rev = req[r].snap.rev
          /\ cache'.view = req[r].snap.view
      BY <1>5, <2>2 DEF CacheMoves, Agree
    <3> QED BY <1>5, <3>1 DEF Earlier
  <2> QED BY <2>1, <2>2
<1> QED BY <1>4, <1>5 DEF Agree, Earlier, Has

\* A slot after a shuffle is one of the slots before it, or the document of r.
LEMMA ShuffledSlots ==
    ASSUME TypeOK, NEW r, Shuffled(r)
    PROVE  /\ \A t \in DOMAIN inactive' :
                \/ t \in DOMAIN inactive /\ inactive'[t] = inactive[t]
                \/ t = active /\ t # active' /\ live.doc # None /\ Alike(inactive'[t], live)
           /\ \/ live' = live /\ active' = active
              \/ live'.doc = None
              \/ \E t \in DOMAIN inactive \ DOMAIN inactive' : Alike(live', inactive[t])
              \/ At(r, "install") /\ (req[r].doc \in Docs =>
                    /\ live'.doc = req[r].doc /\ live'.doc # None /\ live'.rev = 0
                    /\ live'.base = disk[req[r].doc.path])
<1>1. live \in Sessions /\ disk \in [Paths -> Files] /\ \A t \in DOMAIN inactive : inactive[t] \in Sessions
  BY DEF TypeOK
<1>2. Alike(Asleep, live) BY <1>1, AsleepFacts
<1>3. \A t \in DOMAIN inactive : Alike(Attached(inactive[t]), inactive[t])
  BY <1>1, AttachedFacts DEF Alike
<1>4. ASSUME NEW b \in BOOLEAN, req[r].doc \in Docs, live' = Attached([Session(req[r].doc) EXCEPT !.rec = b])
      PROVE  /\ live'.doc = req[r].doc /\ live'.doc # None /\ live'.rev = 0
             /\ live'.base = disk[req[r].doc.path]
  <2> DEFINE s == [Session(req[r].doc) EXCEPT !.rec = b]
  <2>1. /\ s \in Sessions /\ s.doc = req[r].doc /\ s.doc # None /\ s.rev = 0
        /\ s.base = disk[req[r].doc.path]
    BY <1>1, <1>4, SessionFacts
  <2>2. live' = Attached(s) BY <1>4
  <2> HIDE DEF s
  <2> QED BY <2>1, <2>2, AttachedFacts
<1> QED BY <1>2, <1>3, <1>4, EmptyFacts DEF Shuffled

\* r ends with the document it brought.
Brings(r) == At(r, "install") => req[r].doc \in Docs /\ req[r].doc.h = r /\ req'[r].pc = "done"

LEMMA FreshShuffled ==
    ASSUME TypeOK, Fresh, NEW r \in Requests, RequestsGo(r), Brings(r), Shuffled(r), ~Quiet(r)
    PROVE  Fresh'
<1> SUFFICES ASSUME NEW n \in Requests, req'[n].pc # "done"
             PROVE  /\ ~Names(live', n)
                    /\ \A t \in DOMAIN inactive' : ~Names(inactive'[t], n)
                    /\ cache' # None => cache'.h # n
                    /\ \A q \in Requests : Has(q, "snap")' => ~Names(req'[q].snap, n)
  BY DEF Fresh, Names, Has
<1>1. /\ ~Names(live, n)
      /\ \A t \in DOMAIN inactive : ~Names(inactive[t], n)
      /\ \A q \in Requests : Has(q, "snap") => ~Names(req[q].snap, n)
  BY NotDoneBefore DEF Fresh
<1>2. ~Names(live', n)
  BY <1>1, ShuffledSlots DEF Names, Alike, Brings, At
<1>3. \A t \in DOMAIN inactive' : ~Names(inactive'[t], n)
  BY <1>1, ShuffledSlots DEF Names, Alike
<1>4. cache' = None BY DEF Shuffled
<1>5. ASSUME NEW q \in Requests, Has(q, "snap")' PROVE ~Names(req'[q].snap, n)
  BY <1>1, <1>5, SnapSources
<1> QED BY <1>2, <1>3, <1>4, <1>5

LEMMA ApartShuffled ==
    ASSUME TypeOK, Fresh, Apart, NEW r \in Requests, RequestsGo(r), Brings(r), Shuffled(r)
    PROVE  Apart'
<1>1. \A t \in DOMAIN inactive : inactive[t].doc # None /\ inactive[t].doc.h # r
  BY DEF TypeOK, Fresh, RequestsGo, Names
<1>2. live.doc # None => live.doc.h # r
  BY DEF Fresh, RequestsGo, Names
<1>3. ASSUME NEW t \in DOMAIN inactive', NEW u \in DOMAIN inactive', t # u
      PROVE  inactive'[t].doc.h # inactive'[u].doc.h
  <2>1. \/ t \in DOMAIN inactive /\ inactive'[t] = inactive[t]
        \/ t = active /\ live.doc # None /\ inactive'[t].doc = live.doc
    BY ShuffledSlots DEF Alike
  <2>2. \/ u \in DOMAIN inactive /\ inactive'[u] = inactive[u]
        \/ u = active /\ live.doc # None /\ inactive'[u].doc = live.doc
    BY ShuffledSlots DEF Alike
  <2> QED BY <1>3, <2>1, <2>2 DEF Apart
<1>4. ASSUME NEW t \in DOMAIN inactive', live'.doc # None
      PROVE  inactive'[t].doc.h # live'.doc.h
  <2>1. \/ t \in DOMAIN inactive /\ inactive'[t] = inactive[t]
        \/ t = active /\ t # active' /\ live.doc # None /\ inactive'[t].doc = live.doc
    BY ShuffledSlots DEF Alike
  <2>2. CASE live' = live /\ active' = active
    BY <1>4, <2>1, <2>2 DEF Apart
  <2>3. ASSUME NEW u \in DOMAIN inactive \ DOMAIN inactive', live'.doc = inactive[u].doc
        PROVE  inactive'[t].doc.h # live'.doc.h
    BY <1>4, <2>1, <2>3 DEF Apart
  <2>4. CASE At(r, "install") /\ (req[r].doc \in Docs => live'.doc = req[r].doc)
    <3>1. live'.doc.h = r BY <2>4 DEF Brings
    <3> QED BY <1>1, <1>2, <2>1, <3>1
  <2> QED BY <1>4, <2>2, <2>3, <2>4, ShuffledSlots DEF Alike
<1> QED BY <1>3, <1>4 DEF Apart

LEMMA AgreeShuffled ==
    ASSUME TypeOK, Fresh, Agree, NEW r \in Requests, RequestsGo(r), Brings(r), Shuffled(r),
           Has(r, "snap")' => KeepsSnap(r)
    PROVE  Agree'
<1>1. ASSUME NEW q \in Requests, Has(q, "snap")'
      PROVE  Earlier(req'[q].snap, live') /\ \A t \in DOMAIN inactive' : Earlier(req'[q].snap, inactive'[t])
  <2> DEFINE a == req[q].snap
  <2>1. Has(q, "snap") /\ req'[q].snap = a
    BY <1>1 DEF RequestsGo, Moves, KeepsSnap, Has
  <2>2. /\ Earlier(a, live) /\ \A t \in DOMAIN inactive : Earlier(a, inactive[t])
        /\ a.doc # None /\ a.doc.h # r
    BY <2>1 DEF Agree, RequestsGo, Fresh, Names
  <2> HIDE DEF a
  <2>3. \A t \in DOMAIN inactive' : Earlier(a, inactive'[t])
    BY <2>2, ShuffledSlots DEF Earlier, Alike
  <2>4. Earlier(a, live')
    BY <2>2, ShuffledSlots DEF Earlier, Alike, Brings
  <2> QED BY <2>1, <2>3, <2>4
<1>2. cache' = None BY DEF Shuffled
<1> QED BY <1>1, <1>2 DEF Agree, Earlier, Has

LEMMA QuietTabs ==
    ASSUME NEW r, Quiet(r)
    PROVE  UNCHANGED <<live, order, active, inactive, nextId>>
BY DEF Quiet, tabs, OpenStart, OpenLoad, SaveStart, SaveConfirm, SaveSwap, SaveAsStart, SaveAsWrite,
    SaveAsConfirm, SortStart, SortRun, RevertStart, Reload, RecoverStart, Replay,
    TailLook, ViewLook, ViewStore

LEMMA QuietCache ==
    ASSUME RequestsOK, NEW r \in Requests, Quiet(r)
    PROVE  CacheMoves(r) /\ (cache \in Snapshots \cup {None} => cache' \in Snapshots \cup {None})
<1>1. CASE ViewStore(r)
  <2> DEFINE s == req[r].snap
             c == [h |-> s.doc.h, rev |-> s.rev, view |-> s.view]
  <2>1. cache' = c /\ Has(r, "snap") /\ s \in Sessions /\ Whole(s) /\ s.doc # None
    BY <1>1 DEF ViewStore, At, RequestsOK, Carries, Where
  <2>2. c \in Snapshots
    BY <2>1 DEF Whole, Sessions, Docs, Snapshots
  <2>3. c # None BY <2>2, NoneAssumption
  <2> QED BY <1>1, <2>1, <2>2, <2>3, QuietTabs DEF CacheMoves
<1>2. CASE ViewLook(r)
  BY <1>2 DEF ViewLook, CacheMoves
<1>3. CASE ~ViewStore(r) /\ ~ViewLook(r)
  BY <1>3 DEF CacheMoves, Quiet, tabs, OpenStart, OpenLoad, SaveStart, SaveConfirm, SaveSwap,
      SaveAsStart, SaveAsWrite, SaveAsConfirm, SortStart, SortRun, RevertStart, Reload,
      RecoverStart, Replay, TailLook
<1> QED BY <1>1, <1>2, <1>3

\* What reload puts into the live slot.
LEMMA ReloadedFacts ==
    ASSUME TypeOK, SlotsWhole, NEW r, req[r].doc \in Docs
    PROVE  LET s == Reloaded(r) IN
           /\ s \in Sessions /\ Whole(s)
           /\ s.doc = req[r].doc /\ s.doc # None /\ s.base = disk[req[r].doc.path]
           /\ s.rec = live.rec /\ (s.wal => live.wal)
<1> DEFINE d == req[r].doc
           kept == [live EXCEPT !.doc = d, !.base = disk[d.path]]
<1>1. live \in Sessions /\ disk \in [Paths -> Files] /\ Whole(live) /\ live.rec \in BOOLEAN
      /\ disk[d.path] \in Files /\ d # None /\ disk[d.path] # None
  BY NoneAssumption DEF TypeOK, SlotsWhole, Sessions, Docs
<1>2. CASE req[r].kind = "sort" /\ live.view # None
  <2>1. Reloaded(r) = kept BY <1>2 DEF Reloaded
  <2>2. /\ kept \in Sessions /\ kept.doc = d /\ kept.base = disk[d.path]
        /\ kept.view = live.view /\ kept.saved = live.saved /\ kept.rec = live.rec /\ kept.wal = live.wal
    BY <1>1 DEF Sessions
  <2> HIDE DEF kept
  <2>3. Whole(kept) BY <1>1, <1>2, <2>2 DEF Whole
  <2> QED BY <1>1, <2>1, <2>2, <2>3
<1>3. CASE ~(req[r].kind = "sort" /\ live.view # None)
  <2> DEFINE s == [Session(d) EXCEPT !.rec = live.rec]
  <2>1. Reloaded(r) = s BY <1>3 DEF Reloaded, Reset
  <2>2. /\ s \in Sessions /\ Whole(s) /\ s.doc = d /\ s.doc # None
        /\ s.rec = live.rec /\ s.wal = FALSE /\ s.base = disk[d.path]
    BY <1>1, SessionFacts
  <2> HIDE DEF s
  <2> QED BY <2>1, <2>2
<1> QED BY <1>2, <1>3

\* The live slot after a step that works on it.
LEMMA WorksLive ==
    ASSUME TypeOK, SlotsWhole, RequestsOK, Held, Agree, NEW r \in Requests, Works(r)
    PROVE  /\ live' \in Sessions /\ Whole(live')
           /\ UNCHANGED <<order, active, inactive, nextId>>
           /\ live'.doc # None => live.doc # None \/ At(r, "put")
           /\ LiveMoves(r) /\ CacheMoves(r)
<1>1. live \in Sessions /\ Whole(live) /\ disk \in [Paths -> Files] /\ log \in [Paths -> Logs \cup {None}]
  BY DEF TypeOK, SlotsWhole
<1>2. Carries(r) /\ Where(r) BY DEF RequestsOK
<1>3. Done(r) => req'[r].pc = "done" BY Ends DEF TypeOK
<1>a. CASE SaveCommit(r)
  <2>1. Has(r, "snap") /\ live.doc # None
    BY <1>a, <1>2 DEF SaveCommit, At, Where, Held, HoldsLock
  <2>2. req[r].snap.view \in Contents /\ req[r].snap.view # None /\ disk[live.doc.path] \in Files
    BY <1>1, <1>2, <2>1, NoneAssumption DEF Carries, Whole, Sessions, Docs
  <2>3. /\ live' \in Sessions /\ live'.doc = live.doc /\ live'.view = live.view
        /\ live'.rev = live.rev /\ live'.saved # None /\ live'.base # None
    BY <1>a, <1>1, <2>2, NoneAssumption DEF SaveCommit, Committed, Sessions
  <2>4. Whole(live') /\ Continues(live, live')
    BY <1>1, <2>1, <2>3 DEF Whole, Continues, Sessions
  <2> QED BY <1>a, <2>1, <2>3, <2>4 DEF SaveCommit, LiveMoves, CacheMoves
<1>b. CASE SortDetach(r)
  <2>1. CASE live' = live
    BY <1>b, <1>1, <2>1 DEF SortDetach, files, LiveMoves, CacheMoves
  <2>2. CASE live' = [live EXCEPT !.doc = None, !.base = None]
    <3>1. live' \in Sessions /\ live'.doc = None /\ live'.view = live.view /\ live'.saved = live.saved
      BY <1>1, <2>2 DEF Sessions
    <3> QED BY <1>b, <1>1, <3>1 DEF SortDetach, files, LiveMoves, CacheMoves, Whole
  <2> QED BY <1>b, <2>1, <2>2 DEF SortDetach
<1>c. CASE SortReplace(r)
  <2>1. CASE live' = live
    BY <1>c, <1>1, <2>1 DEF SortReplace, files, LiveMoves, CacheMoves
  <2>2. CASE live' = [Empty EXCEPT !.rec = live.rec]
    <3>1. live' \in Sessions /\ live'.doc = None /\ live'.view = None
      BY <1>1, <2>2 DEF Sessions, Empty
    <3> QED BY <1>c, <1>1, <3>1 DEF SortReplace, files, LiveMoves, CacheMoves, Whole
  <2> QED BY <1>c, <2>1, <2>2 DEF SortReplace
<1>d. CASE ReloadPut(r)
  <2>1. req[r].doc \in Docs /\ req[r].doc.h = r
    BY <1>d, <1>2 DEF ReloadPut, At, Where, Carries
  <2>2. CASE live' = live
    BY <1>d, <1>1, <2>2 DEF ReloadPut, LiveMoves, CacheMoves
  <2>3. CASE live' = Attached(Reloaded(r))
    <3>1. Reloaded(r) \in Sessions /\ Whole(Reloaded(r)) /\ Reloaded(r).doc = req[r].doc /\ Reloaded(r).doc # None
      BY <2>1, ReloadedFacts
    <3>2. live' \in Sessions /\ Whole(live') /\ live'.doc # None /\ live'.doc.h = r
      BY <2>1, <2>3, <3>1, AttachedFacts
    <3> QED BY <1>d, <1>3, <3>2 DEF ReloadPut, LiveMoves, CacheMoves
  <2> QED BY <1>d, <2>2, <2>3 DEF ReloadPut
<1>e. CASE Discarded(r)
  <2> DEFINE s == [live EXCEPT !.rec = FALSE]
  <2>1. live.doc # None /\ live.doc.path = req[r].path
    BY <1>e, <1>2 DEF Discarded, At, Where, Held, HoldsLock
  <2>2. s \in Sessions /\ s.doc = live.doc /\ s.view = live.view /\ s.rev = live.rev
        /\ s.base = live.base /\ s.saved = live.saved
    BY <1>1 DEF Sessions
  <2>3. live' = Attached(s) BY <1>e DEF Discarded
  <2> HIDE DEF s
  <2>4. live' \in Sessions /\ Whole(live') /\ Continues(live, live')
    BY <1>1, <2>1, <2>2, <2>3, AttachedFacts DEF Whole, Continues, Sessions
  <2> QED BY <1>e, <2>1, <2>4 DEF Discarded, LiveMoves, CacheMoves
<1>f. CASE RecoverInstall(r)
  <2>1. CASE live' = live
    BY <1>f, <1>1, <2>1 DEF RecoverInstall, LiveMoves, CacheMoves
  <2>2. CASE live' # live
    <3>1. live.doc # None /\ req[r].view \in Contents /\ req[r].view # None
      BY <1>f, <1>2, NoneAssumption DEF RecoverInstall, At, Where, Held, HoldsLock
    <3>2. /\ live.rev = 0
          /\ live' = [live EXCEPT !.rec = FALSE, !.view = req[r].view, !.rev = 1, !.wal = TRUE]
          /\ cache' = None
      BY <1>f, <2>2 DEF RecoverInstall
    <3>3. /\ live' \in Sessions /\ live'.doc = live.doc /\ live'.rev = 1
          /\ live'.saved = live.saved /\ live'.base = live.base
      BY <1>1, <3>1, <3>2 DEF Sessions
    <3>4. Whole(live') /\ Continues(live, live')
      BY <1>1, <3>1, <3>2, <3>3 DEF Whole, Continues
    <3> QED BY <1>f, <3>1, <3>2, <3>3, <3>4 DEF RecoverInstall, LiveMoves, CacheMoves
  <2> QED BY <2>1, <2>2
<1>g. CASE TailInstall(r)
  <2>1. CASE live' = live
    BY <1>g, <1>1, <2>1 DEF TailInstall, files, LiveMoves, CacheMoves
  <2>2. CASE live' # live
    <3> DEFINE d == req[r].doc
    <3>1. /\ live.doc # None /\ cache' = None
          /\ live' = [live EXCEPT !.doc = d, !.base = disk[d.path],
                                  !.view = d.content, !.saved = d.content]
      BY <1>g, <2>2 DEF TailInstall, Unchanged
    <3>2. d \in Docs /\ d.h = r
      BY <1>g, <1>2 DEF TailInstall, At, Where, Carries
    <3>3. d # None /\ d.content \in Contents /\ d.content # None /\ disk[d.path] \in Files /\ disk[d.path] # None
      BY <1>1, <3>2, NoneAssumption DEF Docs
    <3> HIDE DEF d
    <3>4. /\ live' \in Sessions /\ live'.doc = d
          /\ live'.view = d.content /\ live'.saved = d.content /\ live'.base = disk[d.path]
      BY <1>1, <3>1, <3>2, <3>3 DEF Sessions
    <3>5. Whole(live') /\ live'.doc # None /\ live'.doc.h = r
      BY <3>2, <3>3, <3>4 DEF Whole
    <3> QED BY <1>g, <1>3, <3>1, <3>4, <3>5 DEF TailInstall, LiveMoves, CacheMoves
  <2> QED BY <2>1, <2>2
<1> QED BY <1>a, <1>b, <1>c, <1>d, <1>e, <1>f, <1>g DEF Works

LEMMA InstallBrings ==
    ASSUME TypeOK, RequestsOK, NEW r \in Requests, Shuffles(r)
    PROVE  Brings(r)
<1>1. ASSUME At(r, "install")
      PROVE  req[r].doc \in Docs /\ req[r].doc.h = r /\ OpenInstall(r)
  BY <1>1 DEF At, RequestsOK, Carries, Where, Shuffles, Switch, Close, Detach, Begin
<1>2. OpenInstall(r) => req'[r].pc = "done"
  BY DEF OpenInstall, TypeOK
<1> QED BY <1>1, <1>2 DEF Brings

\* No two documents are confused: Fresh, Apart and Agree are kept.
LEMMA IdentityKept ==
    ASSUME TypeOK, SlotsWhole, RequestsOK, Held, Fresh, Apart, Agree, NEW r \in Requests, Step(r)
    PROVE  Fresh' /\ Apart' /\ Agree'
<1>1. Moves(r) /\ Progress(r) BY RequestsMove, Progresses
<1>2. Quiet(r) => live' = live /\ inactive' = inactive BY QuietTabs
<1>3. RequestsGo(r) BY <1>1, <1>2, RequestsGone
<1>4. live \in Sessions /\ cache \in Snapshots \cup {None} /\ \A t \in DOMAIN inactive : inactive[t].doc # None
  BY DEF TypeOK
<1>5. LiveMoves(r) /\ CacheMoves(r) /\ live' \in Sessions => Fresh' /\ Apart' /\ Agree'
  BY <1>3, <1>4, FreshInPlace, ApartInPlace, AgreeInPlace
<1>6. CASE Quiet(r)
  <2>1. LiveMoves(r) BY <1>2, <1>6 DEF LiveMoves
  <2>2. CacheMoves(r) BY <1>6, QuietCache
  <2> QED BY <1>2, <1>4, <1>5, <1>6, <2>1, <2>2
<1>7. CASE Reorder(r)
  BY <1>4, <1>5, <1>7 DEF Reorder, LiveMoves, CacheMoves
<1>8. CASE Works(r)
  BY <1>5, <1>8, WorksLive
<1>9. CASE Shuffles(r) /\ ~Quiet(r)
  <2>1. Brings(r) /\ (Has(r, "snap")' => KeepsSnap(r))
    BY <1>1, <1>9, InstallBrings DEF Progress, TakesSnap
  <2>2. CASE Shuffled(r)
    BY <1>3, <1>9, <2>1, <2>2, FreshShuffled, ApartShuffled, AgreeShuffled
  <2>3. CASE cache' = None /\ UNCHANGED tabs
    BY <1>4, <1>5, <2>3 DEF tabs, LiveMoves, CacheMoves
  <2> QED BY <1>9, <2>2, <2>3, ShufflesShuffle
<1> QED BY <1>6, <1>7, <1>8, <1>9, StepKinds

-----------------------------------------------------------------------------
(* The logs.                                                               *)

\* Requests forget neither a sweep nor what they are for.
RequestsRemember ==
    /\ \A p \in Paths : SweptBehind(p) => SweptBehind(p)'
    /\ \A q \in Requests : req'[q].kind = req[q].kind

LEMMA StepRemembers ==
    ASSUME RequestsOK, NEW r \in Requests, Moves(r), Progress(r)
    PROVE  RequestsRemember
BY SweptStays DEF RequestsRemember, Moves, Progress

LogsOK == log \in [Paths -> Logs \cup {None}]

\* The log of p is as it was, or an open has swept it.
LogStays(p) == log'[p] = log[p] \/ (log'[p] = None /\ SweptBehind(p)')

LEMMA LiveLogStays ==
    ASSUME TypeOK, SlotsWhole, PastOf(live), LogOfLive, FilesMove, RequestsRemember,
           live' = live, live.doc # None => LogStays(live.doc.path)
    PROVE  LogOfLive'
<1> SUFFICES ASSUME live.wal, live.doc # None PROVE LogOfLive'
  BY DEF LogOfLive
<1> DEFINE p == live.doc.path
           l == log[p]
<1>1. p \in Paths /\ disk \in [Paths -> Files] /\ made \in Nat
      /\ live.base \in Files /\ live.base # None
  BY DEF TypeOK, Sessions, Docs, SlotsWhole, Whole
<1>2. Past(p, live.base) BY DEF PastOf
<1>3. ~DiskChanged(live)' => ~DiskChanged(live) /\ disk'[p] = disk[p]
  BY <1>1, <1>2, NoWayBack DEF DiskChanged
<1>4. TailFollowed(live)' <=> TailFollowed(live)
  BY DEF TailFollowed, RequestsRemember
<1>5. Dirty(live)' <=> Dirty(live) BY DEF Dirty
<1>6. CASE log'[p] = None /\ SweptBehind(p)'
  BY <1>6 DEF LogOfLive
<1>7. CASE log'[p] = l
  <2>1. CASE l = None
    BY <1>1, <1>7, <2>1 DEF LogOfLive, RequestsRemember
  <2>2. CASE l # None
    BY <1>3, <1>4, <1>5, <1>7, <2>2 DEF LogOfLive
  <2> QED BY <2>1, <2>2
<1> QED BY <1>1, <1>6, <1>7 DEF LogStays

\* A log that was started for the session that has come to life.
LEMMA LitLog ==
    ASSUME disk' = disk, disk \in [Paths -> Files],
           NEW s \in Sessions, Whole(s), s.doc # None, live' = Attached(s),
           log'[s.doc.path] = Header(s)
    PROVE  LogOfLive'
<1>1. /\ live'.doc = s.doc /\ live'.view = s.view /\ live'.saved = s.saved
  BY AttachedFacts
<1>2. /\ Header(s) # None
      /\ Header(s).on = disk[s.doc.path] /\ Header(s).base = s.doc.content
      /\ Header(s).view \in {None, s.view}
      /\ Dirty(s) => Header(s).view = s.view
  BY HeaderFacts
<1>3. Dirty(live)' <=> Dirty(s) BY <1>1 DEF Dirty
<1> QED BY <1>1, <1>2, <1>3 DEF LogOfLive

\* What happens to the logs while the tabs stay.
LEMMA QuietLogs ==
    ASSUME TypeOK, RequestsOK, Held, NEW r \in Requests, Quiet(r), Moves(r)
    PROVE  /\ LogsOK'
           /\ \A p \in Paths : LogStays(p) \/ (Replay(r) /\ p = req[r].path)
<1>1. log \in [Paths -> Logs \cup {None}] /\ disk \in [Paths -> Files] /\ DOMAIN req = Requests
      /\ Carries(r) /\ Where(r)
  BY DEF TypeOK, RequestsOK
<1>2. CASE OpenLoad(r)
  <2>p. PICK p \in Paths : p = req[r].path /\ Has(r, "path")
    BY <1>1, <1>2 DEF OpenLoad, At, Where, Carries
  <2> DEFINE d == Doc(r, p, disk[p])
             swept == log[p] # Prepared(p)[p]
  <2>1. Goto(r, [pc |-> "install", doc |-> d, rec |-> Recoverable(p), swept |-> swept])
        /\ log' = Prepared(p)
    BY <1>2, <2>p DEF OpenLoad
  <2>2. log' \in [Paths -> Logs \cup {None}]
        /\ \A q \in Paths : log'[q] = log[q] \/ (q = p /\ log'[q] = None)
    BY <1>1, <2>1 DEF Prepared
  <2>3. swept = (log'[p] # log[p]) BY <2>1
  <2> HIDE DEF d, swept
  <2>4. DOMAIN req'[r] = {"pc", "doc", "rec", "swept"} \cup DOMAIN req[r]
        /\ req'[r].swept = swept /\ req'[r].path = p
    BY <1>1, <2>1, <2>p, Goes DEF Has
  <2>5. log'[p] # log[p] => SweptBehind(p)' BY <2>3, <2>4 DEF SweptBehind
  <2> QED BY <2>2, <2>5 DEF LogsOK, LogStays
<1>3. CASE Replay(r)
  <2> DEFINE p == req[r].path
             m == [log[p] EXCEPT !.on = disk[p], !.base = live.doc.content]
  <2>1. p \in Paths /\ live.doc # None
    BY <1>1, <1>3 DEF Replay, At, Where, Carries, Held, HoldsLock
  <2>2. live.doc.content \in Contents BY <2>1 DEF TypeOK, Sessions, Docs
  <2>3. CASE log' = log BY <1>1, <2>3 DEF LogsOK, LogStays
  <2>4. CASE log' = [log EXCEPT ![p] = m] /\ log[p] # None
    <3>1. m \in Logs BY <1>1, <2>1, <2>2, <2>4 DEF Logs
    <3> HIDE DEF m
    <3> QED BY <1>1, <1>3, <2>1, <2>4, <3>1 DEF LogsOK, LogStays
  <2>5. log' = log \/ (log' = [log EXCEPT ![p] = m] /\ log[p] # None)
    BY <1>3 DEF Replay, Recoverable
  <2> QED BY <2>3, <2>4, <2>5
<1>4. CASE ~OpenLoad(r) /\ ~Replay(r)
  <2>1. log' = log
    BY <1>4 DEF Quiet, files, OpenStart, SaveStart, SaveConfirm, SaveSwap, SaveAsStart,
        SaveAsWrite, SaveAsConfirm, SortStart, SortRun, RevertStart, Reload, RecoverStart, TailLook,
        ViewLook, ViewStore
  <2> QED BY <1>1, <2>1 DEF LogsOK, LogStays
<1> QED BY <1>2, <1>3, <1>4

LEMMA QuietLogOfLive ==
    ASSUME TypeOK, SlotsWhole, RequestsOK, Held, PastOf(live), LogOfLive, Recovering, FilesMove,
           RequestsRemember, NEW r \in Requests, Quiet(r), Moves(r)
    PROVE  LogOfLive'
<1>1. live' = live BY QuietTabs
<1>2. CASE Replay(r)
  <2>1. live.rec /\ ~live.wal
    BY <1>2 DEF Replay, At, RequestsOK, Where, Held, HoldsLock, Recovering
  <2> QED BY <1>1, <2>1 DEF LogOfLive
<1>3. CASE ~Replay(r)
  <2>1. live.doc # None => live.doc.path \in Paths BY DEF TypeOK, Sessions, Docs
  <2>2. live.doc # None => LogStays(live.doc.path) BY <1>3, <2>1, QuietLogs
  <2> QED BY <1>1, <2>2, LiveLogStays
<1> QED BY <1>2, <1>3

\* A slot that comes to life is attached to a log, or nothing writes one.
LEMMA LitSlot ==
    ASSUME disk' = disk, disk \in [Paths -> Files], LogsOK,
           NEW s \in Sessions, Whole(s), s.rec => ~s.wal, live' = Attached(s),
           s.doc # None => log'[s.doc.path] = AttachedLog(s)[s.doc.path]
    PROVE  LogOfLive' /\ Recovering'
<1>1. /\ live'.doc = s.doc /\ live'.rec = s.rec /\ live'.wal = (Attaches(s) \/ s.wal)
  BY AttachedFacts
<1>2. Recovering' BY <1>1 DEF Recovering, Attaches
<1>3. CASE Attaches(s)
  <2>1. s.doc # None /\ AttachedLog(s)[s.doc.path] = Header(s)
    BY <1>3, AttachedLogFacts DEF Attaches, LogsOK
  <2> QED BY <1>2, <2>1, LitLog
<1>4. CASE ~Attaches(s)
  <2>1. s.doc = None \/ ~live'.wal BY <1>1, <1>4 DEF Attaches
  <2> QED BY <1>1, <1>2, <2>1 DEF LogOfLive
<1> QED BY <1>3, <1>4

LEMMA DeadLogFacts ==
    ASSUME NEW t, NEW relit \in [Paths -> Logs \cup {None}], NEW slots
    PROVE  /\ DeadLog(t, relit, slots) \in [Paths -> Logs \cup {None}]
           /\ \A p \in Paths : InUse(p, slots) => DeadLog(t, relit, slots)[p] = relit[p]
<1> DEFINE s == Slot(t)
<1>1. CASE s.doc = None \/ s.rec \/ InUse(s.doc.path, slots)
  BY <1>1 DEF DeadLog
<1>2. CASE ~(s.doc = None \/ s.rec \/ InUse(s.doc.path, slots))
  <2>1. DeadLog(t, relit, slots) = [relit EXCEPT ![s.doc.path] = None]
    BY <1>2 DEF DeadLog
  <2> HIDE DEF s
  <2>2. \A p \in Paths : InUse(p, slots) => p # s.doc.path
    BY <1>2
  <2> QED BY <2>1, <2>2
<1> QED BY <1>1, <1>2

\* What the steps below start from.
LogsBefore ==
    /\ TypeOK /\ SlotsWhole /\ PastOf(live) /\ LogOfLive /\ Recovering
    /\ FilesMove /\ RequestsRemember /\ disk' = disk

LEMMA Unlit ==
    ASSUME LogsBefore, live' = live, log' = log
    PROVE  LogsOK' /\ LogOfLive' /\ Recovering'
<1>1. LogsOK' /\ Recovering' BY DEF LogsBefore, TypeOK, LogsOK, Recovering
<1> QED BY <1>1, LiveLogStays DEF LogsBefore, LogStays

LEMMA FocusLogs ==
    ASSUME LogsBefore, NEW t, Focus(t)
    PROVE  LogsOK' /\ LogOfLive' /\ Recovering'
<1>1. TabsOK /\ LogsOK /\ disk \in [Paths -> Files] BY DEF LogsBefore, TypeOK, TabsOK, LogsOK
<1>2. CASE active = t \/ t \notin ToSet(order)
  <2>1. live' = live /\ log' = log BY <1>2 DEF Focus, tabs
  <2> QED BY <2>1, Unlit
<1>3. CASE ~(active = t \/ t \notin ToSet(order))
  <2> DEFINE s == IF t \in DOMAIN Parked THEN Parked[t] ELSE Empty
  <2>1. live' = Attached(s) /\ log' = AttachedLog(s)
    BY <1>3 DEF Focus
  <2>2. IF t \in DOMAIN inactive THEN s = inactive[t] ELSE s = Empty
    BY <1>1, <1>3, ParkedFacts
  <2>3. s \in Sessions /\ Whole(s) /\ ~s.wal
    BY <1>1, <2>2, EmptyFacts DEF TabsOK, SlotsWhole, LogsBefore
  <2> HIDE DEF s
  <2>4. LogsOK' BY <1>1, <2>1, <2>3, AttachedLogFacts DEF LogsOK
  <2> QED BY <1>1, <2>1, <2>3, <2>4, LitSlot DEF LogsBefore
<1> QED BY <1>2, <1>3

LEMMA NewTabLogs ==
    ASSUME LogsBefore, NEW d \in Docs, NEW b \in BOOLEAN, NewTab(d, b)
    PROVE  LogsOK' /\ LogOfLive' /\ Recovering'
<1> DEFINE s == [Session(d) EXCEPT !.rec = b]
<1>1. LogsOK /\ disk \in [Paths -> Files] BY DEF LogsBefore, TypeOK, LogsOK
<1>2. live' = Attached(s) /\ log' = AttachedLog(s) BY DEF NewTab
<1>3. s \in Sessions /\ Whole(s) /\ ~s.wal BY <1>1, SessionFacts
<1> HIDE DEF s
<1>4. LogsOK' BY <1>1, <1>2, <1>3, AttachedLogFacts DEF LogsOK
<1> QED BY <1>1, <1>2, <1>3, <1>4, LitSlot DEF LogsBefore

\* The logs of the tabs that stay when t leaves.
LEMMA RemovedLogs ==
    ASSUME LogsBefore, NEW t \in ToSet(order), Removed(t),
           \/ log' = RelitLog(t)
           \/ log' = DeadLog(t, RelitLog(t), {Slot(u) : u \in Open \ {t}})
    PROVE  LogsOK' /\ LogOfLive' /\ Recovering'
<1> DEFINE slots == {Slot(u) : u \in Open \ {t}}
           n == Neighbor(t)
<1>1. TabsOK /\ LogsOK /\ disk \in [Paths -> Files] BY DEF LogsBefore, TypeOK, TabsOK, LogsOK
<1>2. n \in DOMAIN inactive => inactive[n] \in Sessions /\ Whole(inactive[n]) /\ ~inactive[n].wal
      /\ inactive[n].doc # None /\ inactive[n].doc.path \in Paths
  BY <1>1 DEF TabsOK, SlotsWhole, LogsBefore, Sessions, Docs
<1>3. RelitLog(t) \in [Paths -> Logs \cup {None}]
  BY <1>1, <1>2, AttachedLogFacts DEF RelitLog, LogsOK
<1>4. /\ LogsOK'
      /\ \A p \in Paths : InUse(p, slots) => log'[p] = RelitLog(t)[p]
  <2>1. log' = RelitLog(t) \/ log' = DeadLog(t, RelitLog(t), slots) OBVIOUS
  <2> HIDE DEF slots
  <2> DEFINE dead == DeadLog(t, RelitLog(t), slots)
  <2>2. /\ dead \in [Paths -> Logs \cup {None}]
        /\ \A p \in Paths : InUse(p, slots) => dead[p] = RelitLog(t)[p]
    BY <1>3, DeadLogFacts
  <2> HIDE DEF dead
  <2>3. CASE log' = dead BY <2>2, <2>3 DEF LogsOK
  <2>4. CASE log' = RelitLog(t) BY <1>3, <2>4 DEF LogsOK
  <2> QED BY <2>1, <2>3, <2>4 DEF dead
<1>5. CASE t # active \/ live.doc = None
  <2>1. live' = live /\ RelitLog(t) = log BY <1>5 DEF Removed, RelitLog
  <2>2. ASSUME live.doc # None PROVE InUse(live.doc.path, slots) /\ live.doc.path \in Paths
    <3>1. active \in Open \ {t} /\ Slot(active) = live
      BY <1>1, <1>5, <2>2, OrderFacts DEF Open, Slot
    <3>2. live \in slots BY <3>1
    <3> QED BY <2>2, <3>2 DEF InUse, LogsBefore, TypeOK, Sessions, Docs
  <2>3. live.doc # None => LogStays(live.doc.path)
    BY <1>4, <2>1, <2>2 DEF LogStays
  <2>4. LogOfLive' BY <2>1, <2>3, LiveLogStays DEF LogsBefore
  <2> QED BY <1>4, <2>1, <2>4 DEF Recovering, LogsBefore
<1>6. CASE t = active /\ live.doc # None /\ n \in DOMAIN inactive
  <2>1. live' = Attached(inactive[n]) /\ RelitLog(t) = AttachedLog(inactive[n])
    BY <1>6 DEF Removed, RelitLog
  <2>2. n \in Open \ {t} /\ Slot(n) = inactive[n]
    BY <1>1, <1>6 DEF Open, Slot, TabsOK
  <2>3. inactive[n] \in slots BY <2>2
  <2>4. InUse(inactive[n].doc.path, slots) BY <1>2, <1>6, <2>3 DEF InUse
  <2>5. log'[inactive[n].doc.path] = AttachedLog(inactive[n])[inactive[n].doc.path]
    BY <1>2, <1>4, <1>6, <2>1, <2>4
  <2> QED BY <1>1, <1>2, <1>4, <1>6, <2>1, <2>5, LitSlot DEF LogsBefore
<1>7. CASE t = active /\ live.doc # None /\ n \notin DOMAIN inactive
  <2>1. live' = Empty BY <1>7 DEF Removed
  <2> QED BY <1>4, <2>1, EmptyFacts DEF LogOfLive, Recovering
<1> QED BY <1>5, <1>6, <1>7

LEMMA ShufflesLogs ==
    ASSUME LogsBefore, RequestsOK, NEW r \in Requests, Shuffles(r)
    PROVE  LogsOK' /\ LogOfLive' /\ Recovering'
<1> DEFINE Good == LogsOK' /\ LogOfLive' /\ Recovering'
<1>1. \A t : Focus(t) => Good BY FocusLogs
<1>2. ASSUME NEW t \in ToSet(order), Removed(t),
             \/ log' = RelitLog(t)
             \/ log' = DeadLog(t, RelitLog(t), {Slot(u) : u \in Open \ {t}})
      PROVE  Good
  BY <1>2, RemovedLogs
<1>3. ASSUME req[r].doc \in Docs, req[r].rec \in BOOLEAN, NewTab(req[r].doc, req[r].rec) PROVE Good
  BY <1>3, NewTabLogs
<1>4. live' = live /\ log' = log => Good BY Unlit
<1> HIDE DEF Good
<1>5. CASE OpenInstall(r)
  <2>1. req[r].doc \in Docs /\ req[r].rec \in BOOLEAN
    BY <1>5 DEF OpenInstall, At, RequestsOK, Carries, Where
  <2>2. (\E t \in TabWithPath(req[r].path) : Focus(t)) \/ NewTab(req[r].doc, req[r].rec)
    BY <1>5 DEF OpenInstall
  <2> QED BY <1>1, <1>3, <2>1, <2>2 DEF Good
<1>6. CASE Switch(r)
  <2>1. \E t : Focus(t) BY <1>6 DEF Switch
  <2> QED BY <1>1, <2>1 DEF Good
<1>7. CASE Close(r)
  <2>1. PICK t \in ToSet(order) :
            /\ Removed(t)
            /\ log' = IF t \in Open
                      THEN DeadLog(t, RelitLog(t), {Slot(u) : u \in Open \ {t}})
                      ELSE log
    BY <1>7 DEF Close
  <2>2. CASE t \in Open BY <1>2, <2>1, <2>2 DEF Good
  <2>3. CASE t \notin Open
    <3>1. t # active
      <4>1. TabsOK BY DEF LogsBefore, TypeOK, TabsOK
      <4> QED BY <2>3, <4>1, OrderFacts DEF Open
    <3>2. RelitLog(t) = log BY <3>1 DEF RelitLog
    <3> QED BY <1>2, <2>1, <2>3, <3>2 DEF Good
  <2> QED BY <2>2, <2>3
<1>8. CASE Detach(r)
  <2>1. PICK t \in ToSet(order) :
            \/ UNCHANGED <<tabs, log>>
            \/ Removed(t) /\ log' = RelitLog(t)
    BY <1>8 DEF Detach
  <2>2. UNCHANGED <<tabs, log>> => live' = live /\ log' = log BY DEF tabs
  <2> QED BY <1>2, <1>4, <2>1, <2>2 DEF Good
<1> QED BY <1>5, <1>6, <1>7, <1>8 DEF Shuffles

LEMMA SaveCommitLogs ==
    ASSUME LogsBefore, RequestsOK, Held, NEW r \in Requests, SaveCommit(r)
    PROVE  LogsOK' /\ LogOfLive' /\ Recovering'
<1> DEFINE v == req[r].snap.view
           c == disk[live.doc.path]
           m == [on |-> c, base |-> v, view |-> IF live.view = v THEN None ELSE live.view]
<1>1. live \in Sessions /\ LogsOK /\ disk \in [Paths -> Files] /\ Whole(live)
  BY DEF LogsBefore, TypeOK, LogsOK, SlotsWhole
<1>2. live.doc # None /\ v \in Contents
  BY DEF SaveCommit, At, RequestsOK, Where, Carries, Held, HoldsLock, Whole, Sessions
<1>3. live.doc.path \in Paths /\ c \in Files /\ live.view \in Contents
  BY <1>1, <1>2 DEF Sessions, Docs, Whole
<1>4. live' = [live EXCEPT !.saved = v, !.base = c]
      /\ log' = IF live.wal THEN [log EXCEPT ![live.doc.path] = m] ELSE log
  BY DEF SaveCommit, Committed
<1>5. m \in Logs /\ m # None
  <2>1. m \in Logs BY <1>2, <1>3 DEF Logs
  <2> QED BY <2>1, NoneAssumption
<1>6. /\ m.on = c /\ m.base = v
      /\ m.view = IF live.view = v THEN None ELSE live.view
  OBVIOUS
<1> HIDE DEF m, v
<1>7. LogsOK' BY <1>1, <1>3, <1>4, <1>5 DEF LogsOK
<1>8. /\ live'.doc = live.doc /\ live'.view = live.view /\ live'.saved = v /\ live'.base = c
      /\ live'.wal = live.wal /\ live'.rec = live.rec
  BY <1>1, <1>4 DEF Sessions
<1>9. Recovering' BY <1>8 DEF Recovering, LogsBefore
<1>10. disk' = disk BY DEF LogsBefore
<1>11. ASSUME live.wal PROVE LogOfLive'
  <2>1. log'[live.doc.path] = m BY <1>1, <1>3, <1>4, <1>11 DEF LogsOK
  <2> QED BY <1>3, <1>5, <1>6, <1>8, <1>10, <2>1 DEF LogOfLive, Dirty
<1> QED BY <1>7, <1>8, <1>9, <1>11 DEF LogOfLive

LEMMA ReloadPutLogs ==
    ASSUME LogsBefore, RequestsOK, NEW r \in Requests, ReloadPut(r)
    PROVE  LogsOK' /\ LogOfLive' /\ Recovering'
<1>1. LogsOK /\ disk \in [Paths -> Files] BY DEF LogsBefore, TypeOK, LogsOK
<1>2. req[r].doc \in Docs /\ req[r].doc.path = req[r].path /\ req[r].path \in Paths
  BY DEF ReloadPut, At, RequestsOK, Where, Carries
<1>3. CASE live' = live /\ log' = log BY <1>3, Unlit
<1>4. CASE ~(live' = live /\ log' = log)
  <2> DEFINE s == Reloaded(r)
             old == OldPath(r)
  <2>1. /\ live' = Attached(s)
        /\ log' = IF old # req[r].path THEN [AttachedLog(s) EXCEPT ![old] = None] ELSE AttachedLog(s)
    BY <1>4 DEF ReloadPut
  <2>2. /\ s \in Sessions /\ Whole(s) /\ s.doc = req[r].doc
        /\ s.rec = live.rec /\ (s.wal => live.wal)
    BY <1>2, ReloadedFacts DEF LogsBefore
  <2>3. s.rec => ~s.wal BY <2>2 DEF LogsBefore, Recovering
  <2> HIDE DEF s, old
  <2>4. AttachedLog(s) \in [Paths -> Logs \cup {None}]
    BY <1>1, <2>2, AttachedLogFacts DEF LogsOK
  <2>5. LogsOK' BY <2>1, <2>4 DEF LogsOK
  <2>6. log'[s.doc.path] = AttachedLog(s)[s.doc.path]
    BY <1>2, <2>1, <2>2, <2>4
  <2> QED BY <1>1, <2>1, <2>2, <2>3, <2>5, <2>6, LitSlot DEF LogsBefore
<1> QED BY <1>3, <1>4

LEMMA DiscardedLogs ==
    ASSUME LogsBefore, RequestsOK, Held, NEW r \in Requests, Discarded(r)
    PROVE  LogsOK' /\ LogOfLive' /\ Recovering'
<1> DEFINE s == [live EXCEPT !.rec = FALSE]
<1>1. LogsOK /\ disk \in [Paths -> Files] /\ live \in Sessions /\ Whole(live)
  BY DEF LogsBefore, TypeOK, LogsOK, SlotsWhole
<1>2. live.doc # None /\ live.doc.path = req[r].path /\ live.rec
  BY DEF Discarded, At, RequestsOK, Where, Held, HoldsLock
<1>3. live' = Attached(s) /\ log' = [log EXCEPT ![req[r].path] = Header(s)]
  BY DEF Discarded
<1>4. s \in Sessions /\ s.doc = live.doc /\ s.view = live.view /\ s.saved = live.saved
      /\ s.base = live.base /\ s.rec = FALSE /\ s.wal = live.wal
  BY <1>1 DEF Sessions
<1> HIDE DEF s
<1>5. Whole(s) BY <1>1, <1>4 DEF Whole
<1>6. s.doc # None /\ s.doc.path \in Paths /\ Header(s) \in Logs
  BY <1>1, <1>2, <1>4, <1>5, HeaderFacts DEF Sessions, Docs
<1>7. LogsOK' /\ log'[s.doc.path] = Header(s)
  BY <1>1, <1>2, <1>3, <1>4, <1>6 DEF LogsOK
<1>8. LogOfLive' BY <1>1, <1>3, <1>4, <1>5, <1>6, <1>7, LitLog DEF LogsBefore
<1>9. Recovering' BY <1>3, <1>4, AttachedFacts DEF Recovering
<1> QED BY <1>7, <1>8, <1>9

LEMMA RecoverInstallLogs ==
    ASSUME LogsBefore, RequestsOK, Held, Rearmed, NEW r \in Requests, RecoverInstall(r)
    PROVE  LogsOK' /\ LogOfLive' /\ Recovering'
<1>1. LogsOK /\ disk \in [Paths -> Files] /\ live \in Sessions /\ log' = log
  BY DEF LogsBefore, TypeOK, LogsOK, RecoverInstall, files
<1>2. CASE live' = live BY <1>1, <1>2, Unlit
<1>3. CASE live' # live
  <2>1. /\ live.doc.h = req[r].snap.doc.h
        /\ live' = [live EXCEPT !.rec = FALSE, !.view = req[r].view, !.rev = 1, !.wal = TRUE]
    BY <1>3 DEF RecoverInstall
  <2>2. /\ live'.doc = live.doc /\ live'.view = req[r].view /\ live'.base = live.base
        /\ live'.rec = FALSE
    BY <1>1, <2>1 DEF Sessions
  <2>3. /\ live.doc.path = req[r].path /\ live.doc # None /\ req[r].path \in Paths
    BY DEF RecoverInstall, At, RequestsOK, Where, Carries, Held, HoldsLock
  <2> DEFINE l == log[req[r].path]
  <2>4. IF l = None THEN SweptBehind(req[r].path)
        ELSE /\ l.view = req[r].view /\ l.base = live.doc.content
             /\ ~DiskChanged(live) => l.on = disk[req[r].path]
    BY <2>1 DEF RecoverInstall, At, Rearmed
  <2>5. log'[live'.doc.path] = l BY <1>1, <2>2, <2>3
  <2>6. DiskChanged(live)' <=> DiskChanged(live)
    BY <2>2 DEF DiskChanged, LogsBefore
  <2>7. LogOfLive'
    <3>1. CASE l = None
      <4>1. PICK p \in Paths : p = req[r].path BY <2>3
      <4>2. SweptBehind(p)' BY <2>4, <3>1, <4>1 DEF LogsBefore, RequestsRemember
      <4> QED BY <2>2, <2>3, <2>5, <3>1, <4>1, <4>2 DEF LogOfLive, SweptBehind
    <3>2. CASE l # None
      <4>1. /\ l.view = live'.view /\ l.base = live'.doc.content
            /\ ~DiskChanged(live)' => l.on = disk'[live'.doc.path]
        BY <2>2, <2>3, <2>4, <2>6, <3>2 DEF LogsBefore
      <4> QED BY <2>5, <3>2, <4>1 DEF LogOfLive
    <3> QED BY <3>1, <3>2
  <2>8. LogsOK' /\ Recovering' BY <1>1, <2>2 DEF LogsOK, Recovering
  <2> QED BY <2>7, <2>8
<1> QED BY <1>2, <1>3

LEMMA TailInstallLogs ==
    ASSUME LogsBefore, RequestsOK, Agree, FilesPast, NEW r \in Requests, TailInstall(r)
    PROVE  LogsOK' /\ LogOfLive' /\ Recovering'
<1>1. LogsOK /\ disk \in [Paths -> Files] /\ live \in Sessions /\ log' = log
  BY DEF LogsBefore, TypeOK, LogsOK, TailInstall, files
<1>2. CASE live' = live BY <1>1, <1>2, Unlit
<1>3. CASE live' # live
  <2> DEFINE d == req[r].doc
  <2>1. /\ live.doc # None /\ live.doc.h = req[r].snap.doc.h
        /\ live' = [live EXCEPT !.doc = d, !.base = disk[d.path],
                                !.view = d.content, !.saved = d.content]
    BY <1>3 DEF TailInstall, Unchanged
  <2>2. /\ d \in Docs /\ d.h = r /\ d.path = req[r].path /\ req[r].path = req[r].snap.doc.path
        /\ req[r].kind = "tail" /\ Earlier(req[r].snap, live)
    BY DEF TailInstall, At, RequestsOK, Where, Carries, FilesPast, Agree
  <2>3. d.path = live.doc.path BY <2>1, <2>2 DEF Earlier
  <2>4. /\ live'.doc = d /\ live'.view = live'.saved /\ live'.wal = live.wal /\ live'.rec = live.rec
    BY <1>1, <2>1 DEF Sessions
  <2> HIDE DEF d
  <2>5. TailFollowed(live)' BY <2>2, <2>4 DEF TailFollowed, LogsBefore, RequestsRemember
  <2>6. ~Dirty(live)' BY <2>4 DEF Dirty
  <2>7. PICK p \in Paths : p = live.doc.path BY <1>1, <2>1 DEF Sessions, Docs
  <2>8. live.wal /\ log[p] = None => SweptBehind(p)'
    BY <2>1, <2>7 DEF LogsBefore, LogOfLive, RequestsRemember
  <2>9. LogOfLive'
    BY <1>1, <2>3, <2>4, <2>5, <2>6, <2>7, <2>8 DEF LogOfLive, SweptBehind
  <2>10. LogsOK' /\ Recovering' BY <1>1, <2>4 DEF LogsOK, Recovering, LogsBefore
  <2> QED BY <2>9, <2>10
<1> QED BY <1>2, <1>3

LEMMA SortLogs ==
    ASSUME TypeOK, SlotsWhole, PastOf(live), LogOfLive, Recovering, FilesMove, RequestsRemember,
           Held, RequestsOK, NEW r \in Requests, SortDetach(r) \/ SortReplace(r)
    PROVE  LogsOK' /\ LogOfLive' /\ Recovering'
<1>1. log' = log /\ live \in Sessions
  BY DEF SortDetach, SortReplace, files, TypeOK
<1>2. LogsOK' BY <1>1 DEF LogsOK, TypeOK
<1>3. CASE live' = live
  <2>1. LogOfLive' BY <1>1, <1>3, LiveLogStays DEF LogStays
  <2> QED BY <1>2, <1>3, <2>1 DEF Recovering
<1>4. CASE live' = [live EXCEPT !.doc = None, !.base = None]
  <2>1. live'.doc = None /\ live'.wal = live.wal /\ live'.rec = live.rec
    BY <1>1, <1>4 DEF Sessions
  <2> QED BY <1>2, <2>1 DEF LogOfLive, Recovering
<1>5. CASE live' = [Empty EXCEPT !.rec = live.rec]
  <2>1. live'.doc = None /\ live'.wal = FALSE BY <1>5 DEF Empty
  <2> QED BY <1>2, <2>1 DEF LogOfLive, Recovering
<1> QED BY <1>3, <1>4, <1>5 DEF SortDetach, SortReplace

-----------------------------------------------------------------------------
(* The transition lock.                                                    *)

\* While q holds the transitions, another request only looks, or follows a tail.
LEMMA Locked ==
    ASSUME TypeOK, RequestsOK, Held, NEW q \in Requests, HoldsLock(q),
           NEW r \in Requests, r # q, Step(r)
    PROVE  /\ lock' = lock /\ ~HoldsLock(r)
           /\ Quiet(r) \/ TailInstall(r)
<1>1. lock = q /\ q # None BY NoneAssumption DEF Held
<1>2. ~HoldsLock(r) BY <1>1 DEF Held
<1>3. Where(r) BY DEF RequestsOK
<1>4. ~LockFree /\ ~Locks(r) /\ ~Unlocks(r) BY <1>1 DEF LockFree, Locks, Unlocks
<1>5. ~Shuffles(r) /\ ~Reorder(r)
  BY <1>4 DEF Shuffles, OpenInstall, Switch, Close, Detach, Reorder
<1>6. Works(r) => TailInstall(r)
  BY <1>2, <1>3, <1>4 DEF Works, SaveCommit, SortDetach, SortReplace, ReloadPut, Discarded,
      RecoverInstall, HoldsLock, At, Where
<1>7. CASE TailInstall(r)
  BY <1>2, <1>7 DEF TailInstall
<1>8. CASE Quiet(r)
  <2>1. lock' = lock
    BY <1>2, <1>3, <1>4, <1>8
    DEF Quiet, OpenStart, OpenLoad, SaveStart, SaveConfirm, SaveSwap, SaveAsStart, SaveAsWrite,
        SaveAsConfirm, SortStart, SortRun, RevertStart, Reload, RecoverStart, Replay,
        TailLook, ViewLook, ViewStore
  <2> QED BY <1>2, <1>8, <2>1
<1> QED BY <1>5, <1>6, <1>7, <1>8, StepKinds

\* The steps that take the transitions or go on with them held.
TakesLock(r) ==
    \/ SaveConfirm(r) \/ SaveSwap(r) \/ SaveAsConfirm(r) \/ SortDetach(r) \/ SortReplace(r)
    \/ RevertStart(r) \/ Reload(r) \/ RecoverStart(r) \/ Replay(r)

LEMMA EntersHold ==
    ASSUME TypeOK, RequestsOK, NEW r \in Requests, Step(r), HoldsLock(r)'
    PROVE  TakesLock(r)
<1>1. DOMAIN req = Requests /\ Carries(r) /\ Where(r) BY DEF TypeOK, RequestsOK
<1>2. Done(r) => FALSE BY <1>1, Ends DEF HoldsLock
<1>3. ASSUME NEW f, Goto(r, f), "pc" \in DOMAIN f, "kind" \notin DOMAIN f,
             \/ f["pc"] \in {"focus", "install", "write", "written", "grown", "build", "read"}
             \/ f["pc"] = "load" /\ req[r].kind = "open"
      PROVE  FALSE
  BY <1>1, <1>3, Goes DEF HoldsLock, Carries, Has
<1>4. CASE OpenInstall(r)
  <2>1. req'[r].pc = "done" BY <1>1, <1>4 DEF OpenInstall
  <2> QED BY <2>1 DEF HoldsLock
<1>15. CASE OpenStart(r)
  <2>1. PICK p \in Paths :
            \/ Goto(r, [pc |-> "load", path |-> p])
            \/ \E t \in TabWithPath(p) : Goto(r, [pc |-> "focus", tab |-> t])
    BY <1>15 DEF OpenStart
  <2>2. Goto(r, [pc |-> "load", path |-> p]) => FALSE
    BY <1>3, <1>15 DEF OpenStart, Begin
  <2>3. ASSUME NEW t, Goto(r, [pc |-> "focus", tab |-> t]) PROVE FALSE
    BY <1>3, <2>3
  <2> QED BY <2>1, <2>2, <2>3
<1>5. CASE OpenLoad(r)
  <2>1. PICK d, b, w : Goto(r, [pc |-> "install", doc |-> d, rec |-> b, swept |-> w])
    BY <1>5 DEF OpenLoad
  <2> QED BY <1>3, <2>1
<1>6. CASE SaveStart(r)
  <2>1. PICK force \in BOOLEAN :
            Done(r) \/ Goto(r, Over([force |-> force],
                                    [pc |-> "written", snap |-> live, path |-> live.doc.path]))
    BY <1>6 DEF SaveStart, Snapshot
  <2> DEFINE f == Over([force |-> force], [pc |-> "written", snap |-> live, path |-> live.doc.path])
  <2>2. DOMAIN f = {"force", "pc", "snap", "path"} /\ f["pc"] = "written"
    BY DEF Over
  <2>3. Done(r) \/ Goto(r, f) BY <2>1
  <2> HIDE DEF f
  <2> QED BY <1>2, <1>3, <2>2, <2>3
<1>7. CASE SortStart(r)
  <2> DEFINE f == Over([out |-> None], [pc |-> "written", snap |-> live, path |-> live.doc.path])
  <2>1. Goto(r, f) BY <1>7 DEF SortStart, Snapshot
  <2>2. DOMAIN f = {"out", "pc", "snap", "path"} /\ f["pc"] = "written"
    BY DEF Over
  <2> HIDE DEF f
  <2> QED BY <1>3, <2>1, <2>2
<1>8. CASE SortRun(r)
  <2>1. PICK o : Goto(r, [out |-> o]) BY <1>8 DEF SortRun
  <2>2. req'[r].pc = "written"
    BY <1>1, <1>8, <2>1, Goes DEF SortRun, At, Carries, Has
  <2> QED BY <2>2 DEF HoldsLock
<1>9. CASE SaveAsStart(r)
  BY <1>2, <1>3, <1>9 DEF SaveAsStart
<1>10. CASE SaveAsWrite(r) \/ ViewStore(r)
  BY <1>3, <1>10 DEF SaveAsWrite, ViewStore
<1>11. CASE TailLook(r)
  <2>1. PICK d : Done(r) \/ Goto(r, [pc |-> "grown", snap |-> live, path |-> live.doc.path, doc |-> d])
    BY <1>11 DEF TailLook
  <2> QED BY <1>2, <1>3, <2>1
<1>12. CASE ViewLook(r)
  BY <1>3, <1>12 DEF ViewLook
<1>13. CASE Switch(r) \/ Reorder(r) \/ Close(r) \/ Detach(r)
  BY <1>2, <1>13 DEF Switch, Reorder, Close, Detach
<1>14. CASE SaveCommit(r) \/ ReloadPut(r) \/ Discarded(r) \/ RecoverInstall(r) \/ TailInstall(r)
  BY <1>2, <1>14 DEF SaveCommit, ReloadPut, Discarded, RecoverInstall, TailInstall
<1> QED
  BY <1>4, <1>5, <1>6, <1>7, <1>8, <1>9, <1>10, <1>11, <1>12, <1>13, <1>14,
     <1>15 DEF Step, TakesLock

\* What Held says of one request.
HeldBy(r) ==
    /\ lock = r
    /\ IF req[r].kind = "sort"
       THEN live.doc = None /\ active \in ToSet(order)
       ELSE live.doc # None
    /\ req[r].kind \in {"save", "recover"} => live.doc.path = req[r].path
    /\ req[r].kind = "recover" => live.rec

LEMMA HeldKept ==
    ASSUME TypeOK, RequestsOK, Held, Agree, FilesPast, NEW r \in Requests, Step(r), Moves(r), Progress(r)
    PROVE  Held'
<1> SUFFICES ASSUME NEW q \in Requests, HoldsLock(q)' PROVE HeldBy(q)'
  BY DEF Held, HeldBy, HoldsLock
<1>1. DOMAIN req = Requests /\ Carries(r) /\ Where(r) BY DEF TypeOK, RequestsOK
<1>2. CASE q # r
  <2>1. req'[q] = req[q] /\ HoldsLock(q) BY <1>2 DEF Moves, HoldsLock
  <2>2. HeldBy(q) BY <2>1 DEF Held, HeldBy
  <2>3. lock' = lock /\ (Quiet(r) \/ TailInstall(r)) BY <1>2, <2>1, Locked
  <2>4. live' = live \/ live' # live OBVIOUS
  <2>5. CASE live' = live /\ UNCHANGED <<active, order>>
    BY <2>1, <2>2, <2>3, <2>5 DEF HeldBy
  <2>6. CASE live' # live /\ TailInstall(r)
    <3> DEFINE d == req[r].doc
    <3>1. /\ live.doc # None /\ live.doc.h = req[r].snap.doc.h
          /\ live' = [live EXCEPT !.doc = d, !.base = disk[d.path],
                                  !.view = d.content, !.saved = d.content]
      BY <2>6 DEF TailInstall, Unchanged
    <3>2. /\ d \in Docs /\ d.path = req[r].path /\ req[r].path = req[r].snap.doc.path
          /\ Earlier(req[r].snap, live)
      BY <1>1, <2>6 DEF TailInstall, At, Where, Carries, FilesPast, Agree
    <3>3. d.path = live.doc.path /\ d # None
      BY <3>1, <3>2, NoneAssumption DEF Earlier
    <3>4. live'.doc = d /\ live'.rec = live.rec
      BY <3>1 DEF TypeOK, Sessions
    <3> HIDE DEF d
    <3> QED BY <2>1, <2>2, <2>3, <3>1, <3>3, <3>4 DEF HeldBy
  <2> QED BY <2>3, <2>5, <2>6, QuietTabs DEF TailInstall
<1>3. CASE q = r
  <2>1. req'[r].kind = req[r].kind BY DEF Progress
  <2>2. Has(r, "path") /\ TakesLock(r) /\ ~RevertStart(r) /\ ~RecoverStart(r)
            => req'[r].path = req[r].path
    BY <1>1, <1>3, Goes, Ends DEF TakesLock, SaveConfirm, SaveSwap, SaveAsConfirm, SortDetach,
       SortReplace, Reload, Replay, HoldsLock, Has
  <2>3. TakesLock(r) BY <1>3, EntersHold
  <2>4. ~Done(r) BY <1>1, <1>3, Ends DEF HoldsLock
  <2>a. CASE SaveConfirm(r)
    <3>1. Unchanged(r) /\ Locks(r) /\ UNCHANGED <<live, active, order>> BY <2>4, <2>a DEF SaveConfirm, tabs
    <3>2. live.doc = req[r].snap.doc /\ live.doc # None
      BY <1>1, <2>a, <3>1 DEF SaveConfirm, At, Where, Unchanged, Agree, Earlier
    <3>3. req[r].kind = "save" /\ req[r].path = live.doc.path /\ Has(r, "path")
      BY <1>1, <2>a, <3>2 DEF SaveConfirm, At, Where
    <3>4. req'[r].path = req[r].path
      BY <2>2, <2>3, <2>a, <3>3 DEF SaveConfirm, RevertStart, RecoverStart, Begin, At
    <3> QED BY <1>3, <2>1, <3>1, <3>2, <3>3, <3>4 DEF HeldBy, Locks
  <2>b. CASE SaveAsConfirm(r)
    <3>1. Unchanged(r) /\ Locks(r) /\ UNCHANGED <<live, active, order>> BY <2>4, <2>b DEF SaveAsConfirm, tabs
    <3> QED BY <1>3, <2>1, <2>b, <3>1 DEF HeldBy, Locks, Unchanged, SaveAsConfirm
  <2>c. CASE SortDetach(r)
    <3>1. /\ Unchanged(r) /\ Locks(r) /\ UNCHANGED <<active, order>>
          /\ live' = [live EXCEPT !.doc = None, !.base = None]
      BY <2>4, <2>c DEF SortDetach
    <3>2. live'.doc = None /\ active \in ToSet(order)
      BY <3>1 DEF TypeOK, Sessions, Unchanged
    <3> QED BY <1>3, <2>1, <2>c, <3>1, <3>2 DEF HeldBy, Locks, SortDetach
  <2>d. CASE RevertStart(r)
    BY <1>3, <2>1, <2>d DEF HeldBy, Locks, RevertStart, Begin, tabs
  <2>e. CASE RecoverStart(r)
    <3>1. req'[r].path = live.doc.path BY <1>1, <2>e, Goes DEF RecoverStart
    <3> QED BY <1>3, <2>1, <2>e, <3>1 DEF HeldBy, Locks, RecoverStart, Begin, tabs
  <2>f. CASE SortReplace(r)
    <3>1. HoldsLock(r) /\ req[r].kind = "sort" BY <2>f DEF SortReplace, At, HoldsLock
    <3>2. HeldBy(r) BY <3>1 DEF Held, HeldBy
    <3>3. live'.doc = None /\ UNCHANGED <<lock, active, order>>
      BY <2>f, <3>1, <3>2 DEF SortReplace, HeldBy, Empty
    <3> QED BY <1>3, <2>1, <3>1, <3>2, <3>3 DEF HeldBy
  <2>g. CASE SaveSwap(r) \/ Reload(r) \/ Replay(r)
    <3>1. HoldsLock(r) BY <2>g DEF SaveSwap, Reload, Replay, At, HoldsLock
    <3>2. HeldBy(r) BY <3>1 DEF Held, HeldBy
    <3>3. UNCHANGED <<live, active, order>> /\ lock' = lock
      BY <2>4, <2>g DEF SaveSwap, Reload, Replay, tabs
    <3>4. Has(r, "path") => req'[r].path = req[r].path
      BY <2>2, <2>3, <2>g DEF SaveSwap, Reload, Replay, RevertStart, RecoverStart, Begin, At
    <3>5. req[r].kind \in {"save", "recover"} => Has(r, "path")
      BY <1>1, <2>g DEF SaveSwap, Reload, Replay, At, Where
    <3> QED BY <1>3, <2>1, <3>2, <3>3, <3>4, <3>5 DEF HeldBy
  <2> QED BY <2>3, <2>a, <2>b, <2>c, <2>d, <2>e, <2>f, <2>g DEF TakesLock
<1> QED BY <1>2, <1>3

-----------------------------------------------------------------------------
(* Documents and baselines are files of the past.                          *)

LEMMA PastOfKept ==
    ASSUME disk \in [Paths -> Files], made \in Nat, FilesMove,
           NEW s \in Sessions, Whole(s), PastOf(s)
    PROVE  s.doc # None => Past(s.doc.path, s.doc)' /\ Past(s.doc.path, s.base)'
<1> SUFFICES ASSUME s.doc # None PROVE Past(s.doc.path, s.doc)' /\ Past(s.doc.path, s.base)'
  OBVIOUS
<1>1. /\ s.doc \in Docs /\ s.doc.path \in Paths /\ s.doc.ino \in Nat /\ s.doc.content \in Contents
      /\ s.base \in Files /\ s.base.ino \in Nat /\ s.base.content \in Contents
  BY DEF Sessions, Docs, Whole, Files
<1> QED BY <1>1, PastKept DEF PastOf

\* The file that is there now is one of the past.
LEMMA PastNow ==
    ASSUME FilesMove, \A p \in Paths : disk[p].ino <= made, disk \in [Paths -> Files], made \in Nat
    PROVE  \A p \in Paths : \A f \in Files :
                disk'[p].ino <= made' /\ (f = disk'[p] => Past(p, f)')
<1> SUFFICES ASSUME NEW p \in Paths, NEW f \in Files
             PROVE  disk'[p].ino <= made' /\ (f = disk'[p] => Past(p, f)')
  OBVIOUS
<1>1. disk[p].ino \in Nat /\ disk'[p].ino \in Nat BY DEF Files, FilesMove
<1>2. CASE disk'[p] = disk[p] BY <1>1, <1>2 DEF FilesMove, Past
<1>3. CASE disk'[p].ino = made' /\ made' = made + 1 BY <1>3 DEF FilesMove, Past
<1>4. CASE disk'[p] = [disk[p] EXCEPT !.content = Grown(@)]
  <2>1. disk'[p].ino = disk[p].ino BY <1>4 DEF Files
  <2> QED BY <1>1, <2>1 DEF FilesMove, Past
<1> QED BY <1>2, <1>3, <1>4 DEF FilesMove

\* Where the document and the baseline of the live slot come from.
LEMMA WorksPast ==
    ASSUME TypeOK, SlotsWhole, RequestsOK, Held, NEW r \in Requests, Works(r)
    PROVE  \/ live'.doc = None
           \/ live'.doc = live.doc /\ live'.base \in {live.base, disk'[live.doc.path]}
           \/ Has(r, "doc") /\ live'.doc = req[r].doc /\ live'.base = disk'[req[r].doc.path]
<1>1. live \in Sessions /\ disk \in [Paths -> Files] /\ Carries(r) /\ Where(r) BY DEF TypeOK, RequestsOK
<1>a. CASE SaveCommit(r)
  <2>1. live' = [live EXCEPT !.saved = req[r].snap.view, !.base = disk[live.doc.path]] /\ disk' = disk
    BY <1>a DEF SaveCommit, Committed
  <2> QED BY <1>1, <2>1 DEF Sessions
<1>b. CASE SortDetach(r) \/ SortReplace(r)
  <2>1. \/ live' = live
        \/ live' = [live EXCEPT !.doc = None, !.base = None]
        \/ live' = [Empty EXCEPT !.rec = live.rec]
    BY <1>b DEF SortDetach, SortReplace
  <2> QED BY <1>1, <2>1 DEF Sessions, Empty
<1>c. CASE ReloadPut(r)
  <2>1. Has(r, "doc") /\ req[r].doc \in Docs /\ disk' = disk
    BY <1>1, <1>c DEF ReloadPut, At, Where, Carries
  <2>2. live' = live \/ live' = Attached(Reloaded(r)) BY <1>c DEF ReloadPut
  <2>3. /\ Reloaded(r) \in Sessions /\ Reloaded(r).doc = req[r].doc
        /\ Reloaded(r).base = disk[req[r].doc.path]
    BY <2>1, ReloadedFacts
  <2> QED BY <2>1, <2>2, <2>3, AttachedFacts
<1>d. CASE Discarded(r)
  <2> DEFINE s == [live EXCEPT !.rec = FALSE]
  <2>1. s \in Sessions /\ s.doc = live.doc /\ s.base = live.base BY <1>1 DEF Sessions
  <2>2. live' = Attached(s) BY <1>d DEF Discarded
  <2> HIDE DEF s
  <2> QED BY <2>1, <2>2, AttachedFacts
<1>e. CASE RecoverInstall(r)
  <2>1. \/ live' = live
        \/ live' = [live EXCEPT !.rec = FALSE, !.view = req[r].view, !.rev = 1, !.wal = TRUE]
    BY <1>e DEF RecoverInstall
  <2> QED BY <1>1, <2>1 DEF Sessions
<1>f. CASE TailInstall(r)
  <2>1. Has(r, "doc") /\ disk' = disk BY <1>1, <1>f DEF TailInstall, At, Where, files
  <2> DEFINE d == req[r].doc
  <2>2. \/ live' = live
        \/ live' = [live EXCEPT !.doc = d, !.base = disk[d.path], !.view = d.content, !.saved = d.content]
    BY <1>f DEF TailInstall
  <2> HIDE DEF d
  <2>3. live' = live \/ (live'.doc = d /\ live'.base = disk[d.path])
    BY <1>1, <2>2 DEF Sessions
  <2> QED BY <2>1, <2>3 DEF d
<1> QED BY <1>a, <1>b, <1>c, <1>d, <1>e, <1>f DEF Works

LEMMA SlotsPast ==
    ASSUME TypeOK, SlotsWhole, RequestsOK, Held, FilesPast, FilesMove,
           NEW r \in Requests, Step(r), Moves(r)
    PROVE  PastOf(live)' /\ \A t \in DOMAIN inactive' : PastOf(inactive[t])'
<1>1. /\ disk \in [Paths -> Files] /\ made \in Nat
      /\ live \in Sessions /\ Whole(live) /\ PastOf(live)
      /\ \A t \in DOMAIN inactive : inactive[t] \in Sessions /\ Whole(inactive[t]) /\ PastOf(inactive[t])
  BY DEF TypeOK, SlotsWhole, FilesPast
<1>2. \A s \in Sessions : Whole(s) /\ PastOf(s) /\ s.doc # None
            => Past(s.doc.path, s.doc)' /\ Past(s.doc.path, s.base)'
  BY <1>1, PastOfKept
<1>3. \A p \in Paths : \A f \in Files : f = disk'[p] => Past(p, f)'
  BY <1>1, PastNow DEF FilesPast
<1>0. \A p \in Paths : disk'[p] \in Files BY DEF FilesMove
<1>4. \A d \in Docs : Has(r, "doc") /\ req[r].doc = d => d.path \in Paths /\ Past(d.path, d)'
  <2> SUFFICES ASSUME NEW d \in Docs, Has(r, "doc"), req[r].doc = d PROVE d.path \in Paths /\ Past(d.path, d)'
    OBVIOUS
  <2>1. d.path \in Paths /\ d.ino \in Nat /\ d.content \in Contents BY DEF Docs
  <2>2. Past(d.path, d) BY DEF FilesPast, RequestsOK, Carries
  <2> QED BY <1>1, <2>1, <2>2, PastKept
<1>5. Has(r, "doc") => req[r].doc \in Docs BY DEF RequestsOK, Carries
<1>6. live.doc # None => live.doc.path \in Paths BY <1>1 DEF Sessions, Docs
<1>7. ASSUME live' = live, inactive' = inactive PROVE PastOf(live)' /\ \A t \in DOMAIN inactive' : PastOf(inactive[t])'
  BY <1>1, <1>2, <1>7 DEF PastOf
<1>8. CASE Quiet(r) \/ Reorder(r)
  BY <1>7, <1>8, QuietTabs DEF Reorder
<1>9. CASE Works(r)
  <2>1. inactive' = inactive BY <1>9 DEF Works, SaveCommit, SortDetach, SortReplace, ReloadPut,
       Discarded, RecoverInstall, TailInstall
  <2>2. \A t \in DOMAIN inactive' : PastOf(inactive[t])' BY <1>1, <1>2, <2>1 DEF PastOf
  <2>3. CASE live'.doc = None BY <2>2, <2>3 DEF PastOf
  <2>4. CASE live'.doc = live.doc /\ live.doc # None /\ live'.base \in {live.base, disk'[live.doc.path]}
    BY <1>0, <1>1, <1>2, <1>3, <1>6, <2>2, <2>4 DEF PastOf
  <2>5. CASE Has(r, "doc") /\ live'.doc = req[r].doc /\ live'.base = disk'[req[r].doc.path]
    BY <1>0, <1>3, <1>4, <1>5, <2>2, <2>5 DEF PastOf
  <2> QED BY <1>9, <2>3, <2>4, <2>5, WorksPast
<1>10. CASE Shuffles(r)
  <2>1. CASE Shuffled(r)
    <3>1. \A t \in DOMAIN inactive' : PastOf(inactive[t])'
      BY <1>1, <1>2, <2>1, ShuffledSlots DEF PastOf, Alike
    <3>2. CASE live' = live BY <1>1, <1>2, <3>1, <3>2 DEF PastOf
    <3>3. CASE live'.doc = None BY <3>1, <3>3 DEF PastOf
    <3>4. CASE \E t \in DOMAIN inactive : Alike(live', inactive[t])
      BY <1>1, <1>2, <3>1, <3>4 DEF PastOf, Alike
    <3>5. CASE At(r, "install") /\ live'.doc = req[r].doc /\ live'.base = disk[req[r].doc.path]
      <4>1. Has(r, "doc") /\ disk' = disk
        BY <1>10, <3>5 DEF At, RequestsOK, Where, Shuffles, OpenInstall, Switch, Close, Detach
      <4> QED BY <1>0, <1>3, <1>4, <1>5, <3>1, <3>5, <4>1 DEF PastOf
    <3>6. At(r, "install") => req[r].doc \in Docs BY <1>5 DEF At, RequestsOK, Where
    <3> QED BY <2>1, <3>2, <3>3, <3>4, <3>5, <3>6, ShuffledSlots
  <2>2. CASE UNCHANGED tabs BY <1>7, <2>2 DEF tabs
  <2> QED BY <1>10, <2>1, <2>2, ShufflesShuffle
<1> QED BY <1>8, <1>9, <1>10, StepKinds

LEMMA FilesPastKept ==
    ASSUME TypeOK, SlotsWhole, RequestsOK, Held, FilesPast, FilesMove,
           NEW r \in Requests, Step(r), Moves(r), Progress(r)
    PROVE  FilesPast'
<1>1. disk \in [Paths -> Files] /\ made \in Nat /\ live \in Sessions /\ DOMAIN req = Requests
      /\ Carries(r) /\ Where(r)
  BY DEF TypeOK, RequestsOK
<1>2. \A p \in Paths : disk'[p].ino <= made' BY <1>1, PastNow DEF FilesPast, FilesMove
<1>3. \A p \in Paths : \A d \in Docs : Past(p, d) => Past(p, d)'
  <2> SUFFICES ASSUME NEW p \in Paths, NEW d \in Docs, Past(p, d) PROVE Past(p, d)'
    OBVIOUS
  <2>1. d.ino \in Nat /\ d.content \in Contents BY DEF Docs
  <2> QED BY <1>1, <2>1, PastKept
<1>4. ASSUME NEW p \in Paths, NEW d \in Docs, disk' = disk, made' = made,
             d.ino = disk[p].ino, d.content = disk[p].content
      PROVE  Past(p, d)'
  BY <1>4 DEF FilesPast, Past
<1>5. ASSUME NEW q \in Requests, Has(q, "doc"), req'[q].doc = req[q].doc, req'[q].path = req[q].path
      PROVE  \E p \in Paths, d \in Docs : req'[q].doc = d /\ req'[q].path = p /\ Past(p, d)'
  <2>1. req[q].path \in Paths /\ req[q].doc \in Docs /\ Past(req[q].path, req[q].doc)
    BY <1>5 DEF RequestsOK, Carries, FilesPast
  <2>2. PICK p \in Paths, d \in Docs : req[q].doc = d /\ req[q].path = p /\ Past(p, d)
    BY <2>1
  <2> QED BY <1>3, <1>5, <2>2
<1>6. ASSUME OpenLoad(r) \/ Reload(r) \/ TailLook(r), Has(r, "doc")', ~KeepsDoc(r)
      PROVE  \E p \in Paths, d \in Docs : req'[r].doc = d /\ req'[r].path = p /\ Past(p, d)'
  <2>1. disk' = disk /\ made' = made
    BY <1>6 DEF OpenLoad, Reload, TailLook, files
  <2>2. PICK p \in Paths : req'[r].doc = Doc(r, p, disk[p]) /\ req'[r].path = p
    <3>1. CASE OpenLoad(r)
      <4>1. PICK b, w : Goto(r, [pc |-> "install", doc |-> Doc(r, req[r].path, disk[req[r].path]),
                                 rec |-> b, swept |-> w])
        BY <3>1 DEF OpenLoad
      <4>2. Has(r, "path") /\ req[r].path \in Paths BY <1>1, <3>1 DEF OpenLoad, At, Where, Carries
      <4> HIDE DEF Doc
      <4>3. req'[r].doc = Doc(r, req[r].path, disk[req[r].path]) /\ req'[r].path = req[r].path
        BY <1>1, <4>1, <4>2, Goes DEF Has
      <4> QED BY <4>2, <4>3
    <3>2. CASE Reload(r)
      <4>1. ~Done(r) BY <1>1, <1>6, Ends DEF Has
      <4>2. Goto(r, [pc |-> "put", doc |-> Doc(r, req[r].path, disk[req[r].path])])
        BY <3>2, <4>1 DEF Reload
      <4>3. Has(r, "path") /\ req[r].path \in Paths BY <1>1, <3>2 DEF Reload, At, Where, Carries
      <4>4. req'[r].doc = Doc(r, req[r].path, disk[req[r].path]) /\ req'[r].path = req[r].path
        BY <1>1, <4>2, <4>3, Goes DEF Has
      <4> QED BY <4>3, <4>4
    <3>3. CASE TailLook(r)
      <4>1. ~Done(r) BY <1>1, <1>6, Ends DEF Has
      <4>2. Goto(r, [pc |-> "grown", snap |-> live, path |-> live.doc.path,
                     doc |-> Doc(r, live.doc.path, disk[live.doc.path])])
        BY <3>3, <4>1 DEF TailLook
      <4>3. live.doc.path \in Paths BY <1>1, <3>3 DEF TailLook, Sessions, Docs
      <4>4. req'[r].doc = Doc(r, live.doc.path, disk[live.doc.path]) /\ req'[r].path = live.doc.path
        BY <1>1, <4>2, Goes
      <4> QED BY <4>3, <4>4
    <3> QED BY <1>6, <3>1, <3>2, <3>3
  <2>3. PICK d \in Docs : d = Doc(r, p, disk[p]) /\ d.ino = disk[p].ino /\ d.content = disk[p].content
    BY <1>1, DocFacts
  <2> QED BY <1>4, <2>1, <2>2, <2>3
<1>7. ASSUME NEW q \in Requests, Has(q, "doc")'
      PROVE  \E p \in Paths, d \in Docs : req'[q].doc = d /\ req'[q].path = p /\ Past(p, d)'
  BY <1>5, <1>6, <1>7 DEF Progress, KeepsDoc, Moves, Has
<1>8. ASSUME NEW q \in Requests, req'[q].pc = "grown"
      PROVE  /\ req'[q].path = req'[q].snap.doc.path
             /\ req'[q].doc.content = Grown(req'[q].snap.doc.content)
  <2>1. CASE q # r
    BY <1>8, <2>1 DEF Moves, FilesPast
  <2>2. CASE q = r
    <3>1. TailLook(r) BY <1>8, <2>2 DEF Progress
    <3>2. ~Done(r) BY <1>1, <1>8, <2>2, Ends
    <3> DEFINE f == disk[live.doc.path]
               d == Doc(r, live.doc.path, f)
    <3>3. /\ Goto(r, [pc |-> "grown", snap |-> live, path |-> live.doc.path, doc |-> d])
          /\ live.doc # None /\ f.ino = live.doc.ino /\ f.content # live.doc.content
      BY <3>1, <3>2 DEF TailLook
    <3>4. f.content = Grown(live.doc.content)
      BY <3>3 DEF FilesPast, PastOf, Past
    <3>5. d.content = f.content BY DEF Doc
    <3> HIDE DEF d
    <3>6. req'[r].path = live.doc.path /\ req'[r].snap = live /\ req'[r].doc = d
      BY <1>1, <3>3, Goes
    <3> QED BY <2>2, <3>4, <3>5, <3>6
  <2> QED BY <2>1, <2>2
<1>9. PastOf(live)' /\ \A t \in DOMAIN inactive' : PastOf(inactive[t])'
  BY SlotsPast
<1> QED BY <1>2, <1>7, <1>8, <1>9 DEF FilesPast, Has

-----------------------------------------------------------------------------
(* What readers saw, and the log of a recovery.                            *)

LEMMA ReadIsViewKept ==
    ASSUME TypeOK, RequestsOK, Agree, ReadIsView, NEW r \in Requests, Step(r), Moves(r), Progress(r)
    PROVE  ReadIsView'
<1> SUFFICES ASSUME NEW q \in Requests, req'[q].pc = "read" PROVE req'[q].seen = req'[q].snap.view
  BY DEF ReadIsView, At
<1>1. DOMAIN req = Requests /\ Carries(r) /\ Where(r) BY DEF TypeOK, RequestsOK
<1>2. CASE q # r
  BY <1>2 DEF Moves, ReadIsView, At
<1>3. CASE q = r /\ ViewLook(r)
  <2>1. CASE Goto(r, [pc |-> "read", snap |-> live, seen |-> live.doc.content]) /\ ~HasEdits(live)
    <3>1. req'[r].snap = live /\ req'[r].seen = live.doc.content BY <1>1, <2>1, Goes
    <3> QED BY <1>3, <2>1, <3>1 DEF HasEdits, ViewLook
  <2>2. CASE Goto(r, [pc |-> "read", snap |-> live, seen |-> cache.view]) /\ Hit
    <3>1. req'[r].snap = live /\ req'[r].seen = cache.view BY <1>1, <2>2, Goes
    <3>2. cache.view = live.view BY <1>3, <2>2 DEF Hit, Agree, ViewLook
    <3> QED BY <1>3, <3>1, <3>2
  <2>3. CASE Goto(r, [pc |-> "build", snap |-> live])
    <3>1. req'[r].pc = "build" BY <1>1, <2>3, Goes
    <3> QED BY <1>3, <3>1
  <2> QED BY <1>3, <2>1, <2>2, <2>3 DEF ViewLook
<1>4. CASE q = r /\ ViewStore(r)
  <2>1. Goto(r, [pc |-> "read", seen |-> req[r].snap.view]) /\ Has(r, "snap")
    BY <1>1, <1>4 DEF ViewStore, At, Where
  <2>2. req'[r].seen = req[r].snap.view /\ req'[r].snap = req[r].snap
    BY <1>1, <2>1, Goes DEF Has
  <2> QED BY <1>4, <2>2
<1> QED BY <1>2, <1>3, <1>4 DEF Progress

\* What Rearmed says of one request.
RearmedBy(q) ==
    LET l == log[req[q].path] IN
    IF l = None THEN SweptBehind(req[q].path)
    ELSE /\ l.view = req[q].view
         /\ live.doc.h = req[q].snap.doc.h =>
                /\ l.base = live.doc.content
                /\ ~DiskChanged(live) => l.on = disk[req[q].path]

LEMMA RearmedKept ==
    ASSUME TypeOK, SlotsWhole, RequestsOK, Held, Fresh, FilesPast, Rearmed, FilesMove, RequestsRemember,
           NEW r \in Requests, Step(r), Moves(r), Progress(r)
    PROVE  Rearmed'
<1> SUFFICES ASSUME NEW q \in Requests, req'[q].pc = "replayed" PROVE RearmedBy(q)'
  BY DEF Rearmed, RearmedBy
<1>1. /\ DOMAIN req = Requests /\ live \in Sessions /\ Whole(live) /\ log \in [Paths -> Logs \cup {None}]
      /\ disk \in [Paths -> Files] /\ made \in Nat
      /\ Carries(q) /\ Where(q) /\ Carries(r) /\ Where(r)
  BY DEF TypeOK, RequestsOK, SlotsWhole
<1>2. CASE q # r
  <2>1. /\ req'[q] = req[q] /\ HoldsLock(q) /\ req[q].pc = "replayed" /\ req[q].kind = "recover"
        /\ Has(q, "path") /\ Has(q, "snap")
    BY <1>1, <1>2 DEF Moves, HoldsLock, Where
  <2>2. live.doc # None /\ live.doc.path = req[q].path
    BY <2>1 DEF Held
  <2>3. RearmedBy(q) BY <2>1 DEF Rearmed, RearmedBy
  <2>4. PICK p \in Paths : p = req[q].path BY <1>1, <2>1 DEF Carries
  <2>5. ~Replay(r) /\ (Quiet(r) \/ TailInstall(r))
    BY <1>2, <2>1, Locked DEF Replay, HoldsLock, At
  <2>6. LogStays(p)
    <3>1. TailInstall(r) => log' = log BY DEF TailInstall, files
    <3> QED BY <2>5, <3>1, QuietLogs DEF LogStays
  <2>7. CASE log'[p] = None /\ SweptBehind(p)'
    BY <2>1, <2>4, <2>7 DEF RearmedBy, SweptBehind
  <2>8. CASE log'[p] = log[p]
    <3>1. CASE log[p] = None
      <4>1. SweptBehind(p)' BY <2>3, <2>4, <3>1 DEF RearmedBy, RequestsRemember
      <4> QED BY <2>1, <2>4, <2>8, <3>1, <4>1 DEF RearmedBy, SweptBehind
    <3>2. CASE log[p] # None /\ live' = live
      <4>1. live.base \in Files /\ live.base # None /\ Past(p, live.base)
        BY <1>1, <2>2, <2>4 DEF Whole, Sessions, FilesPast, PastOf
      <4>2. ~DiskChanged(live)' => ~DiskChanged(live) /\ disk'[p] = disk[p]
        BY <1>1, <2>2, <2>4, <3>2, <4>1, NoWayBack DEF DiskChanged
      <4> QED BY <2>1, <2>3, <2>4, <2>8, <3>2, <4>2 DEF RearmedBy
    <3>3. CASE log[p] # None /\ live' # live
      <4>1. /\ TailInstall(r)
            /\ live' = [live EXCEPT !.doc = req[r].doc, !.base = disk[req[r].doc.path],
                                    !.view = req[r].doc.content, !.saved = req[r].doc.content]
        BY <2>5, <3>3, QuietTabs DEF TailInstall
      <4>2. Has(r, "doc") /\ req[r].doc.h = r /\ req[r].pc # "done"
        BY <1>1, <4>1 DEF TailInstall, At, Where, Carries
      <4>3. live'.doc.h = r BY <1>1, <4>1, <4>2 DEF Sessions
      <4>4. req[q].snap.doc.h # r
        BY <1>1, <2>1, <4>2 DEF Fresh, Names, Carries
      <4> QED BY <2>1, <2>3, <2>4, <2>8, <3>3, <4>3, <4>4 DEF RearmedBy
    <3> QED BY <3>1, <3>2, <3>3
  <2> QED BY <2>6, <2>7, <2>8 DEF LogStays
<1>3. CASE q = r
  <2>1. Replay(r) BY <1>3 DEF Progress
  <2>2. ~Done(r) BY <1>1, <1>3, Ends
  <2>3. Has(r, "path") /\ Has(r, "snap") /\ req[r].path \in Paths /\ live.doc # None /\ live.doc.path = req[r].path
    BY <1>1, <2>1 DEF Replay, At, Where, Carries, Held, HoldsLock
  <2>4. PICK p \in Paths : p = req[r].path BY <2>3
  <2> DEFINE m == [log[p] EXCEPT !.on = disk[p], !.base = live.doc.content]
  <2>5. /\ log[p] # None
        /\ log' = [log EXCEPT ![p] = m]
        /\ Goto(r, [pc |-> "replayed", view |-> log[p].view])
        /\ live' = live /\ disk' = disk
    BY <2>1, <2>2, <2>4 DEF Replay, Recoverable, tabs
  <2>6. req'[r].view = log[p].view /\ req'[r].path = p /\ req'[r].snap = req[r].snap
    BY <1>1, <2>3, <2>4, <2>5, Goes DEF Has
  <2>7. log[p] \in Logs BY <1>1, <2>5
  <2>8. m.view = log[p].view /\ m.on = disk[p] /\ m.base = live.doc.content /\ m \in Logs
    BY <1>1, <2>3, <2>4, <2>7 DEF Logs, Sessions, Docs
  <2> HIDE DEF m
  <2>9. log'[p] = m /\ m # None BY <1>1, <2>5, <2>8, NoneAssumption
  <2> QED BY <1>3, <2>4, <2>5, <2>6, <2>8, <2>9 DEF RearmedBy
<1> QED BY <1>2, <1>3

-----------------------------------------------------------------------------
(* The types.                                                              *)

LEMMA LockTypes ==
    ASSUME NEW r \in Requests, lock \in Requests \cup {None}, Step(r)
    PROVE  lock' \in Requests \cup {None}
<1>1. Locks(r) \/ Unlocks(r) \/ LockFree \/ lock' = lock => lock' \in Requests \cup {None}
  BY DEF Locks, Unlocks, LockFree
<1>2. CASE Quiet(r)
  BY <1>1, <1>2
  DEF Quiet, OpenStart, OpenLoad, SaveStart, SaveConfirm, SaveSwap, SaveAsStart, SaveAsWrite,
      SaveAsConfirm, SortStart, SortRun, RevertStart, Reload, RecoverStart, Replay,
      TailLook, ViewLook, ViewStore
<1>3. CASE Shuffles(r) \/ Reorder(r)
  BY <1>1, <1>3 DEF Shuffles, OpenInstall, Switch, Close, Detach, Reorder
<1>4. CASE Works(r)
  BY <1>1, <1>4 DEF Works, SaveCommit, SortDetach, SortReplace, ReloadPut, Discarded,
      RecoverInstall, TailInstall
<1> QED BY <1>2, <1>3, <1>4, StepKinds

LEMMA InsertFacts ==
    ASSUME NEW S, NEW s \in Seq(S), IsInjective(s), NEW e \in S, e \notin ToSet(s), NEW i \in 1..Len(s)
    PROVE  /\ InsertAt(s, i, e) \in Seq(S) /\ IsInjective(InsertAt(s, i, e))
           /\ ToSet(InsertAt(s, i, e)) = ToSet(s) \cup {e}
<1> DEFINE u == InsertAt(s, i, e)
<1>1. /\ u \in Seq(S) /\ Len(u) = Len(s) + 1 /\ Len(s) \in Nat
      /\ \A j \in 1..(Len(s) + 1) : u[j] = IF j < i THEN s[j] ELSE IF j = i THEN e ELSE s[j - 1]
  BY InsertAtFacts
<1> HIDE DEF u
<1>2. DOMAIN u = 1..(Len(s) + 1) /\ DOMAIN s = 1..Len(s) BY <1>1
<1>3. /\ \A j, k \in 1..Len(s) : s[j] = s[k] => j = k
      /\ \A j \in 1..Len(s) : s[j] # e
  BY <1>2 DEF IsInjective, ToSet
<1>4. ASSUME NEW j \in 1..(Len(s) + 1)
      PROVE  \/ j < i /\ j \in 1..Len(s) /\ u[j] = s[j]
             \/ j = i /\ u[j] = e
             \/ j > i /\ j - 1 \in 1..Len(s) /\ u[j] = s[j - 1]
  BY <1>1
<1>5. IsInjective(u)
  <2> SUFFICES ASSUME NEW j \in 1..(Len(s) + 1), NEW k \in 1..(Len(s) + 1), u[j] = u[k] PROVE j = k
    BY <1>2 DEF IsInjective
  <2>1. \/ j < i /\ j \in 1..Len(s) /\ u[j] = s[j]
        \/ j = i /\ u[j] = e
        \/ j > i /\ j - 1 \in 1..Len(s) /\ u[j] = s[j - 1]
    BY <1>4
  <2>2. \/ k < i /\ k \in 1..Len(s) /\ u[k] = s[k]
        \/ k = i /\ u[k] = e
        \/ k > i /\ k - 1 \in 1..Len(s) /\ u[k] = s[k - 1]
    BY <1>4
  <2> QED BY <1>3, <2>1, <2>2
<1>6. ASSUME NEW x \in ToSet(u) PROVE x \in ToSet(s) \cup {e}
  <2>1. PICK j \in 1..(Len(s) + 1) : x = u[j] BY <1>2 DEF ToSet
  <2> QED BY <1>2, <1>4, <2>1 DEF ToSet
<1>7. ASSUME NEW x \in ToSet(s) PROVE x \in ToSet(u)
  <2>1. PICK j \in 1..Len(s) : x = s[j] BY <1>2 DEF ToSet
  <2>2. CASE j < i
    <3>1. j \in 1..(Len(s) + 1) /\ u[j] = x BY <1>1, <2>1, <2>2
    <3> QED BY <1>2, <3>1 DEF ToSet
  <2>3. CASE ~(j < i)
    <3>1. j + 1 \in 1..(Len(s) + 1) /\ u[j + 1] = x BY <1>1, <2>1, <2>3
    <3> QED BY <1>2, <3>1 DEF ToSet
  <2> QED BY <2>2, <2>3
<1>8. e \in ToSet(u)
  <2>1. i \in 1..(Len(s) + 1) /\ u[i] = e BY <1>1
  <2> QED BY <1>2, <2>1 DEF ToSet
<1> QED BY <1>1, <1>5, <1>6, <1>7, <1>8 DEF u

LEMMA ReorderTabs ==
    ASSUME TabsOK, SlotsWhole, NEW r, Reorder(r)
    PROVE  TabsOK' /\ SlotsWhole'
<1> DEFINE S == 1..(nextId - 1)
<1>1. UNCHANGED <<live, active, inactive, nextId>> BY DEF Reorder
<1>2. order' \in Seq(S) /\ IsInjective(order') /\ ToSet(order') = ToSet(order)
  <2>1. PICK t \in ToSet(order), b \in ToSet(order) \cup {None} :
            order' = IF b = t THEN order
                     ELSE IF b = None THEN Append(Rest(t), t)
                     ELSE InsertAt(Rest(t), CHOOSE j \in 1..Len(Rest(t)) : Rest(t)[j] = b, t)
    BY DEF Reorder
  <2>2. t \in S BY OrderFacts
  <2>3. Rest(t) \in Seq(S) /\ IsInjective(Rest(t)) /\ ToSet(Rest(t)) = ToSet(order) \ {t}
    BY RestFacts DEF TabsOK
  <2>4. CASE b = t BY <2>1, <2>4 DEF TabsOK
  <2>5. CASE b # t /\ b = None
    <3>1. order' = Append(Rest(t), t) BY <2>1, <2>5
    <3>2. t \notin ToSet(Rest(t)) BY <2>3
    <3> HIDE DEF S
    <3>3. order' \in Seq(S) BY <2>2, <2>3, <3>1
    <3>4. IsInjective(order') /\ ToSet(order') = ToSet(Rest(t)) \cup {t}
      BY <2>3, <3>1, <3>2, AppendFacts
    <3> QED BY <2>3, <3>3, <3>4
  <2>6. CASE b # t /\ b # None
    <3> DEFINE i == CHOOSE j \in 1..Len(Rest(t)) : Rest(t)[j] = b
    <3>1. order' = InsertAt(Rest(t), i, t) BY <2>1, <2>6
    <3>2. \E j \in 1..Len(Rest(t)) : Rest(t)[j] = b BY <2>3, <2>6 DEF ToSet
    <3>3. i \in 1..Len(Rest(t)) BY <3>2
    <3>4. t \notin ToSet(Rest(t)) BY <2>3
    <3> HIDE DEF i, S
    <3>5. /\ order' \in Seq(S) /\ IsInjective(order')
          /\ ToSet(order') = ToSet(Rest(t)) \cup {t}
      BY <2>2, <2>3, <3>1, <3>3, <3>4, InsertFacts
    <3> QED BY <2>3, <3>5
  <2> QED BY <2>4, <2>5, <2>6
<1> QED BY <1>1, <1>2 DEF TabsOK, SlotsWhole, Whole

LEMMA TabsKept ==
    ASSUME TypeOK, SlotsWhole, RequestsOK, Held, Agree, NEW r \in Requests, Step(r)
    PROVE  TabsOK' /\ SlotsWhole'
<1>1. TabsOK BY DEF TypeOK, TabsOK
<1>2. CASE Quiet(r) BY <1>1, <1>2, QuietTabs DEF TabsOK, SlotsWhole, Whole
<1>3. CASE Reorder(r) BY <1>1, <1>3, ReorderTabs
<1>4. CASE Shuffles(r) BY <1>4, ShufflesShuffle
<1>5. CASE Works(r)
  <2>1. /\ live' \in Sessions /\ Whole(live')
        /\ UNCHANGED <<order, active, inactive, nextId>>
        /\ live'.doc # None => live.doc # None \/ At(r, "put")
    BY <1>5, WorksLive
  <2>2. live'.doc # None => active \in ToSet(order)
    <3>1. At(r, "put") => live.doc # None \/ active \in ToSet(order)
      BY DEF At, Held, HoldsLock
    <3> QED BY <1>1, <2>1, <3>1 DEF TabsOK
  <2>3. SlotsWhole' BY <2>1 DEF SlotsWhole, Whole
  <2> QED BY <1>1, <2>1, <2>2, <2>3 DEF TabsOK
<1> QED BY <1>2, <1>3, <1>4, <1>5, StepKinds

\* The logs after a step, and what they give back.
LEMMA LogsKept ==
    ASSUME WsInv, FilesMove, RequestsRemember, NEW r \in Requests, Step(r), Moves(r)
    PROVE  LogsOK' /\ LogOfLive' /\ Recovering'
<1>1. TypeOK /\ SlotsWhole /\ RequestsOK /\ Held /\ Agree /\ FilesPast /\ Rearmed /\ LogOfLive
      /\ Recovering /\ PastOf(live)
  BY DEF WsInv, FilesPast
<1>2. disk' = disk => LogsBefore BY <1>1 DEF LogsBefore
<1>3. CASE Quiet(r)
  <2>1. LogsOK' /\ LogOfLive' BY <1>1, <1>3, QuietLogs, QuietLogOfLive
  <2> QED BY <1>1, <1>3, <2>1, QuietTabs DEF Recovering
<1>4. CASE Reorder(r)
  <2>1. disk' = disk /\ live' = live /\ log' = log BY <1>4 DEF Reorder, files
  <2> QED BY <1>2, <2>1, Unlit
<1>5. CASE Shuffles(r)
  <2>1. disk' = disk BY <1>5 DEF Shuffles, OpenInstall, Switch, Close, Detach
  <2> QED BY <1>1, <1>2, <1>5, <2>1, ShufflesLogs
<1>6. CASE SortDetach(r) \/ SortReplace(r)
  BY <1>1, <1>6, SortLogs
<1>7. CASE Works(r) /\ ~SortDetach(r) /\ ~SortReplace(r)
  <2>1. LogsBefore
    BY <1>2, <1>7 DEF Works, SaveCommit, ReloadPut, Discarded, RecoverInstall, TailInstall, files
  <2> QED
    BY <1>1, <1>7, <2>1, SaveCommitLogs, ReloadPutLogs, DiscardedLogs, RecoverInstallLogs,
       TailInstallLogs DEF Works
<1> QED BY <1>3, <1>4, <1>5, <1>6, <1>7, StepKinds

LEMMA CacheTypes ==
    ASSUME TypeOK, SlotsWhole, RequestsOK, Held, Agree, NEW r \in Requests, Step(r)
    PROVE  cache' \in Snapshots \cup {None}
<1>1. cache \in Snapshots \cup {None} BY DEF TypeOK
<1>2. CASE Quiet(r) BY <1>1, <1>2, QuietCache
<1>3. CASE Reorder(r) BY <1>1, <1>3 DEF Reorder
<1>4. CASE Shuffles(r) BY <1>4, ShufflesShuffle DEF Shuffled
<1>5. CASE Works(r)
  BY <1>1, <1>5 DEF Works, SaveCommit, SortDetach, SortReplace, ReloadPut, Discarded,
      RecoverInstall, TailInstall, files
<1> QED BY <1>2, <1>3, <1>4, <1>5, StepKinds

\* Every step of a request keeps the invariant.
LEMMA StepKeeps ==
    ASSUME WsInv, NEW r \in Requests, Step(r)
    PROVE  WsInv'
<1>1. /\ TypeOK /\ SlotsWhole /\ RequestsOK /\ Held /\ Fresh /\ Apart /\ Agree /\ ReadIsView
      /\ FilesPast /\ Recovering /\ Rearmed /\ LogOfLive
  BY DEF WsInv
<1>2. RequestsOK' /\ Moves(r) BY <1>1, RequestsMove
<1>3. Progress(r) BY <1>1, Progresses
<1>4. FilesMove BY <1>1, StepMovesFiles
<1>5. RequestsRemember BY <1>1, <1>2, <1>3, StepRemembers
<1>6. LogsOK' /\ LogOfLive' /\ Recovering' BY <1>2, <1>4, <1>5, LogsKept
<1>7. TabsOK' /\ SlotsWhole' BY <1>1, TabsKept
<1>8. cache' \in Snapshots \cup {None} BY <1>1, CacheTypes
<1>9. lock' \in Requests \cup {None} BY <1>1, LockTypes DEF TypeOK
<1>10. TypeOK'
  BY <1>2, <1>4, <1>6, <1>7, <1>8, <1>9 DEF TypeOK, TabsOK, LogsOK, FilesMove, Moves
<1>11. Fresh' /\ Apart' /\ Agree' BY <1>1, IdentityKept
<1>12. Held' BY <1>1, <1>2, <1>3, HeldKept
<1>13. FilesPast' BY <1>1, <1>2, <1>3, <1>4, FilesPastKept
<1>14. ReadIsView' BY <1>1, <1>2, <1>3, ReadIsViewKept
<1>15. Rearmed' BY <1>1, <1>2, <1>3, <1>4, <1>5, RearmedKept
<1> QED BY <1>2, <1>6, <1>7, <1>10, <1>11, <1>12, <1>13, <1>14, <1>15 DEF WsInv

-----------------------------------------------------------------------------
(* Typing and other programs.                                              *)

\* What an outside step leaves alone.
Around == UNCHANGED <<order, active, inactive, nextId, cache, lock, req>>

LEMMA EditFacts ==
    ASSUME TypeOK, SlotsWhole, Edit
    PROVE  /\ Around /\ disk' = disk /\ live.doc # None
           /\ live' \in Sessions /\ Whole(live')
           /\ live'.doc = live.doc /\ live'.base = live.base /\ live'.saved = live.saved
           /\ live'.wal = live.wal /\ live'.rec = live.rec /\ live'.rev = live.rev + 1
           /\ live'.view \in Contents
           /\ log' = IF live.wal /\ log[live.doc.path] # None
                     THEN [log EXCEPT ![live.doc.path] = [@ EXCEPT !.view = live'.view]] ELSE log
           /\ LogsOK'
<1> DEFINE c == Plain(made + 1)
<1>1. made \in Nat /\ live \in Sessions /\ log \in [Paths -> Logs \cup {None}] /\ Whole(live)
  BY DEF TypeOK, SlotsWhole
<1>2. c \in Contents /\ c # None BY <1>1, PlainFacts
<1>3. live.doc # None /\ live' = [live EXCEPT !.view = c, !.rev = @ + 1] /\ disk' = disk /\ Around
  BY DEF Edit, Around
<1>4. log' = IF live.wal /\ log[live.doc.path] # None
             THEN [log EXCEPT ![live.doc.path] = [@ EXCEPT !.view = c]] ELSE log
  BY DEF Edit
<1> HIDE DEF c
<1>5. /\ live' \in Sessions /\ live'.doc = live.doc /\ live'.base = live.base /\ live'.saved = live.saved
      /\ live'.wal = live.wal /\ live'.rec = live.rec /\ live'.rev = live.rev + 1 /\ live'.view = c
  <2>1. live.rev + 1 \in Nat BY <1>1 DEF Sessions
  <2>2. live' = [live EXCEPT !.view = c, !.rev = live.rev + 1] BY <1>1, <1>3 DEF Sessions
  <2> QED BY <1>1, <1>2, <2>1, <2>2 DEF Sessions
<1>6. Whole(live') BY <1>1, <1>2, <1>3, <1>5 DEF Whole
<1>7. LogsOK'
  <2>a. live.doc.path \in Paths BY <1>1, <1>3 DEF Sessions, Docs
  <2>1. ASSUME log[live.doc.path] # None
        PROVE  [log[live.doc.path] EXCEPT !.view = c] \in Logs
    <3>1. log[live.doc.path] \in Logs BY <1>1, <1>3, <2>1 DEF Sessions, Docs
    <3> QED BY <1>2, <3>1 DEF Logs
  <2> QED BY <1>1, <1>4, <2>a, <2>1 DEF LogsOK
<1> QED BY <1>2, <1>3, <1>4, <1>5, <1>6, <1>7

\* What both leave of the invariant as it is.
LEMMA OutsideAround ==
    ASSUME WsInv, FilesMove, Around, live' \in Sessions, Whole(live'), LogsOK',
           live'.doc = live.doc, live'.rec = live.rec, live'.wal = live.wal, live'.base = live.base,
           (live' = live) \/ (live'.rev = live.rev + 1)
    PROVE  /\ TypeOK' /\ SlotsWhole' /\ RequestsOK' /\ Held'
           /\ Fresh' /\ Apart' /\ Agree' /\ ReadIsView'
           /\ FilesPast' /\ Recovering'
<1>1. /\ TypeOK /\ SlotsWhole /\ RequestsOK /\ Held /\ Fresh /\ Apart /\ Agree /\ ReadIsView
      /\ FilesPast /\ Recovering
  BY DEF WsInv
<1>2. UNCHANGED <<order, active, inactive, nextId, cache, lock, req>> BY DEF Around
<1>3. TypeOK' BY <1>1, <1>2 DEF TypeOK, FilesMove, LogsOK
<1>4. SlotsWhole' BY <1>1, <1>2 DEF SlotsWhole, Whole
<1>5. RequestsOK' BY <1>1, <1>2 DEF RequestsOK, Carries, Where, Has, Whole
<1>6. Held' BY <1>1, <1>2 DEF Held, HoldsLock
<1>7. Fresh' BY <1>1, <1>2 DEF Fresh, Names, Has
<1>8. Apart' BY <1>1, <1>2 DEF Apart
<1>9. Agree'
  <2>1. live.rev \in Nat /\ live'.rev \in Nat BY <1>1 DEF TypeOK, Sessions
  <2>2. ASSUME NEW r \in Requests, Has(r, "snap") PROVE Earlier(req[r].snap, live')
    <3>1. Earlier(req[r].snap, live) BY <1>1, <2>2 DEF Agree
    <3>2. req[r].snap.rev \in Nat BY <1>1, <2>2 DEF RequestsOK, Carries, Sessions
    <3> QED BY <2>1, <3>1, <3>2 DEF Earlier
  <2>3. cache # None => cache.rev \in Nat BY <1>1 DEF TypeOK, Snapshots
  <2>4. cache # None /\ live'.doc # None /\ live'.doc.h = cache.h =>
            cache.rev <= live'.rev /\ (cache.rev = live'.rev => cache.view = live'.view)
    BY <1>1, <2>1, <2>3 DEF Agree
  <2>5. ASSUME NEW r \in Requests, Has(r, "snap"), NEW t \in DOMAIN inactive
        PROVE  Earlier(req[r].snap, inactive[t])
    BY <1>1, <2>5 DEF Agree
  <2> QED BY <1>2, <2>2, <2>4, <2>5 DEF Agree, Has, Earlier
<1>10. ReadIsView' BY <1>1, <1>2 DEF ReadIsView, At
<1>11. FilesPast'
  <2>1. disk \in [Paths -> Files] /\ made \in Nat /\ \A p \in Paths : disk[p].ino <= made
    BY <1>1 DEF TypeOK, FilesPast
  <2>2. \A p \in Paths : disk'[p].ino <= made'
    <3>1. \A p \in Paths : disk'[p] \in Files BY DEF FilesMove
    <3> QED BY <2>1, <3>1, PastNow
  <2>3. PastOf(live)'
    <3>1. live \in Sessions /\ Whole(live) /\ PastOf(live)
      BY <1>1 DEF TypeOK, SlotsWhole, FilesPast
    <3>2. live.doc # None => Past(live.doc.path, live.doc)' /\ Past(live.doc.path, live.base)'
      BY <2>1, <3>1, PastOfKept
    <3> QED BY <3>2 DEF PastOf, Past
  <2>4. ASSUME NEW t \in DOMAIN inactive PROVE PastOf(inactive[t])'
    <3>1. inactive[t] \in Sessions /\ Whole(inactive[t]) /\ PastOf(inactive[t])
      BY <1>1, <2>4 DEF TypeOK, SlotsWhole, FilesPast
    <3>2. PICK s : s = inactive[t] OBVIOUS
    <3>3. s.doc # None => Past(s.doc.path, s.doc)' /\ Past(s.doc.path, s.base)'
      BY <2>1, <3>1, <3>2, PastOfKept
    <3> QED BY <1>2, <3>2, <3>3 DEF PastOf, Past
  <2>5. ASSUME NEW r \in Requests, Has(r, "doc") PROVE Past(req[r].path, req[r].doc)'
    <3>1. req[r].path \in Paths /\ req[r].doc \in Docs /\ Past(req[r].path, req[r].doc)
      BY <1>1, <2>5 DEF RequestsOK, Carries, FilesPast
    <3>2. PICK p, d : p = req[r].path /\ d = req[r].doc OBVIOUS
    <3>3. d.ino \in Nat /\ d.content \in Contents BY <3>1, <3>2 DEF Docs
    <3>4. Past(p, d)' BY <2>1, <3>1, <3>2, <3>3, PastKept
    <3> QED BY <1>2, <3>2, <3>4 DEF Past
  <2>6. \A r \in Requests : req[r].pc = "grown" =>
            /\ req[r].path = req[r].snap.doc.path
            /\ req[r].doc.content = Grown(req[r].snap.doc.content)
    BY <1>1 DEF FilesPast
  <2> QED BY <1>2, <2>2, <2>3, <2>4, <2>5, <2>6 DEF FilesPast, Has
<1>12. Recovering' BY <1>1 DEF Recovering
<1> QED BY <1>3, <1>4, <1>5, <1>6, <1>7, <1>8, <1>9, <1>10, <1>11, <1>12

\* Typing and other programs keep the invariant.
LEMMA OutsideKeeps ==
    ASSUME WsInv, Outside
    PROVE  WsInv'
<1>1. /\ TypeOK /\ SlotsWhole /\ RequestsOK /\ Held /\ FilesPast /\ Recovering /\ Rearmed /\ LogOfLive
  BY DEF WsInv
<1>2. FilesMove BY <1>1, OutsideMovesFiles
<1>3. CASE Edit
  <2>1. /\ Around /\ disk' = disk /\ live.doc # None
        /\ live' \in Sessions /\ Whole(live')
        /\ live'.doc = live.doc /\ live'.base = live.base /\ live'.saved = live.saved
        /\ live'.wal = live.wal /\ live'.rec = live.rec /\ live'.rev = live.rev + 1
        /\ live'.view \in Contents
        /\ log' = IF live.wal /\ log[live.doc.path] # None
                  THEN [log EXCEPT ![live.doc.path] = [@ EXCEPT !.view = live'.view]] ELSE log
        /\ LogsOK'
    BY <1>1, <1>3, EditFacts
  <2>2. req' = req BY <2>1 DEF Around
  <2>3. LogOfLive'
    <3> DEFINE p == live.doc.path
    <3>1. p \in Paths /\ log \in [Paths -> Logs \cup {None}]
      BY <1>1, <2>1 DEF TypeOK, Sessions, Docs
    <3>2. CASE live.wal /\ log[p] # None
      <4>1. log[p] \in Logs /\ log[p] # None BY <3>1, <3>2
      <4>2. log'[p] = [log[p] EXCEPT !.view = live'.view] BY <2>1, <3>1, <3>2
      <4>3. log'[p].view = live'.view /\ log'[p].base = log[p].base /\ log'[p].on = log[p].on
        BY <4>1, <4>2 DEF Logs
      <4>4. log'[p] \in Logs /\ log'[p] # None
        BY <2>1, <4>1, <4>2, NoneAssumption DEF Logs
      <4>5. TailFollowed(live)' <=> TailFollowed(live) BY <2>1, <2>2 DEF TailFollowed
      <4> QED BY <1>1, <2>1, <3>2, <4>3, <4>4, <4>5 DEF LogOfLive, DiskChanged
    <3>3. CASE live.wal /\ log[p] = None
      <4>1. SweptBehind(p) BY <1>1, <2>1, <3>3 DEF LogOfLive
      <4> QED BY <2>1, <2>2, <3>3, <4>1 DEF LogOfLive, SweptBehind
    <3>4. CASE ~live.wal BY <2>1, <3>4 DEF LogOfLive
    <3> QED BY <3>2, <3>3, <3>4
  <2>4. Rearmed'
    <3>1. ASSUME NEW r \in Requests, req[r].pc = "replayed" PROVE live.rec
      BY <1>1, <3>1 DEF Held, HoldsLock, RequestsOK, Where
    <3>2. ASSUME NEW r \in Requests, req[r].pc = "replayed" PROVE log' = log
      BY <1>1, <2>1, <3>1, <3>2 DEF Recovering
    <3> QED BY <1>1, <2>1, <2>2, <3>2 DEF Rearmed, SweptBehind, DiskChanged
  <2> QED BY <1>2, <2>1, <2>3, <2>4, OutsideAround DEF WsInv
<1>4. ASSUME NEW p \in Paths, OtherWrites(p) PROVE WsInv'
  <2>1. Around /\ log' = log /\ live' = live /\ req' = req
    BY <1>4 DEF OtherWrites, Around, tabs
  <2>2. live \in Sessions /\ Whole(live) /\ LogsOK'
    BY <1>1, <2>1 DEF TypeOK, SlotsWhole, LogsOK
  <2>3. PastOf(live) BY <1>1 DEF FilesPast
  <2>4. RequestsRemember BY <2>1 DEF RequestsRemember, SweptBehind
  <2>5. LogOfLive'
    BY <1>1, <1>2, <2>1, <2>3, <2>4, LiveLogStays DEF LogStays
  <2>6. Rearmed'
    <3>1. ASSUME NEW r \in Requests, req[r].pc = "replayed"
          PROVE  /\ live.doc # None /\ live.doc.path = req[r].path
                 /\ ~DiskChanged(live)' => ~DiskChanged(live) /\ disk'[req[r].path] = disk[req[r].path]
      <4>1. live.doc # None /\ live.doc.path = req[r].path
        BY <1>1, <3>1 DEF Held, HoldsLock, RequestsOK, Where
      <4>2. /\ live.doc.path \in Paths /\ live.base \in Files /\ live.base # None
            /\ disk \in [Paths -> Files] /\ made \in Nat
        BY <1>1, <2>2, <4>1 DEF TypeOK, Sessions, Docs, Whole
      <4>3. Past(live.doc.path, live.base) BY <2>3, <4>1 DEF PastOf
      <4> QED BY <1>2, <2>1, <4>1, <4>2, <4>3, NoWayBack DEF DiskChanged
    <3> QED BY <1>1, <2>1, <3>1 DEF Rearmed, SweptBehind
  <2> QED BY <1>2, <2>1, <2>2, <2>5, <2>6, OutsideAround DEF WsInv
<1> QED BY <1>3, <1>4 DEF Outside

LEMMA StutterKeeps ==
    ASSUME WsInv, UNCHANGED vars
    PROVE  WsInv'
<1>1. /\ UNCHANGED <<disk, log, made>> /\ UNCHANGED <<live, order, active, inactive, nextId>>
      /\ UNCHANGED <<cache, lock, req>>
  BY DEF vars, files, tabs
<1>2. TypeOK' /\ SlotsWhole' /\ RequestsOK' /\ Held'
  BY <1>1 DEF WsInv, TypeOK, SlotsWhole, Whole, RequestsOK, Carries, Where, Has, Held, HoldsLock
<1>3. Fresh' /\ Apart' /\ Agree' /\ ReadIsView'
  BY <1>1 DEF WsInv, Fresh, Names, Has, Apart, Agree, Earlier, ReadIsView, At
<1>4. FilesPast' /\ Recovering'
  BY <1>1 DEF WsInv, FilesPast, PastOf, Past, Has, Recovering
<1>5. Rearmed' /\ LogOfLive'
  BY <1>1 DEF WsInv, Rearmed, LogOfLive, SweptBehind, DiskChanged, Dirty, TailFollowed
<1> QED BY <1>2, <1>3, <1>4, <1>5 DEF WsInv

\* The initial state.
LEMMA InitHolds == Init => WsInv
<1> SUFFICES ASSUME Init PROVE WsInv
  OBVIOUS
<1> DEFINE d == Doc(None, First, disk[First])
<1>1. PICK rec \in BOOLEAN :
        LET s == [Session(d) EXCEPT !.rec = rec] IN
        /\ live = Attached(s)
        /\ log = [p \in Paths |->
                   IF p # First THEN None
                   ELSE IF rec THEN [Header(s) EXCEPT !.view = Plain(None)]
                   ELSE Header(s)]
  BY DEF Init
<1> DEFINE s == [Session(d) EXCEPT !.rec = rec]
<1>2. /\ disk = [p \in Paths |-> [ino |-> 0, content |-> Plain(p)]] /\ made = 0
      /\ order = <<1>> /\ active = 1 /\ inactive = <<>> /\ nextId = 2
      /\ cache = None /\ lock = None
  BY DEF Init
<1>3. PICK k : req = [r \in Requests |-> [pc |-> "start", kind |-> k[r]]]
  BY DEF Init
<1>4. First \in Paths BY PathsAssumption
<1>5. disk \in [Paths -> Files] /\ \A p \in Paths : disk[p].ino = 0
  <2>1. ASSUME NEW p \in Paths PROVE [ino |-> 0, content |-> Plain(p)] \in Files
    BY PlainFacts DEF Files
  <2> QED BY <1>2, <2>1
<1>6. d \in Docs /\ d # None /\ d.h = None /\ d.path = First
      /\ d.ino = disk[First].ino /\ d.content = disk[First].content
  <2>1. disk[First] \in Files BY <1>4, <1>5
  <2> QED BY <1>4, <2>1, DocFacts
<1>7. log = [p \in Paths |->
               IF p # First THEN None
               ELSE IF rec THEN [Header(s) EXCEPT !.view = Plain(None)]
               ELSE Header(s)] /\ live = Attached(s)
  BY <1>1
<1> HIDE DEF d
<1>8. /\ s \in Sessions /\ Whole(s) /\ s.doc = d /\ s.doc # None /\ s.view = d.content
      /\ s.saved = d.content /\ s.rev = 0 /\ s.wal = FALSE /\ s.rec = rec /\ s.base = disk[First]
  BY <1>5, <1>6, SessionFacts, ZenonT(60)
<1> HIDE DEF s
<1>9. /\ live \in Sessions /\ Whole(live) /\ live.doc = d /\ live.view = d.content
      /\ live.saved = d.content /\ live.rec = rec /\ live.base = disk[First]
      /\ live.wal = ~rec
  BY <1>7, <1>8, AttachedFacts DEF Attaches
<1>10. /\ Header(s) \in Logs /\ Header(s) # None /\ Header(s).on = disk[First]
       /\ Header(s).base = d.content /\ Header(s).view \in {None, d.content}
  BY <1>5, <1>6, <1>8, HeaderFacts
<1>11. LogsOK /\ (~rec => log[First] = Header(s))
  <2>1. [Header(s) EXCEPT !.view = Plain(None)] \in Logs
    BY <1>10, PlainFacts DEF Logs
  <2> QED BY <1>4, <1>7, <1>10, <2>1 DEF LogsOK
<1>12. DOMAIN inactive = {} /\ ToSet(order) = {1} /\ IsInjective(order) /\ order \in Seq(1..1)
  BY <1>2 DEF ToSet, IsInjective
<1>13. /\ DOMAIN req = Requests
       /\ \A r \in Requests : req[r].pc = "start" /\ DOMAIN req[r] = {"pc", "kind"}
  BY <1>3
<1>14. TypeOK
  BY <1>2, <1>5, <1>9, <1>11, <1>12, <1>13 DEF TypeOK, LogsOK
<1>15. SlotsWhole BY <1>9, <1>12 DEF SlotsWhole
<1>16. RequestsOK BY <1>13 DEF RequestsOK, Carries, Where, Has
<1>17. Held BY <1>13 DEF Held, HoldsLock
<1>18. Fresh
  <2>1. None \notin Requests BY NoneAssumption
  <2> QED BY <1>2, <1>6, <1>9, <1>12, <1>13, <2>1 DEF Fresh, Names, Has
<1>19. Apart /\ Agree /\ ReadIsView
  BY <1>2, <1>12, <1>13 DEF Apart, Agree, ReadIsView, At, Has
<1>20. FilesPast
  BY <1>2, <1>4, <1>5, <1>6, <1>9, <1>12, <1>13 DEF FilesPast, PastOf, Past, Has
<1>21. Recovering /\ Rearmed BY <1>9, <1>13 DEF Recovering, Rearmed
<1>22. LogOfLive
  BY <1>6, <1>9, <1>10, <1>11 DEF LogOfLive, Dirty, DiskChanged
<1> QED BY <1>14, <1>15, <1>16, <1>17, <1>18, <1>19, <1>20, <1>21, <1>22 DEF WsInv

\* No documents are confused, what is done under the lock stays, and the logs
\* follow: the invariant the theorems below rest on.
THEOREM WsInvariance == Spec => []WsInv
<1>1. Init => WsInv BY InitHolds
<1>2. WsInv /\ [Next]_vars => WsInv'
  BY OutsideKeeps, StepKeeps, StutterKeeps DEF Next
<1> QED BY <1>1, <1>2, PTL DEF Spec

\* Tabs, slots, logs, files and requests are what their types say: among them
\* that the strip shows each tab once, that a parked tab has a document and no
\* writer, and that no tab is both live and parked (park_active, focus_tab,
\* remove_tab_and_focus_neighbor).
THEOREM WsTypeCorrect == Spec => []TypeOK
<1>1. WsInv => TypeOK BY DEF WsInv
<1> QED BY <1>1, WsInvariance, PTL

\* Find, search and analysis read the view that was live when they looked,
\* for any number of readers, edits and tab switches in between: a document
\* and a revision name one view, in the slots and in the cached snapshot
\* (edit_snapshot, cached_dirty_snapshot, dirty_view).
THEOREM ReadsAreViews == Spec => []ReadIsView
<1>1. WsInv => ReadIsView BY DEF WsInv
<1> QED BY <1>1, WsInvariance, PTL

\* The log of the live session gives its unsaved edits back and nothing else,
\* whatever saves, switches, recoveries and opens of the same path ran
\* (attach_live_wal, wal_path_in_use, close_tab, commit_in_place_save).
THEOREM LogsOfLive == Spec => []LogOfLive
<1>1. WsInv => LogOfLive BY DEF WsInv
<1> QED BY <1>1, WsInvariance, PTL

-----------------------------------------------------------------------------
(* Unsaved edits do not just vanish.                                       *)

\* The tab shows what it showed.
Kept(t) == t \in Open' /\ Slot(t)'.view = Slot(t).view

LEMMA KeptInPlace ==
    ASSUME NEW t \in Open, active' = active, inactive' = inactive, live'.view = live.view
    PROVE  Kept(t)
BY DEF Kept, Open, Slot

LEMMA KeptByFocus ==
    ASSUME TabsOK, NEW t \in Open, Slot(t).doc # None, NEW u, Focus(u)
    PROVE  Kept(t)
<1>1. CASE active = u \/ u \notin ToSet(order)
  BY <1>1, KeptInPlace DEF Focus, tabs
<1>2. CASE ~(active = u \/ u \notin ToSet(order))
  <2> DEFINE s == IF u \in DOMAIN Parked THEN Parked[u] ELSE Empty
  <2>1. /\ live' = Attached(s) /\ active' = u /\ u # active /\ u \in ToSet(order)
        /\ DOMAIN inactive' = DOMAIN Parked \ {u}
        /\ \A v \in DOMAIN inactive' : inactive'[v] = Parked[v]
    BY <1>2 DEF Focus, Without
  <2>2. u # None BY <2>1, OrderFacts
  <2>3. CASE t = u
    <3>1. t \in DOMAIN inactive /\ Slot(t) = inactive[t] BY <2>1, <2>3 DEF Open, Slot
    <3>2. s = inactive[t] /\ inactive[t] \in Sessions BY <2>3, <3>1, ParkedFacts DEF TabsOK
    <3> HIDE DEF s
    <3>3. live'.view = inactive[t].view BY <2>1, <3>2, AttachedFacts
    <3> QED BY <2>1, <2>2, <2>3, <3>1, <3>3 DEF Kept, Open, Slot
  <2>4. CASE t # u /\ t = active
    <3>1. live.doc # None /\ Slot(t) = live BY <2>4 DEF Slot
    <3>2. t \in DOMAIN Parked /\ Parked[t] = Asleep
      BY <2>4, <3>1, ParkedFacts DEF TabsOK
    <3>3. Asleep.view = live.view BY AsleepFacts DEF TabsOK, Alike
    <3> QED BY <2>1, <2>4, <3>1, <3>2, <3>3 DEF Kept, Open, Slot
  <2>5. CASE t # u /\ t # active
    <3>1. t \in DOMAIN inactive /\ Slot(t) = inactive[t] BY <2>5 DEF Open, Slot
    <3> QED BY <2>1, <2>5, <3>1, ParkedFacts DEF Kept, Open, Slot
  <2> QED BY <2>3, <2>4, <2>5
<1> QED BY <1>1, <1>2

LEMMA KeptByNewTab ==
    ASSUME TabsOK, NEW t \in Open, t \in ToSet(order), Slot(t).doc # None, NEW d, NEW b, NewTab(d, b)
    PROVE  Kept(t)
<1>1. inactive' = Parked /\ active' = nextId /\ t # nextId BY OrderFacts DEF NewTab
<1>2. CASE t = active
  <2>1. live.doc # None /\ Slot(t) = live BY <1>2 DEF Slot
  <2>2. t \in DOMAIN Parked /\ Parked[t] = Asleep BY <1>2, <2>1, ParkedFacts DEF TabsOK
  <2>3. Asleep.view = live.view BY AsleepFacts DEF TabsOK, Alike
  <2> QED BY <1>1, <2>1, <2>2, <2>3 DEF Kept, Open, Slot
<1>3. CASE t # active
  <2>1. t \in DOMAIN inactive /\ Slot(t) = inactive[t] BY <1>3 DEF Open, Slot
  <2> QED BY <1>1, <2>1, ParkedFacts DEF Kept, Open, Slot
<1> QED BY <1>2, <1>3

\* Another tab leaves.
LEMMA KeptByRemoval ==
    ASSUME TabsOK, NEW t \in Open, NEW u \in ToSet(order), t # u, Removed(u)
    PROVE  Kept(t)
<1>1. CASE u # active
  BY <1>1 DEF Removed, Without, Kept, Open, Slot
<1>2. CASE u = active /\ live.doc = None
  BY <1>2, KeptInPlace DEF Removed
<1>3. CASE u = active /\ live.doc # None
  <2> DEFINE n == Neighbor(u)
  <2>1. /\ active' = n /\ DOMAIN inactive' = DOMAIN inactive \ {n}
        /\ \A v \in DOMAIN inactive' : inactive'[v] = inactive[v]
        /\ n \in DOMAIN inactive => live' = Attached(inactive[n])
    BY <1>3 DEF Removed, Without
  <2> HIDE DEF n
  <2>2. t \in DOMAIN inactive /\ Slot(t) = inactive[t] BY <1>3 DEF Open, Slot
  <2>3. inactive[t] \in Sessions /\ t # None
    <3>1. t \in ToSet(order) BY <2>2 DEF TabsOK
    <3> QED BY <2>2, <3>1, OrderFacts DEF TabsOK
  <2>4. CASE t = n
    <3>1. live'.view = inactive[t].view BY <2>1, <2>2, <2>3, <2>4, AttachedFacts
    <3> QED BY <2>1, <2>2, <2>3, <2>4, <3>1 DEF Kept, Open, Slot
  <2>5. CASE t # n
    BY <2>1, <2>2, <2>5 DEF Kept, Open, Slot
  <2> QED BY <2>4, <2>5
<1> QED BY <1>1, <1>2, <1>3

\* What the log of a detached tab has, or why it has not.
LEMMA DetachedEdits ==
    ASSUME WsInv, NEW r \in Requests, Detach(r), Moves(r), NEW t \in ToSet(order) \cap Open,
           Removed(t), log' = RelitLog(t), ~(Dirty(Slot(t)) /\ ~Slot(t).wal /\ ~Slot(t).rec),
           Dirty(Slot(t)), Slot(t).doc # None
    PROVE  Elsewhere(Slot(t)) \/ Asked(t)
<1>1. /\ TypeOK /\ TabsOK /\ SlotsWhole /\ LogOfLive BY DEF WsInv, TypeOK, TabsOK
<1>2. req'[r] # req[r] /\ At(r, "done")' /\ req'[r].kind = "detach"
  BY <1>1, Ends DEF Detach, Begin, At, TypeOK
<1>3. t \notin ToSet(order') BY <1>1, RestFacts DEF Removed, TabsOK
<1>4. CASE Slot(t).rec BY <1>2, <1>3, <1>4 DEF Asked
<1>5. CASE ~Slot(t).rec
  <2>1. t = active /\ Slot(t) = live /\ live.wal
    BY <1>1, <1>5 DEF Open, Slot, TabsOK
  <2> DEFINE p == live.doc.path
  <2>2. p \in Paths /\ live.doc # None /\ live.view # None
    BY <1>1, <2>1 DEF TypeOK, Sessions, Docs, SlotsWhole, Whole
  <2>3. CASE log[p] = None
    <3>1. SweptBehind(p) BY <1>1, <2>1, <2>2, <2>3 DEF LogOfLive
    <3> QED BY <1>2, <1>3, <2>1, <3>1 DEF Asked
  <2>4. CASE log[p] # None /\ log'[p] = log[p]
    <3>1. log[p].view = live.view BY <1>1, <2>1, <2>2, <2>4 DEF LogOfLive
    <3> QED BY <2>1, <2>2, <2>4, <3>1 DEF Elsewhere
  <2>5. CASE log'[p] # log[p]
    <3> DEFINE n == Neighbor(t)
    <3>1. n \in DOMAIN inactive /\ log' = AttachedLog(inactive[n])
      BY <2>5 DEF RelitLog
    <3>2. n # t /\ n \in Open
      BY <3>1, <2>1, <1>1 DEF Open, TabsOK
    <3> HIDE DEF n
    <3>3. inactive[n] \in Sessions /\ Whole(inactive[n])
          /\ disk \in [Paths -> Files] /\ log \in [Paths -> Logs \cup {None}]
      BY <1>1, <3>1 DEF TypeOK, SlotsWhole
    <3>4. Attaches(inactive[n]) /\ p = inactive[n].doc.path
      BY <2>2, <2>5, <3>1, <3>3, AttachedLogFacts
    <3>5. Slot(n) = inactive[n] BY <2>1, <3>2 DEF Slot
    <3>6. Shared(t)
      BY <2>1, <3>2, <3>4, <3>5 DEF Shared, InUse, Attaches
    <3> QED BY <1>2, <1>3, <3>6 DEF Asked
  <2> QED BY <2>3, <2>4, <2>5
<1> QED BY <1>4, <1>5

\* The edits of the live slot after a step that works on it.
LEMMA WorkedEdits ==
    ASSUME WsInv, NEW r \in Requests, Works(r), Moves(r), active # None,
           Dirty(live), live.doc # None
    PROVE  GoesOn(active) \/ Asked(active)
<1>1. /\ TypeOK /\ TabsOK /\ SlotsWhole /\ RequestsOK /\ Held /\ Agree /\ FilesPast
  BY DEF WsInv, TypeOK, TabsOK
<1>2. Carries(r) /\ Where(r) /\ live \in Sessions BY <1>1 DEF RequestsOK, TypeOK
<1>3. UNCHANGED <<order, active, inactive, nextId>> BY <1>1, WorksLive
<1>4. active \in Open BY DEF Open
<1>5. live'.view = live.view \/ live'.view = Grown(live.view) \/ live'.rev > live.rev => GoesOn(active)
  BY <1>3, <1>4 DEF GoesOn, Open, Slot
<1>a. CASE SaveCommit(r)
  BY <1>a, <1>2, <1>5 DEF SaveCommit, Committed, Sessions
<1>b. CASE SortDetach(r)
  BY <1>b, <1>2, <1>5 DEF SortDetach, Sessions
<1>c. CASE SortReplace(r)
  BY <1>c, <1>1 DEF SortReplace, At, Held, HoldsLock
<1>d. CASE ReloadPut(r)
  <2>1. req[r].kind # "sort" /\ req[r].kind \in {"saveas", "sort", "revert"}
    BY <1>d, <1>1, <1>2 DEF ReloadPut, At, Where, Held, HoldsLock
  <2>2. req'[r] # req[r] /\ At(r, "done")' /\ req'[r].kind = req[r].kind
    BY <1>d, <1>1, Ends DEF ReloadPut, At, TypeOK
  <2>3. CASE req[r].kind = "revert"
    BY <2>2, <2>3 DEF Asked
  <2>4. CASE req[r].kind = "saveas" /\ ~Unchanged(r)
    BY <1>d, <1>5, <2>4 DEF ReloadPut
  <2>5. CASE req[r].kind = "saveas" /\ Unchanged(r)
    <3>1. Has(r, "snap") BY <1>d, <1>2, <2>5 DEF ReloadPut, At, Where
    <3>2. req[r].snap.view = live.view
      BY <1>1, <2>5, <3>1 DEF Unchanged, Agree, Earlier
    <3> QED BY <1>d, <2>2, <2>5, <3>2 DEF ReloadPut, Asked, Slot
  <2> QED BY <2>1, <2>3, <2>4, <2>5
<1>e. CASE Discarded(r)
  <2> DEFINE s == [live EXCEPT !.rec = FALSE]
  <2>1. s \in Sessions /\ s.view = live.view BY <1>2 DEF Sessions
  <2>2. live' = Attached(s) BY <1>e DEF Discarded
  <2> HIDE DEF s
  <2> QED BY <1>5, <2>1, <2>2, AttachedFacts
<1>f. CASE RecoverInstall(r)
  <2>1. CASE live' = live BY <1>5, <2>1
  <2>2. CASE live' # live
    <3>1. /\ live.rev = 0
          /\ live' = [live EXCEPT !.rec = FALSE, !.view = req[r].view, !.rev = 1, !.wal = TRUE]
      BY <1>f, <2>2 DEF RecoverInstall
    <3>2. live'.rev = 1 BY <1>2, <3>1 DEF Sessions
    <3> QED BY <1>5, <3>1, <3>2
  <2> QED BY <2>1, <2>2
<1>g. CASE TailInstall(r)
  <2>1. CASE live' = live BY <1>5, <2>1
  <2>2. CASE live' # live
    <3> DEFINE d == req[r].doc
    <3>1. /\ Unchanged(r) /\ ~HasEdits(live)
          /\ live' = [live EXCEPT !.doc = d, !.base = disk[d.path],
                                  !.view = d.content, !.saved = d.content]
      BY <1>g, <2>2 DEF TailInstall
    <3>2. live'.view = d.content BY <1>2, <3>1 DEF Sessions
    <3>3. req[r].pc = "grown" /\ Has(r, "snap")
      BY <1>g, <1>2 DEF TailInstall, At, Where
    <3>4. d.content = Grown(req[r].snap.doc.content) BY <1>1, <3>3 DEF FilesPast
    <3>5. live.doc = req[r].snap.doc
      BY <1>1, <3>1, <3>3 DEF Unchanged, Agree, Earlier
    <3>6. live.view = live.doc.content BY <3>1 DEF HasEdits
    <3> QED BY <1>5, <3>2, <3>4, <3>5, <3>6
  <2> QED BY <2>1, <2>2
<1> QED BY <1>a, <1>b, <1>c, <1>d, <1>e, <1>f, <1>g DEF Works

\* What becomes of the unsaved edits of a tab in a step.
LEMMA EditsAccounted ==
    ASSUME WsInv, Next, NEW t \in ToSet(order) \cap Open, Dirty(Slot(t)), Slot(t).doc # None
    PROVE  GoesOn(t) \/ Elsewhere(Slot(t)) \/ Asked(t)
<1>1. /\ TypeOK /\ TabsOK /\ SlotsWhole /\ RequestsOK BY DEF WsInv, TypeOK, TabsOK
<1>2. Kept(t) => GoesOn(t) BY DEF Kept, GoesOn
<1>3. UNCHANGED <<live, active, inactive>> => GoesOn(t) BY <1>2, KeptInPlace
<1>4. t # None BY <1>1, OrderFacts
<1>5. CASE Edit
  <2>1. UNCHANGED <<active, inactive>> /\ live'.rev = live.rev + 1 /\ live.rev \in Nat
    BY <1>1, <1>5, EditFacts DEF Around, TypeOK, Sessions
  <2> QED BY <2>1 DEF GoesOn, Open, Slot
<1>6. ASSUME NEW p \in Paths, OtherWrites(p) PROVE GoesOn(t)
  BY <1>3, <1>6 DEF OtherWrites, tabs
<1>7. ASSUME NEW r \in Requests, Step(r) PROVE GoesOn(t) \/ Elsewhere(Slot(t)) \/ Asked(t)
  <2>1. Moves(r) BY <1>1, <1>7, RequestsMove
  <2>2. CASE Quiet(r) BY <1>3, <2>2, QuietTabs
  <2>3. CASE Reorder(r) BY <1>3, <2>3 DEF Reorder
  <2>4. CASE OpenInstall(r)
    <3>1. \/ \E u \in TabWithPath(req[r].path) : Focus(u)
          \/ NewTab(req[r].doc, req[r].rec)
      BY <2>4 DEF OpenInstall
    <3>2. ASSUME NEW u, Focus(u) PROVE Kept(t) BY <1>1, <3>2, KeptByFocus
    <3>3. NewTab(req[r].doc, req[r].rec) => Kept(t) BY <1>1, KeptByNewTab
    <3> QED BY <1>2, <3>1, <3>2, <3>3
  <2>5. CASE Switch(r)
    <3>1. \E u : Focus(u) BY <2>5 DEF Switch
    <3>2. ASSUME NEW u, Focus(u) PROVE Kept(t) BY <1>1, <3>2, KeptByFocus
    <3> QED BY <1>2, <3>1, <3>2
  <2>6. CASE Close(r)
    <3>1. PICK u \in ToSet(order) : Removed(u) BY <2>6 DEF Close
    <3>2. CASE u = t
      <4>1. req'[r] # req[r] /\ At(r, "done")' /\ req'[r].kind = "close"
        BY <1>1, <2>6, Ends DEF Close, Begin, At, TypeOK
      <4>2. t \notin ToSet(order') BY <1>1, <3>1, <3>2, RestFacts DEF Removed, TabsOK
      <4> QED BY <4>1, <4>2 DEF Asked
    <3>3. CASE u # t BY <1>1, <1>2, <3>1, <3>3, KeptByRemoval
    <3> QED BY <3>2, <3>3
  <2>7. CASE Detach(r)
    <3>1. PICK u \in ToSet(order) \cap Open :
              IF Dirty(Slot(u)) /\ ~Slot(u).wal /\ ~Slot(u).rec
              THEN UNCHANGED <<tabs, log>>
              ELSE Removed(u) /\ log' = RelitLog(u)
      BY <2>7 DEF Detach
    <3>2. CASE Dirty(Slot(u)) /\ ~Slot(u).wal /\ ~Slot(u).rec
      BY <1>3, <3>1, <3>2 DEF tabs
    <3>3. CASE ~(Dirty(Slot(u)) /\ ~Slot(u).wal /\ ~Slot(u).rec)
      <4>1. Removed(u) /\ log' = RelitLog(u) BY <3>1, <3>3
      <4>2. CASE u = t BY <2>1, <2>7, <3>3, <4>1, <4>2, DetachedEdits
      <4>3. CASE u # t BY <1>1, <1>2, <4>1, <4>3, KeptByRemoval
      <4> QED BY <4>2, <4>3
    <3> QED BY <3>2, <3>3
  <2>8. CASE Works(r)
    <3>1. UNCHANGED <<active, inactive>> BY <2>8, <1>1, WorksLive DEF WsInv
    <3>2. CASE t = active
      <4>1. Slot(t) = live BY <3>2 DEF Slot
      <4> QED BY <1>4, <2>1, <2>8, <3>2, <4>1, WorkedEdits
    <3>3. CASE t # active BY <3>1, <3>3 DEF GoesOn, Open, Slot
    <3> QED BY <3>2, <3>3
  <2> QED BY <1>7, <2>2, <2>3, <2>4, <2>5, <2>6, <2>7, <2>8, StepKinds DEF Shuffles
<1> QED BY <1>5, <1>6, <1>7 DEF Next, Outside

\* Unsaved edits leave a tab only into a file, into a log, under newer edits,
\* or because the user closed or reverted that tab, for any number of tabs and
\* of requests that race with them: what a save-as or a tail follow replaces
\* has the revision it looked at, a switch parks before it installs, and a tab
\* that is detached leaves a log that LogOfLive vouches for (confirm_overwrite,
\* reload_reverted_if_unchanged, park_active, detach_tab).
THEOREM EditsAreKept == Spec => EditsKept
<1>1. WsInv /\ [Next]_vars =>
        [\A t \in ToSet(order) \cap Open : Dirty(Slot(t)) /\ Slot(t).doc # None =>
            GoesOn(t) \/ Elsewhere(Slot(t)) \/ Asked(t)]_vars
  BY EditsAccounted
<1> QED BY <1>1, WsInvariance, PTL DEF Spec, EditsKept
=============================================================================
