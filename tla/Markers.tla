------------------------------ MODULE Markers -------------------------------
(***************************************************************************)
(* Bookmarks (core markers, serve/markers): a sparse set of line numbers    *)
(* that follows edits, undo and redo through a history of its own, kept in  *)
(* step with that of the EditSession, and the paged export of marked lines. *)
(***************************************************************************)
EXTENDS Naturals, Sequences, FiniteSets, SequencesExt, FiniteSetsExt

CONSTANTS
    Batches,        \* the edits asked for: sequences of [l0, l1, new], in order
    MaxLines,       \* bound: lines of the text
    MaxId,          \* bound: lines ever made
    MaxRev,         \* bound: marker revisions
    MarkerLimit,    \* MAX_MARKERS_PER_KIND
    MarkerHistory,  \* MARKER_HISTORY_LIMIT, and HISTORY_LIMIT of the session
    SaveBatch       \* MARKER_SAVE_BATCH

\* checked_sub refuses what is not a range before anything is touched; a new
\* text has at least one line.
ASSUME BatchesAssumption ==
    Batches \subseteq Seq({r \in [l0 : Nat, l1 : Nat, new : Nat \ {0}] : r.l0 <= r.l1})
ASSUME MarkerBoundsAssumption ==
    MaxLines \in Nat \ {0, 1} /\ MarkerHistory \in Nat \ {0} /\ SaveBatch \in Nat

VARIABLES
    text,           \* the view: one identity per line
    undo, redo,     \* EditSession's stacks: the views they restore
    rev,            \* EditSession's revision
    marks,          \* MarkerSet, of one kind
    mundo, mredo,   \* MarkerSession's stacks: records of transforms
    mrev,           \* MarkerSession's revision
    export,         \* the export in flight
    fresh, marked   \* the next identity, and the lines the user has marked

docVars == <<text, undo, redo, rev, fresh>>
mkVars == <<marks, mundo, mredo, mrev>>
markVars == <<docVars, mkVars, export, marked>>

Total == Len(text)

-----------------------------------------------------------------------------
(* MarkerSet::apply.                                                        *)

Replacement(start, old, new) == [start |-> start, old |-> old, new |-> new]
Transform(edit, restore) == [edit |-> edit, restore |-> restore]

\* A replacement keeps the marker of its first line.
Removed(edit, set) ==
    LET first == IF edit.old > 0 /\ edit.new > 0 THEN edit.start + 1 ELSE edit.start IN
    {l \in set : first <= l /\ l < edit.start + edit.old}

Shifted(edit, set) ==
    {IF l >= edit.start + edit.old THEN (l + edit.new) - edit.old ELSE l : l \in set}

\* The state of a replay: the set, and the inverse transforms so far.
Apply(at, t) ==
    LET gone == Removed(t.edit, at.set) IN
    [set |-> Shifted(t.edit, at.set \ gone) \cup t.restore,
     inverse |-> Append(at.inverse,
        Transform(Replacement(t.edit.start, t.edit.new, t.edit.old), gone))]

Replayed(set, record) ==
    LET at[n \in 0 .. Len(record)] ==
            IF n = 0 THEN [set |-> set, inverse |-> <<>>] ELSE Apply(at[n - 1], record[n])
    IN  at

Replay(set, record) == Replayed(set, record)[Len(record)]

\* begin applies a batch as it comes, apply_record a record from its end.
Begin(edits) == Replay(marks, [i \in DOMAIN edits |-> Transform(edits[i], {})])
ApplyRecord(set, record) == Replay(set, Reverse(record))

Push(stack, r) == Append(IF Len(stack) = MarkerHistory THEN Tail(stack) ELSE stack, r)

-----------------------------------------------------------------------------
(* Edits.                                                                   *)

\* batch_line_edits, range_line_edit: from the bottom up; into an empty text
\* the first replaces nothing.
LineEdits(ranges) ==
    LET n == Len(ranges) IN
    [i \in 1 .. n |->
        LET r == ranges[n + 1 - i] IN
        Replacement(r.l0, IF Total = 0 /\ i = 1 THEN 0 ELSE r.l1 + 1 - r.l0, r.new)]

\* EditSession refuses lines outside the view and ranges that overlap.
Valid(ranges) ==
    /\ \A i \in DOMAIN ranges :
        IF Total = 0 THEN ranges[i].l1 = 0 ELSE ranges[i].l1 < Total
    /\ \A i \in 1 .. Len(ranges) - 1 : ranges[i].l1 <= ranges[i + 1].l0

\* The first line keeps its identity, the others are new.
Respelt(at, edit) ==
    LET keep == edit.start + (IF edit.old > 0 THEN 1 ELSE 0)
        more == IF edit.old > 0 THEN edit.new - 1 ELSE edit.new
    IN [text |-> SubSeq(at.text, 1, keep)
                 \o [i \in 1 .. more |-> at.fresh + i - 1]
                 \o SubSeq(at.text, edit.start + edit.old + 1, Len(at.text)),
        fresh |-> at.fresh + more]

Respellings(edits) ==
    LET at[n \in 0 .. Len(edits)] ==
            IF n = 0 THEN [text |-> text, fresh |-> fresh] ELSE Respelt(at[n - 1], edits[n])
    IN  at

\* replace_range, replace_batch: the markers first, then the content, which
\* fails, changes nothing, or is one more generation for both.
EditFails(ranges) ==
    /\ ~Valid(ranges)
    /\ LET begun == Begin(LineEdits(ranges)) IN
       marks' = ApplyRecord(begun.set, begun.inverse).set
    /\ UNCHANGED <<docVars, mundo, mredo, mrev, export, marked>>

EditIsNoOp(ranges) ==
    /\ Valid(ranges) /\ Total > 0
    /\ \A i \in DOMAIN ranges : ranges[i].new = ranges[i].l1 + 1 - ranges[i].l0
    /\ LET begun == Begin(LineEdits(ranges)) IN
       marks' = ApplyRecord(begun.set, begun.inverse).set
    /\ UNCHANGED <<docVars, mundo, mredo, mrev, export, marked>>

Edit(ranges) ==
    /\ Valid(ranges) /\ mrev < MaxRev
    /\ LET begun == Begin(LineEdits(ranges))
           now == Respellings(LineEdits(ranges))[Len(ranges)]
       IN /\ Len(now.text) <= MaxLines /\ now.fresh <= MaxId + 1
          /\ text' = now.text /\ fresh' = now.fresh
          /\ undo' = Push(undo, text) /\ redo' = <<>> /\ rev' = rev + 1
          /\ marks' = begun.set
          /\ mundo' = Push(mundo, begun.inverse) /\ mredo' = <<>> /\ mrev' = mrev + 1
    /\ UNCHANGED <<export, marked>>

Undo ==
    /\ undo # <<>> /\ mrev < MaxRev
    /\ text' = Last(undo) /\ undo' = Front(undo) /\ redo' = Push(redo, text) /\ rev' = rev + 1
    /\ IF mundo = <<>> THEN UNCHANGED mkVars
       ELSE LET done == ApplyRecord(marks, Last(mundo)) IN
            /\ marks' = done.set
            /\ mundo' = Front(mundo) /\ mredo' = Push(mredo, done.inverse) /\ mrev' = mrev + 1
    /\ UNCHANGED <<fresh, export, marked>>

Redo ==
    /\ redo # <<>> /\ mrev < MaxRev
    /\ text' = Last(redo) /\ redo' = Front(redo) /\ undo' = Push(undo, text) /\ rev' = rev + 1
    /\ IF mredo = <<>> THEN UNCHANGED mkVars
       ELSE LET done == ApplyRecord(marks, Last(mredo)) IN
            /\ marks' = done.set
            /\ mredo' = Front(mredo) /\ mundo' = Push(mundo, done.inverse) /\ mrev' = mrev + 1
    /\ UNCHANGED <<fresh, export, marked>>

-----------------------------------------------------------------------------
(* The marker requests.                                                     *)

Toggle(l) ==
    /\ l < Total /\ mrev < MaxRev
    /\ l \in marks \/ Cardinality(marks) < MarkerLimit
    /\ marks' = IF l \in marks THEN marks \ {l} ELSE marks \cup {l}
    /\ marked' = IF l \in marks THEN marked \ {text[l + 1]} ELSE marked \cup {text[l + 1]}
    /\ mrev' = mrev + 1
    /\ UNCHANGED <<docVars, mundo, mredo, export>>

\* add_lines: the earliest of the new ones that there is room for.
Added(lines) ==
    {l \in lines \ marks :
        Cardinality(marks) + Cardinality({k \in lines \ marks : k < l}) < MarkerLimit}

AddLines(lines) ==
    /\ \A l \in lines : l < Total
    /\ mrev < MaxRev
    /\ marks' = marks \cup Added(lines)
    /\ marked' = marked \cup {text[l + 1] : l \in Added(lines)}
    /\ mrev' = IF Added(lines) = {} THEN mrev ELSE mrev + 1
    /\ UNCHANGED <<docVars, mundo, mredo, export>>

Scrubbed(stack) ==
    [i \in DOMAIN stack |-> [j \in DOMAIN stack[i] |-> [stack[i][j] EXCEPT !.restore = {}]]]

\* Mutant: the history keeps what it would restore.
ClearVisible ==
    /\ marks # {} /\ mrev < MaxRev
    /\ marks' = {} /\ marked' = {}
    /\ mrev' = mrev + 1
    /\ UNCHANGED <<docVars, mundo, mredo, export>>

\* clear also forgets the markers that only an undo would bring back.
Clear ==
    /\ mrev < MaxRev
    /\ marks' = {} /\ marked' = {}
    /\ mundo' = Scrubbed(mundo) /\ mredo' = Scrubbed(mredo)
    /\ mrev' = IF <<marks', mundo', mredo'>> = <<marks, mundo, mredo>> THEN mrev ELSE mrev + 1
    /\ UNCHANGED <<docVars, export>>

-----------------------------------------------------------------------------
(* write_markers_to_file: pages of marked lines, each under the lock.       *)

NoExport == [on |-> FALSE, rev |-> 0, mrev |-> 0, left |-> 0, start |-> 0, out |-> <<>>]
Nth(set, i) == CHOOSE l \in set : Cardinality({k \in set : k < l}) = i - 1
Lines(set) == [i \in 1 .. Cardinality(set) |-> text[Nth(set, i) + 1]]

ExportStarts ==
    /\ ~export.on /\ marks # {}
    /\ export' = [on |-> TRUE, rev |-> rev, mrev |-> mrev, left |-> Cardinality(marks),
                  start |-> 0, out |-> <<>>]
    /\ UNCHANGED <<docVars, mkVars, marked>>

\* Mutant: the pin compares the content revision only.
PinRevision(e) == e.rev = rev

PinMatches(e) == e.rev = rev /\ e.mrev = mrev

ExportPage ==
    /\ export.on /\ export.left > 0
    /\ IF ~PinMatches(export) THEN export' = NoExport
       ELSE LET from == {l \in marks : l >= export.start}
                page == {l \in from : Cardinality({k \in from : k < l}) < SaveBatch}
            IN IF page = {} THEN export' = NoExport
               ELSE export' = [export EXCEPT !.out = @ \o Lines(page),
                                             !.left = @ - Cardinality(page),
                                             !.start = Max(page) + 1]
    /\ UNCHANGED <<docVars, mkVars, marked>>

\* The stage takes the target's place; a conflict has removed it.
ExportEnds ==
    /\ export.on /\ export.left = 0
    /\ export' = NoExport
    /\ UNCHANGED <<docVars, mkVars, marked>>

-----------------------------------------------------------------------------
MarkInit ==
    /\ text \in {<<>>, <<1, 2>>} /\ fresh = Len(text) + 1
    /\ undo = <<>> /\ redo = <<>> /\ rev = 0
    /\ marks = {} /\ mundo = <<>> /\ mredo = <<>> /\ mrev = 0 /\ marked = {}
    /\ export = NoExport

MarkNext ==
    \/ \E ranges \in Batches : EditFails(ranges) \/ EditIsNoOp(ranges) \/ Edit(ranges)
    \/ Undo \/ Redo
    \/ \E l \in 0 .. MaxLines - 1 : Toggle(l)
    \/ \E lines \in SUBSET (0 .. MaxLines - 1) : AddLines(lines)
    \/ Clear
    \/ ExportStarts \/ ExportPage \/ ExportEnds

MarkSpec == MarkInit /\ [][MarkNext]_markVars

-----------------------------------------------------------------------------
(* Properties.                                                              *)

Views == {v \in Seq(Nat) : Len(v) <= MaxLines}
MarkRecords == Seq([edit : [start : Nat, old : Nat, new : Nat], restore : SUBSET Nat])

MarkTypeOK ==
    /\ text \in Views /\ undo \in Seq(Views) /\ redo \in Seq(Views)
    /\ marks \subseteq 0 .. MaxLines - 1
    /\ mundo \in Seq(MarkRecords) /\ mredo \in Seq(MarkRecords)
    /\ rev \in Nat /\ mrev \in Nat /\ fresh \in Nat /\ marked \subseteq Nat
    /\ export \in [on : BOOLEAN, rev : Nat, mrev : Nat, left : Nat, start : Nat, out : Seq(Nat)]

\* A bookmark stays with the line it was put on, wherever edits, undo and
\* redo take that line, comes back with a line that comes back, and nothing
\* else is marked.
BookmarksFollow == marks = {i - 1 : i \in {j \in DOMAIN text : text[j] \in marked}}

\* The pages of an export are together the lines that are marked when the
\* last of them is read, in order, each once, as they were all along.
ExportIsOneView == [][
    export.left > 0 /\ export'.on /\ export'.left = 0 => export'.out = Lines(marks)
    ]_markVars
=============================================================================
