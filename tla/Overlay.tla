------------------------------ MODULE Overlay ------------------------------
(***************************************************************************)
(* The line-level overlay of one EditSession (edit/mod.rs, mutate.rs,      *)
(* history.rs, overlay.rs, change.rs, save.rs): sparse patches keyed by    *)
(* original line, the inverse steps that undo them, the streams a save     *)
(* writes, the change markers, and the re-anchoring of an overlay on the   *)
(* file saved from it.                                                     *)
(*                                                                         *)
(* A line's text is a member of Text.  Columns are left out: the ends of a *)
(* replaced range are whole lines, whose new text may be any.  Lines count *)
(* from 1; anchor Len(Base) + 1 is the code's append anchor.               *)
(***************************************************************************)
EXTENDS Integers, SequencesExt, FiniteSetsExt

CONSTANTS
    Text,           \* the texts a line can have
    Empty,          \* the empty text
    Long,           \* texts beyond MAX_VIEW_LINE_BYTES
    Prefix,         \* what a view shows of a long text
    None,           \* no replacement; no save under way
    Glued,          \* two lines that ran together in a file
    Base,           \* the lines of the mapped document
    BaseTerminated, \* its last line ends with a newline
    NewlineByte(_, _), \* (t, terminated): whether a line t of the document
                    \* has \n or \r for its last byte
    HistoryLimit,   \* HISTORY_LIMIT
    Pastes,         \* bound: the line sequences an edit may put in
    MaxLines,       \* bound: lines of a view
    MaxEdits        \* bound: changes committed

ASSUME TextAssumption ==
    /\ {Empty, Prefix} \subseteq Text /\ Long \subseteq Text \ {Empty, Prefix}
    /\ None \notin Text /\ Glued \notin Text
ASSUME BaseAssumption ==
    /\ Base \in Seq(Text) /\ BaseTerminated \in BOOLEAN
    /\ Base # <<>> /\ Last(Base) = Empty => BaseTerminated
ASSUME NewlineByteAssumption ==
    \A t \in Text, terminated \in BOOLEAN : NewlineByte(t, terminated) \in BOOLEAN
ASSUME PastesAssumption == Pastes \subseteq Seq(Text) \ {<<>>}
ASSUME OverlayBoundsAssumption ==
    HistoryLimit \in Nat \ {0} /\ MaxLines \in Nat /\ MaxEdits \in Nat

VARIABLES
    events,       \* the overlay: anchor -> event
    undo, redo,   \* history stacks of [ops, gen], the top first
    content_gen, next_gen, saved_gen,
    saved_events, \* the overlay that produced the saved bytes
    saving        \* the snapshot an in-place save is writing, or None

vars == <<events, undo, redo, content_gen, next_gen, saved_gen,
          saved_events, saving>>

Events == {e \in [inserts : Seq(Text), replacement : Text \cup {None},
                  deleted : BOOLEAN] : e.deleted => e.replacement = None}

NoEvent == [inserts |-> <<>>, replacement |-> None, deleted |-> FALSE]

\* The append anchor has no line of its own.
IsOverlay(ev) == /\ DOMAIN ev \subseteq 1..(Len(Base) + 1)
                 /\ \A a \in DOMAIN ev :
                       /\ ev[a] \in Events
                       /\ a > Len(Base) =>
                             ev[a] = [NoEvent EXCEPT !.inserts = ev[a].inserts]

\* The stacks are those of `EditHistory', here with inverse steps.
History == INSTANCE EditHistory WITH Contents <- Seq(Text), Corrupt <- <<Glued>>

-----------------------------------------------------------------------------
(* Reading the overlay ev over a document of lines base.                   *)

At(ev, a) == IF a \in DOMAIN ev THEN ev[a] ELSE NoEvent

Put(ev, a, e) == [b \in DOMAIN ev \cup {a} |-> IF b = a THEN e ELSE ev[b]]

\* clean_anchor
Cleaned(ev, a) == IF At(ev, a) = NoEvent
                  THEN Restrict(ev, DOMAIN ev \ {a}) ELSE ev

\* Whether anchor a still has a line of its own.
Alive(base, ev, a) == a <= Len(base) /\ ~At(ev, a).deleted

RegionLen(base, ev, a) ==
    Len(At(ev, a).inserts) + (IF Alive(base, ev, a) THEN 1 ELSE 0)

Regions(base) == 1..(Len(base) + 1)

\* The sums of the first 0, 1, ... of the numbers n.
Sums(n) ==
    LET sum[k \in 0..Len(n)] == IF k = 0 THEN 0 ELSE sum[k - 1] + n[k] IN sum

\* Mutant of TotalLines: an anchor with insertions is not counted deleted.
TotalLinesEither(base, ev) ==
    Len(base) + MapThenSumSet(LAMBDA a : Len(ev[a].inserts), DOMAIN ev)
              - Cardinality({a \in DOMAIN ev : /\ a <= Len(base) /\ ev[a].deleted
                                              /\ ev[a].inserts = <<>>})

\* stats: original + inserted - deleted.
TotalLines(base, ev) ==
    LET last == Len(base) + 1
        inserted == Sums([a \in Regions(base) |-> Len(At(ev, a).inserts)])
        deleted == Sums([a \in Regions(base) |->
                            IF a <= Len(base) /\ At(ev, a).deleted THEN 1 ELSE 0])
    IN (Len(base) + inserted[last]) - deleted[last]

\* The logical line at which region a begins.
Start(base, ev, a) ==
    1 + Sums([b \in Regions(base) |-> RegionLen(base, ev, b)])[a - 1]

\* locate: the region of logical line l and its place in it; past the
\* insertions is the anchor's own line.
Locate(base, ev, l) ==
    LET a == CHOOSE b \in Regions(base) :
                 /\ Start(base, ev, b) <= l
                 /\ l < Start(base, ev, b) + RegionLen(base, ev, b)
    IN [anchor |-> a, index |-> l + 1 - Start(base, ev, a)]

IsInsert(ev, ref) == ref.index <= Len(At(ev, ref.anchor).inserts)

\* The text of the anchor's own line.
OwnText(base, ev, a) == IF At(ev, a).replacement = None
                        THEN base[a] ELSE At(ev, a).replacement

\* line_capped without its cap: the text of one located line.
LineText(base, ev, l) ==
    LET ref == Locate(base, ev, l) IN
    IF IsInsert(ev, ref) THEN At(ev, ref.anchor).inserts[ref.index]
                         ELSE OwnText(base, ev, ref.anchor)

Region(base, ev, a) ==
    At(ev, a).inserts
      \o (IF Alive(base, ev, a) THEN <<OwnText(base, ev, a)>> ELSE <<>>)

\* lines: the whole view, region by region.
View(base, ev) ==
    FlattenSeq([a \in Regions(base) |-> Region(base, ev, a)])

Total == TotalLines(Base, events)

\* line_text refuses what a view would truncate.
Editable(ev, l) == LineText(Base, ev, l) \notin Long

-----------------------------------------------------------------------------
(* Mutations, on work in progress w: the overlay w.ev and the inverses of   *)
(* what was done to it, w.rec, the latest last.                             *)

Work(ev) == [ev |-> ev, rec |-> <<>>]

SetLine(a, e) == [op |-> "SetLineState", anchor |-> a,
                  replacement |-> e.replacement, deleted |-> e.deleted]
SetInsert(a, i, t) == [op |-> "SetInsert", anchor |-> a, index |-> i, text |-> t]
RemoveInsert(a, i) == [op |-> "RemoveInsert", anchor |-> a, index |-> i]
InsertInsert(a, i, t) == [op |-> "InsertInsert", anchor |-> a, index |-> i, text |-> t]

\* One recorded change: anchor a becomes e, and op takes it back.
Did(w, a, e, op) ==
    [ev |-> Cleaned(Put(w.ev, a, e), a), rec |-> Append(w.rec, op)]

\* Setting the line of anchor a itself; nothing is recorded when it is so.
SetOwnLine(w, a, replacement, deleted) ==
    LET e == At(w.ev, a) IN
    IF e.replacement = replacement /\ e.deleted = deleted THEN w
    ELSE Did(w, a, [e EXCEPT !.replacement = replacement, !.deleted = deleted],
             SetLine(a, e))

\* Mutant of Replacement: the shown text is compared, however long the line.
ReplacementShown(a, t) ==
    IF (IF Base[a] \in Long THEN Prefix ELSE Base[a]) = t THEN None ELSE t

\* Typing a line's original text back removes its replacement, except
\* beyond the view cap, where the texts are not compared.
Replacement(a, t) ==
    IF Base[a] \notin Long /\ Base[a] = t THEN None ELSE t

\* replace_line_inner
ReplaceLineInner(w, l, t) ==
    LET ref == Locate(Base, w.ev, l)
        e == At(w.ev, ref.anchor) IN
    IF ~IsInsert(w.ev, ref)
    THEN SetOwnLine(w, ref.anchor, Replacement(ref.anchor, t), FALSE)
    ELSE IF e.inserts[ref.index] = t THEN w
    ELSE Did(w, ref.anchor, [e EXCEPT !.inserts[ref.index] = t],
             SetInsert(ref.anchor, ref.index, e.inserts[ref.index]))

\* insert_line_before_inner: before line l, or after the last one.
InsertLineInner(w, l, t) ==
    LET ref == IF l > TotalLines(Base, w.ev)
               THEN [anchor |-> Len(Base) + 1,
                     index |-> Len(At(w.ev, Len(Base) + 1).inserts) + 1]
               ELSE Locate(Base, w.ev, l)
        e == At(w.ev, ref.anchor)
    IN Did(w, ref.anchor, [e EXCEPT !.inserts = InsertAt(@, ref.index, t)],
           RemoveInsert(ref.anchor, ref.index))

\* delete_line_inner
DeleteLineInner(w, l) ==
    LET ref == Locate(Base, w.ev, l)
        e == At(w.ev, ref.anchor) IN
    IF ~IsInsert(w.ev, ref) THEN SetOwnLine(w, ref.anchor, None, TRUE)
    ELSE Did(w, ref.anchor, [e EXCEPT !.inserts = RemoveAt(@, ref.index)],
             InsertInsert(ref.anchor, ref.index, e.inserts[ref.index]))

\* Op(x).  Binding x makes TLC compute it once, whatever Op does with it.
Of(Op(_), x) == CHOOSE y \in {Op(v) : v \in {x}} : TRUE

\* One step per element of seq, each from what the step before it left.
InTurn(Step(_, _), w, seq) ==
    LET done[i \in 0..Len(seq)] ==
            IF i = 0 THEN w ELSE Of(LAMBDA v : Step(v, seq[i]), done[i - 1])
    IN done[Len(seq)]

InsertLines(w, l, texts) ==
    InTurn(LAMBDA v, k : InsertLineInner(v, l + k - 1, texts[k]),
           w, [k \in 1..Len(texts) |-> k])

\* The lines l0..l1, bottom-most first.
DeleteLines(w, l0, l1) ==
    InTurn(DeleteLineInner, w, [k \in 1..(l1 - l0 + 1) |-> l1 + 1 - k])

\* replace_range_inner, once its range is known to be valid: parts are the
\* pasted lines, head and tail attached.
ReplaceRangeInner(w, l0, l1, parts) ==
    IF TotalLines(Base, w.ev) = 0 THEN InsertLines(w, 1, parts)
    ELSE InsertLines(
             DeleteLines(ReplaceLineInner(w, l0, Head(parts)), l0 + 1, l1),
             l0 + 1, Tail(parts))

-----------------------------------------------------------------------------
(* Taking back.  A record is applied from its end.                         *)

\* apply_op on w; the inverse of op goes to w.rec.
ApplyOp(w, op) ==
    LET a == op.anchor
        e == At(w.ev, a) IN
    CASE op.op = "SetLineState" ->
            Did(w, a, [e EXCEPT !.replacement = op.replacement,
                                !.deleted = op.deleted], SetLine(a, e))
      [] op.op = "SetInsert" ->
            Did(w, a, [e EXCEPT !.inserts[op.index] = op.text],
                SetInsert(a, op.index, e.inserts[op.index]))
      [] op.op = "RemoveInsert" ->
            Did(w, a, [e EXCEPT !.inserts = RemoveAt(@, op.index)],
                InsertInsert(a, op.index, e.inserts[op.index]))
      [] op.op = "InsertInsert" ->
            Did(w, a, [e EXCEPT !.inserts = InsertAt(@, op.index, op.text)],
                RemoveInsert(a, op.index))

\* Mutant of ApplyRecord: the steps in the order they were taken.
ApplyRecordForward(ev, ops) == InTurn(ApplyOp, Work(ev), ops)

\* apply_record
ApplyRecord(ev, ops) == InTurn(ApplyOp, Work(ev), Reverse(ops))

-----------------------------------------------------------------------------
(* Saving and reopening.                                                   *)

\* A line in a file; `copied' is its origin, the document's own bytes.
Chunk(t, terminated, copied) == [text |-> t, term |-> terminated, copied |-> copied]

Terminated(texts) == [i \in 1..Len(texts) |-> Chunk(texts[i], TRUE, FALSE)]

\* line_terminator: only the last original line may lack one.
HasTerminator(a) == a < Len(Base) \/ BaseTerminated

\* Mutant of BeforeAppended: the last line is left open.
BeforeAppendedOpen(body, inserts) == body

\* mark_bytes, mark_line: whether the output so far ends a line.  Copied
\* bytes are judged by the last of them.
EndedWithTerminator(c) == IF c.copied THEN NewlineByte(c.text, c.term) ELSE c.term

\* A newline is written before lines are appended to a last line that does
\* not look terminated: it closes the line, or opens another.
BeforeAppended(body, inserts) ==
    IF inserts = <<>> \/ body = <<>> \/ EndedWithTerminator(Last(body)) THEN body
    ELSE IF Last(body).term THEN Append(body, Chunk(Empty, TRUE, FALSE))
    ELSE [body EXCEPT ![Len(body)].term = TRUE]

\* write_stream: the lines a save writes, untouched ones as they are.
Written(ev) ==
    LET own(a) == IF Alive(Base, ev, a)
                  THEN <<Chunk(OwnText(Base, ev, a), HasTerminator(a),
                               At(ev, a).replacement = None)>>
                  ELSE <<>>
        body == FlattenSeq([a \in 1..Len(Base) |->
                               Terminated(At(ev, a).inserts) \o own(a)])
        appended == At(ev, Len(Base) + 1).inserts
    IN BeforeAppended(body, appended) \o Terminated(appended)

\* save_converted: every line anew; the last ends as the document did.
Converted(ev) ==
    LET lines == View(Base, ev) IN
    [i \in 1..Len(lines) |->
        Chunk(lines[i], i < Len(lines) \/ (Base # <<>> /\ BaseTerminated), FALSE)]

\* An empty last line without a terminator: the file does not show it.
Vanishes(chunks) ==
    chunks # <<>> /\ Last(chunks).text = Empty /\ ~Last(chunks).term

\* The lines a reader finds in a file.
Reopened(chunks) ==
    IF \E i \in 1..(Len(chunks) - 1) : ~chunks[i].term THEN <<Glued>>
    ELSE [i \in 1..(Len(chunks) - (IF Vanishes(chunks) THEN 1 ELSE 0)) |->
             chunks[i].text]

-----------------------------------------------------------------------------
(* Re-anchoring.  s is the overlay a save wrote, t the live one, both over  *)
(* Base; the saved file has the lines View(Base, s).                        *)

Shown(t) == IF t \in Long THEN Prefix ELSE t

\* rebase_source: the text doc.line gives for a line the save changed.
Original(a) == Shown(Base[a])

\* The line of the saved file before which the live region a goes on.
AfterInserts(s, a) == Start(Base, s, a) + Len(At(s, a).inserts)

\* What the live region a holds beyond the saved one: surplus insertions,
\* then its own line if the save had deleted it.
Surplus(s, t, a) ==
    SubSeq(At(t, a).inserts, Len(At(s, a).inserts) + 1, Len(At(t, a).inserts))
      \o (IF Alive(Base, s, a) \/ ~Alive(Base, t, a) THEN <<>>
          ELSE <<IF At(t, a).replacement # None
                 THEN At(t, a).replacement ELSE Original(a)>>)

\* Mutant of ReplacementNow: a replacement taken back is not noticed.
ReplacementNowForgetful(s, t, ref) ==
    LET e == At(t, ref.anchor) saved == At(s, ref.anchor) IN
    IF IsInsert(s, ref)
    THEN IF e.inserts[ref.index] = saved.inserts[ref.index]
         THEN None ELSE e.inserts[ref.index]
    ELSE IF e.replacement = saved.replacement THEN None ELSE e.replacement

\* What the saved line ref has to show now, None if what it holds.
ReplacementNow(s, t, ref) ==
    LET e == At(t, ref.anchor) saved == At(s, ref.anchor) IN
    IF IsInsert(s, ref)
    THEN IF e.inserts[ref.index] = saved.inserts[ref.index]
         THEN None ELSE e.inserts[ref.index]
    ELSE IF e.replacement = saved.replacement THEN None
    ELSE IF e.replacement # None THEN e.replacement ELSE Original(ref.anchor)

\* Whether the saved line ref is no longer in the live overlay.
GoneNow(s, t, ref) ==
    IF IsInsert(s, ref) THEN ref.index > Len(At(t, ref.anchor).inserts)
                        ELSE At(t, ref.anchor).deleted

\* The event of the saved file's line q.
RebasedEvent(s, t, q) ==
    LET ref == Locate(Base, s, q)
        kept == q <= TotalLines(Base, s) /\ ~GoneNow(s, t, ref)
    IN [inserts |-> FlattenSeq([a \in Regions(Base) |->
                        IF AfterInserts(s, a) = q THEN Surplus(s, t, a) ELSE <<>>]),
        replacement |-> IF kept THEN ReplacementNow(s, t, ref) ELSE None,
        deleted |-> q <= TotalLines(Base, s) /\ ~kept]

\* RebaseSource::rebase
Rebased(s, t) ==
    [q \in {q \in 1..(TotalLines(Base, s) + 1) : RebasedEvent(s, t, q) # NoEvent}
        |-> RebasedEvent(s, t, q)]

-----------------------------------------------------------------------------
(* Change markers: <<kind, line>>.  The cap on their number is left out.   *)

\* classify_insert_changes: lists that begin at line p.
InsertMarks(p, now, saved) ==
    LET pre == Len(LongestCommonPrefix({now, saved}))
        rest == Min({Len(now), Len(saved)}) - pre
        suf == Max({n \in 0..rest : \A i \in 0..(n - 1) :
                       now[Len(now) - i] = saved[Len(saved) - i]})
        end == Len(now) - suf
        kept(i) == \/ i <= pre \/ i > end
                   \/ i <= Len(saved) - suf /\ now[i] = saved[i]
    IN {<<IF kept(i) THEN "saved" ELSE "unsaved", p + i - 1>> : i \in 1..Len(now)}
         \cup (IF Len(saved) > Len(now)
               THEN {<<"unsaved", p + end>>, <<"deleted", p + end>>} ELSE {})

\* Mutant of LineMarks: a line brought back since the save is not marked.
LineMarksRevived(l, now, saved) ==
    IF now.deleted
    THEN {<<IF saved.deleted THEN "saved" ELSE "unsaved", l>>, <<"deleted", l>>}
    ELSE IF now.replacement # saved.replacement THEN {<<"unsaved", l>>}
    ELSE IF saved.replacement # None THEN {<<"saved", l>>} ELSE {}

\* The marks of an anchor's own line, or of the gap it left at line l.
LineMarks(l, now, saved) ==
    IF now.deleted
    THEN {<<IF saved.deleted THEN "saved" ELSE "unsaved", l>>, <<"deleted", l>>}
    ELSE IF saved.deleted \/ now.replacement # saved.replacement
    THEN {<<"unsaved", l>>}
    ELSE IF saved.replacement # None THEN {<<"saved", l>>} ELSE {}

\* change_history
Marks(ev, saved) ==
    UNION {LET p == Start(Base, ev, a)
               now == At(ev, a)
           IN InsertMarks(p, now.inserts, At(saved, a).inserts)
                \cup (IF a > Len(Base) THEN {}
                      ELSE LineMarks(p + Len(now.inserts), now, At(saved, a)))
           : a \in DOMAIN ev \cup DOMAIN saved}

MarkedLines(kind) == {m[2] : m \in {m \in Marks(events, saved_events) : m[1] = kind}}

-----------------------------------------------------------------------------
(* Operations.                                                             *)

Init ==
    /\ events = <<>> /\ saved_events = <<>>
    /\ undo = <<>> /\ redo = <<>>
    /\ content_gen = 0 /\ next_gen = 1 /\ saved_gen = 0
    /\ saving = None

\* finish_change: an empty record commits nothing.
Commit(w) ==
    /\ TotalLines(Base, w.ev) <= MaxLines
    /\ events' = w.ev
    /\ \/ w.rec = <<>> /\ UNCHANGED <<undo, redo, content_gen, next_gen>>
       \/ /\ w.rec # <<>>
          /\ undo' = History!Push(undo, [ops |-> w.rec, gen |-> content_gen])
          /\ redo' = <<>>
          /\ content_gen' = next_gen /\ next_gen' = next_gen + 1
    /\ UNCHANGED <<saved_gen, saved_events, saving>>

EditsLeft == next_gen <= MaxEdits

ReplaceLine(l, t) ==
    EditsLeft /\ l <= Total /\ Commit(ReplaceLineInner(Work(events), l, t))

InsertLine(l, t) ==
    EditsLeft /\ l <= Total + 1 /\ Commit(InsertLineInner(Work(events), l, t))

DeleteLine(l) ==
    EditsLeft /\ l <= Total /\ Commit(DeleteLineInner(Work(events), l))

\* Whether an edit of l0..l1 is accepted over the overlay ev.  An empty
\* view accepts an insertion at its first line.
Accepts(ev, l0, l1) ==
    LET total == TotalLines(Base, ev) IN
    IF total = 0 THEN l0 = 1 /\ l1 = 1
    ELSE l0 <= l1 /\ l1 <= total /\ Editable(ev, l0) /\ Editable(ev, l1)

ReplaceRange(l0, l1, parts) ==
    /\ EditsLeft /\ Accepts(events, l0, l1)
    /\ Commit(ReplaceRangeInner(Work(events), l0, l1, parts))

\* replace_batch of two edits, the lower one applied first.  If that made
\* their common line too long for the upper one, the record is unwound.
ReplaceBatch(upper, lower) ==
    /\ EditsLeft
    /\ Accepts(events, upper.l0, upper.l1) /\ Accepts(events, lower.l0, lower.l1)
    /\ upper.l1 <= lower.l0
    /\ LET half == ReplaceRangeInner(Work(events), lower.l0, lower.l1, lower.parts)
       IN IF Accepts(half.ev, upper.l0, upper.l1)
          THEN Commit(ReplaceRangeInner(half, upper.l0, upper.l1, upper.parts))
          ELSE /\ events' = ApplyRecord(half.ev, half.rec).ev
               /\ UNCHANGED <<undo, redo, content_gen, next_gen, saved_gen,
                              saved_events, saving>>

ReplaceRows(l0, l1, rows) ==
    InTurn(LAMBDA w, l : ReplaceLineInner(w, l, rows[l]),
           Work(events), [k \in 1..(l1 - l0 + 1) |-> l0 + k - 1])

ReplaceRect(l0, l1, rows) ==
    /\ EditsLeft /\ l0 <= l1 /\ l1 <= Total
    /\ \A l \in l0..l1 : Editable(events, l)
    /\ Commit(ReplaceRows(l0, l1, rows))

\* replace_rect when row l is too long: the rows above it are already
\* replaced, and the early return commits nothing.
RectRefused(l0, l, rows) ==
    /\ l0 <= l /\ l <= Total /\ ~Editable(events, l)
    /\ \A k \in l0..(l - 1) : Editable(events, k)
    /\ events' = ReplaceRows(l0, l - 1, rows).ev
    /\ UNCHANGED <<undo, redo, content_gen, next_gen, saved_gen, saved_events,
                   saving>>

Undo ==
    /\ undo # <<>>
    /\ LET back == ApplyRecord(events, undo[1].ops) IN
       /\ events' = back.ev
       /\ redo' = History!Push(redo, [ops |-> back.rec, gen |-> content_gen])
    /\ content_gen' = undo[1].gen
    /\ undo' = History!Pop(undo)
    /\ UNCHANGED <<next_gen, saved_gen, saved_events, saving>>

Redo ==
    /\ redo # <<>>
    /\ LET forth == ApplyRecord(events, redo[1].ops) IN
       /\ events' = forth.ev
       /\ undo' = History!Push(undo, [ops |-> forth.rec, gen |-> content_gen])
    /\ content_gen' = redo[1].gen
    /\ redo' = History!Pop(redo)
    /\ UNCHANGED <<next_gen, saved_gen, saved_events, saving>>

\* The snapshot a save streams from, with no lock held.
SaveBegin ==
    /\ saving = None
    /\ saving' = [ev |-> events, gen |-> content_gen]
    /\ UNCHANGED <<events, undo, redo, content_gen, next_gen, saved_gen,
                   saved_events>>

\* Mutant of Saved: what is marked saved is what is live by then.
SavedLive(snapshot) == [ev |-> events, gen |-> snapshot.gen]

\* mark_saved_from: what is marked saved is the snapshot.
Saved(snapshot) == snapshot

SaveCommit ==
    /\ saving # None
    /\ saved_gen' = Saved(saving).gen /\ saved_events' = Saved(saving).ev
    /\ saving' = None
    /\ UNCHANGED <<events, undo, redo, content_gen, next_gen>>

SaveFails ==
    /\ saving # None /\ saving' = None
    /\ UNCHANGED <<events, undo, redo, content_gen, next_gen, saved_gen,
                   saved_events>>

Lines == 1..MaxLines

Edits == [l0 : Lines, l1 : Lines, parts : Pastes]

Next ==
    \/ \E l \in Lines, t \in Text : ReplaceLine(l, t) \/ InsertLine(l, t)
    \/ \E l \in Lines : DeleteLine(l)
    \/ \E e \in Edits : ReplaceRange(e.l0, e.l1, e.parts)
    \/ \E upper, lower \in Edits : ReplaceBatch(upper, lower)
    \/ \E l0, l1 \in Lines : \E rows \in [l0..l1 -> Text] : ReplaceRect(l0, l1, rows)
    \/ Undo \/ Redo
    \/ SaveBegin \/ SaveCommit \/ SaveFails

Spec == Init /\ [][Next]_vars

\* The code as it is, where a rectangle may stop half way.
SpecRectStops ==
    Init /\ [][\/ Next
               \/ \E l0, l \in Lines : \E rows \in [l0..(l - 1) -> Text] :
                     RectRefused(l0, l, rows)]_vars

-----------------------------------------------------------------------------
(* Properties.                                                             *)

ViewOf(ev) == View(Base, ev)

Now == ViewOf(events)

Ops == [op : {"SetLineState"}, anchor : Regions(Base),
        replacement : Text \cup {None}, deleted : BOOLEAN]
         \cup [op : {"SetInsert", "InsertInsert"}, anchor : Regions(Base),
               index : Nat \ {0}, text : Text]
         \cup [op : {"RemoveInsert"}, anchor : Regions(Base), index : Nat \ {0}]

Stacks == Seq([ops : Seq(Ops), gen : Nat])

\* Types; no stack outgrows HISTORY_LIMIT (push_history).
TypeOK ==
    /\ IsOverlay(events) /\ IsOverlay(saved_events)
    /\ undo \in Stacks /\ Len(undo) <= HistoryLimit
    /\ redo \in Stacks /\ Len(redo) <= HistoryLimit
    /\ content_gen \in Nat /\ next_gen \in Nat /\ saved_gen \in Nat
    /\ saving # None => IsOverlay(saving.ev) /\ saving.gen \in Nat

\* The separate walks over the patches agree: stats counts the lines that
\* `lines' shows, and `locate' finds each of them.
WalksAgree ==
    /\ Total = Len(Now)
    /\ \A l \in 1..Total : LineText(Base, events, l) = Now[l]

Spliced(lines, l0, l1, parts) ==
    SubSeq(lines, 1, l0 - 1) \o parts \o SubSeq(lines, l1 + 1, Len(lines))

\* Whatever the overlay already holds, the next edit changes the view as
\* it would change a plain list of lines: exactly the lines it names.
EditsAreSplices ==
    LET After(w) == Of(LAMBDA v : View(Base, v.ev), w)
        w == Work(events)
    IN /\ \A l \in 1..(Total + 1), t \in Text :
             After(InsertLineInner(w, l, t)) = Spliced(Now, l, l - 1, <<t>>)
       /\ \A l \in 1..Total : After(DeleteLineInner(w, l)) = Spliced(Now, l, l, <<>>)
       /\ \A l \in 1..Total, t \in Text :
             After(ReplaceLineInner(w, l, t)) = Spliced(Now, l, l, <<t>>)
       /\ \A l1 \in 1..Total : \A l0 \in 1..l1, parts \in Pastes :
             After(ReplaceRangeInner(w, l0, l1, parts)) = Spliced(Now, l0, l1, parts)

\* The overlay is empty as soon as nothing deviates from the document
\* (has_edits, is_effective): no event says nothing, and no replacement
\* equals its original, unless the original is too long to compare.
NormalForm ==
    \A a \in DOMAIN events :
        /\ events[a] # NoEvent
        /\ events[a].replacement # None /\ events[a].replacement = Base[a] =>
              Base[a] \in Long

\* A file saved from the overlay, as it stands or converted, reopens to the
\* same lines, unless its last line is empty and was never terminated.
SavedReopens ==
    \A chunks \in {Written(events), Converted(events)} :
        ~Vanishes(chunks) => Reopened(chunks) = Now

\* "Saving the overlay and reopening it reproduces the exact same view"
\* (tests/edit_overlay_equivalence.rs:9).
SaveReopens == Reopened(Written(events)) = Now

\* The save changed no line that a view cuts short.
SavedShortLines ==
    \A a \in DOMAIN saved_events :
        a <= Len(Base) /\ Base[a] \in Long =>
            ~saved_events[a].deleted /\ saved_events[a].replacement = None

\* The live overlay, re-anchored for the log of the saved file, shows over
\* the saved lines what the session shows over the mapped ones, however the
\* two overlays have diverged.
RebaseFaithful ==
    SavedShortLines /\ ~Vanishes(Written(saved_events)) =>
        Of(LAMBDA ev : View(Reopened(Written(saved_events)), ev),
           Rebased(saved_events, events)) = Now

IsDirty == content_gen # saved_gen

\* A session that says it has nothing to save shows what it last saved.
CleanShowsSaved == ~IsDirty => Now = View(Base, saved_events)

Unmarked == 1..Total \ MarkedLines("unsaved")

\* The change markers: within the view or on its end row; the lines not
\* marked unsaved are saved lines in their order; without an unsaved mark
\* the view is the saved one, and a clean session has none.
MarkersFaithful ==
    LET saved == View(Base, saved_events) IN
    /\ \A m \in Marks(events, saved_events) : m[2] \in 1..(Total + 1)
    /\ MarkedLines("deleted") \subseteq MarkedLines("saved") \cup MarkedLines("unsaved")
    /\ \E at \in [Unmarked -> 1..Len(saved)] :
          /\ \A k, l \in Unmarked : k < l => at[k] < at[l]
          /\ \A l \in Unmarked : saved[at[l]] = Now[l]
    /\ MarkedLines("unsaved") = {} => Now = saved
    /\ ~IsDirty => MarkedLines("unsaved") = {}

\* The views a stack leads back through, from its top.
Retraced(stack) ==
    LET ev[i \in 0..Len(stack)] ==
            IF i = 0 THEN events ELSE ApplyRecord(ev[i - 1], stack[i].ops).ev
    IN [i \in 1..Len(stack) |-> [view |-> Of(ViewOf, ev[i]), gen |-> stack[i].gen]]

Session == [view |-> Now, content_gen |-> content_gen, next_gen |-> next_gen,
            saved_gen |-> saved_gen, undo |-> Retraced(undo), redo |-> Retraced(redo)]

Promise == INSTANCE ViewHistory WITH
    Contents <- Seq(Text), Corrupt <- <<Glued>>, session <- Session

\* Undo and redo walk through exactly the views that were left behind, and
\* a refused batch leaves no trace: the overlay implements `ViewHistory'.
HistoryRetraces == Promise!Spec
=============================================================================
