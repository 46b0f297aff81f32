------------------------------- MODULE Index --------------------------------
(***************************************************************************)
(* The sparse line index (core index): a checkpoint every so many lines,    *)
(* built by chunks in parallel, extended when the file grows.  A buffer is  *)
(* a sequence of bytes and an offset counts from 0.                         *)
(***************************************************************************)
EXTENDS Integers, Sequences, FiniteSets, SequencesExt

LF == 10
CR == 13
AbsentLine == [from |-> -1, to |-> -1]

\* NewlineKind: "lf" and "cr" of one byte, "wide" of two (little endian).
Width(kind) == IF kind = "wide" THEN 2 ELSE 1
Newline(kind) == IF kind = "cr" THEN CR ELSE LF
UnitAt(kind, buf, off) ==
    IF kind = "wide" THEN buf[off + 1] + 256 * buf[off + 2] ELSE buf[off + 1]

\* The terminators that lie in [off, limit); wide ones on code units only.
Newlines(kind, buf, base, off, limit) ==
    {p \in off .. limit - Width(kind) :
        (kind = "wide" => (p - base) % 2 = 0) /\ UnitAt(kind, buf, p) = Newline(kind)}

\* Of(Op, x): Op of the value of x, which is evaluated once.
Of(Op(_), x) == CHOOSE y \in {Op(v) : v \in {x}} : TRUE

Least(S) == CHOOSE x \in S : \A y \in S : x <= y
Rank(S, x) == Cardinality({y \in S : y < x})
Ordered(S) == [k \in 1 .. Cardinality(S) |-> CHOOSE x \in S : Rank(S, x) = k - 1]

\* find_lf: the first terminator, or none (the limit).
FindNl(kind, buf, base, off, limit) ==
    Of(LAMBDA found : IF found = {} THEN limit ELSE Least(found),
       Newlines(kind, buf, base, off, limit))

\* A terminator opens a line only if something follows it.
Starts(kind, buf, base, from, to) ==
    {from} \cup {s \in {p + Width(kind) : p \in Newlines(kind, buf, base, from, to)} : s < to}

\* scan_chunk: the samples of a chunk, numbered from its first line.
Samples(starts, stride, first) ==
    UNION {{[line |-> first + Rank(v, s), off |-> s] : s \in {t \in v : Rank(v, t) % stride = 0}}
           : v \in {starts}}

\* snap_to_line_start, for the boundaries between chunks.
Snapped(kind, buf, base, pos) ==
    LET nl == FindNl(kind, buf, base, pos, Len(buf)) IN
    IF nl = Len(buf) THEN nl ELSE nl + 1

\* build_bytes: every chunk on its own, then stitched; build_utf16 in one go.
Build(kind, buf, base, stride, chunk) ==
    LET len == Len(buf)
        inner == IF kind = "wide" THEN {}
                 ELSE {Snapped(kind, buf, base, b) :
                        b \in {base + k * chunk : k \in 1 .. len} \cap 0 .. len - 1}
        begins == {base} \cup (inner \ {len})
        end(s) == IF \E t \in begins : t > s THEN Least({t \in begins : t > s}) ELSE len
        lines(s) == Starts(kind, buf, base, s, end(s))
        before(s) == Cardinality(UNION {lines(t) : t \in {u \in begins : u < s}})
    IN [kind |-> kind, base |-> base, stride |-> stride, len |-> len,
        cps |-> IF base >= len THEN {}
                ELSE UNION {Samples(lines(s), stride, before(s)) : s \in begins},
        count |-> IF base >= len THEN 0
                  ELSE Cardinality(UNION {lines(s) : s \in begins})]

\* line_start: from the last checkpoint at or before the line.
LineStart(idx, buf, i) ==
    LET walk(cp, nls) == IF i = cp.line THEN cp.off
                         ELSE Width(idx.kind) + CHOOSE p \in nls : Rank(nls, p) = i - cp.line - 1
    IN Of(LAMBDA cp : Of(LAMBDA nls : walk(cp, nls),
                         Newlines(idx.kind, buf, idx.base, cp.off, idx.len)),
          CHOOSE c \in idx.cps : c.line <= i /\ \A d \in idx.cps : d.line <= i => d.line <= c.line)

RawEnd(idx, buf, off) ==
    Of(LAMBDA nl : IF nl = idx.len THEN nl ELSE nl + Width(idx.kind),
       FindNl(idx.kind, buf, idx.base, off, idx.len))

\* text_end_from_raw: a line feed goes, then a carriage return.
TextEnd(idx, buf, off, raw) ==
    LET w == Width(idx.kind)
        cut(end, code) == IF end >= off + w /\ UnitAt(idx.kind, buf, end - w) = code THEN end - w ELSE end
    IN Of(LAMBDA end : cut(end, CR), cut(raw, LF))

\* line_range, and the ranges that line_ranges walks.
LineRange(idx, buf, i) ==
    IF i \notin 0 .. idx.count - 1 THEN AbsentLine
    ELSE Of(LAMBDA off : [from |-> off, to |-> Of(LAMBDA end : TextEnd(idx, buf, off, end),
                                                   RawEnd(idx, buf, off))],
            LineStart(idx, buf, i))

LineRanges(idx, buf) == {LineRange(idx, buf, i) : i \in 0 .. idx.count - 1}

\* line_of_byte: past the last terminator this is the count of lines.
LineOfByte(idx, buf, byte) ==
    IF idx.cps = {} THEN 0
    ELSE LET b == IF byte < idx.base THEN idx.base ELSE IF byte > idx.len THEN idx.len ELSE byte
             below == {c \in idx.cps : c.off <= b}
             cp == CHOOSE c \in below : \A d \in below : d.line <= c.line
         IN cp.line + Cardinality(Newlines(idx.kind, buf, idx.base, cp.off, b))

\* Mutant: only the appended bytes are scanned.
ExtendedFromEnd(idx, buf) ==
    LET starts == Starts(idx.kind, buf, idx.base, idx.len, Len(buf)) IN
    IF Len(buf) <= idx.len \/ idx.count = 0 THEN idx
    ELSE [idx EXCEPT !.cps = @ \cup {c \in Samples(starts, idx.stride, idx.count - 1) : c.off > idx.len},
                     !.count = @ + Cardinality(starts) - 1, !.len = Len(buf)]

\* extend_tail: again from the start of the last line, which may have grown.
Extended(idx, buf) ==
    LET last == IF idx.count = 0 THEN 0 ELSE idx.count - 1
        from == IF idx.count = 0 THEN idx.base ELSE LineStart(idx, buf, last)
        starts == Starts(idx.kind, buf, idx.base, from, Len(buf))
        again == {[line |-> last + Rank(starts, s), off |-> s] : s \in starts}
    IN IF Len(buf) <= idx.len THEN idx
       ELSE [idx EXCEPT !.cps = {c \in @ : c.line < last} \cup {c \in again : c.line % idx.stride = 0},
                        !.count = last + Cardinality(starts), !.len = Len(buf)]

-----------------------------------------------------------------------------
(* What an index stands for: the table of all lines.                       *)

Table(kind, buf, base) ==
    IF base >= Len(buf) THEN {} ELSE Starts(kind, buf, base, base, Len(buf))

\* An index finds every line and the line of every byte, however it was
\* chunked and extended.
Indexes(idx, buf) ==
    \A table \in {Table(idx.kind, buf, idx.base)} :
    /\ idx.count = Cardinality(table)
    /\ \A s \in table : LineStart(idx, buf, Rank(table, s)) = s
    /\ \A b \in idx.base .. Len(buf) - 1 :
        LineOfByte(idx, buf, b) = Cardinality({s \in table : s <= b}) - 1
=============================================================================
