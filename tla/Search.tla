------------------------------- MODULE Search -------------------------------
(***************************************************************************)
(* Search, grep and log analysis over a mapped file (core search), as the   *)
(* file grows under a tail: the index is extended and a finished analysis   *)
(* is merged with that of the new tail (serve/analysis).                    *)
(***************************************************************************)
EXTENDS Index, Functions

CONSTANTS
    Growths,      \* what is appended at once: byte strings of each encoding
    Queries,      \* [enc, needle (characters), fold, word]
    Stride, Chunk,\* checkpoint stride, and the chunk of a parallel build
    PrevChunk,    \* FIND_PREV_CHUNK
    Bins,         \* ANALYSIS_HISTOGRAM_BINS
    MaxHits,      \* max_hits_per_rule
    MaxBytes      \* bound: bytes of the file, for each encoding

ASSUME StridesAssumption == {Stride, Chunk, PrevChunk} \subseteq Nat \ {0}
ASSUME BinsAssumption == Bins \in Nat \ {0} /\ MaxHits \in Nat
ASSUME QueriesAssumption ==
    \A q \in Queries :
        /\ q.needle \in Seq(Seq(0 .. 255) \ {<<>>}) \ {<<>>}
        /\ q.enc = "wide" => Len(FlattenSeq(q.needle)) % 2 = 0
ASSUME GrowthsAssumption ==
    \A e \in {"bytes", "legacy", "wide"} : Growths[e] \subseteq Seq(0 .. 255)

VARIABLES
    enc,          \* "bytes", "legacy" (lead and trail bytes) or "wide" (UTF-16LE)
    buf,          \* the file
    idx,          \* its index, built once and extended
    done          \* the finished analysis of each query, merged at each growth

searchVars == <<enc, buf, idx, done>>

Lead == 130
IsWord(b) == b \in 48 .. 57 \cup 65 .. 90 \cup 95 .. 95 \cup 97 .. 122
ByteAt(off) == IF off \in 0 .. Len(buf) - 1 THEN buf[off + 1] ELSE 0

\* Case folding of bytes and of characters; characters of more bytes have none.
FoldByte(b) == IF b \in 65 .. 90 THEN b + 32 ELSE b
Folded(q, s) == IF q.fold THEN [i \in DOMAIN s |-> FoldByte(s[i])] ELSE s
FoldChar(c) ==
    IF Len(c) = 1 \/ (Len(c) = 2 /\ c[2] = 0) THEN [c EXCEPT ![1] = FoldByte(@)] ELSE c
FoldedChars(q, s) == IF q.fold THEN [i \in DOMAIN s |-> FoldChar(s[i])] ELSE s
Raw(range) == SubSeq(buf, range.from + 1, range.to)
KindOf(e) == IF e = "wide" THEN "wide" ELSE "lf"

\* MatchPlan::build: a byte scan for a literal, a byte regex, or decoded lines.
MatchPlan(q) ==
    CASE ~q.fold -> "literal"
      [] q.fold /\ q.enc = "bytes" -> "regex"
      [] OTHER -> "decode"

-----------------------------------------------------------------------------
(* Occurrences.                                                            *)

\* find_iter: from the left; what was found is consumed.
ScanLeft(hay, needle) ==
    LET n == Len(needle)
        at(i) == i + n <= Len(hay) /\ SubSeq(hay, i + 1, i + n) = needle
        from[i \in 0 .. Len(hay) + n] ==
            IF i + n > Len(hay) THEN {} ELSE IF at(i) THEN {i} \cup from[i + n] ELSE from[i + 1]
    IN from[0]
FindIter(hay, needle) == Of(LAMBDA h : Of(LAMBDA n : ScanLeft(h, n), needle), hay)

\* rfind_iter: from the right.
ScanRight(hay, needle) ==
    LET n == Len(needle)
        to[e \in (0 - n) .. Len(hay)] ==
            IF e < n THEN {}
            ELSE IF SubSeq(hay, e - n + 1, e) = needle THEN {e - n} \cup to[e - n] ELSE to[e - 1]
    IN to[Len(hay)]
RFindIter(hay, needle) == Of(LAMBDA h : Of(LAMBDA n : ScanRight(h, n), needle), hay)

\* legacy_step, and the units of the other encodings.
StepOf(raw, i) ==
    CASE enc = "legacy" /\ raw[i + 1] = Lead /\ i + 2 <= Len(raw) /\ raw[i + 2] \in 64 .. 252 -> 2
      [] enc = "wide" /\ i + 2 <= Len(raw) -> 2
      [] OTHER -> 1

\* The character boundaries of a line, walked from its start.
Bounds(raw) ==
    LET from[i \in 0 .. Len(raw) + 1] ==
            IF i >= Len(raw) THEN {Len(raw)} ELSE {i} \cup from[i + StepOf(raw, i)]
    IN from[0]

\* decode_line: the characters of a line, each with its span.
Decoded(raw) ==
    Of(LAMBDA bs : [k \in 1 .. Len(bs) - 1 |-> [at |-> bs[k], bytes |-> SubSeq(raw, bs[k] + 1, bs[k + 1])]],
       Of(Ordered, Bounds(raw)))

CharsOf(line) == [k \in DOMAIN line |-> line[k].bytes]
WordChar(c) == IsWord(c[1]) /\ (Len(c) = 1 \/ (enc = "wide" /\ c[2] = 0))

\* is_whole_word_match(_encoded): by the neighboring bytes, and in a legacy
\* line by the first bytes of the neighboring characters.
WholeBytes(raw, at, n) ==
    LET before == IF enc = "legacy"
                  THEN Of(LAMBDA bs : CHOOSE b \in bs : b < at /\ \A c \in bs : c < at => c <= b, Bounds(raw))
                  ELSE at - 1
    IN /\ at > 0 => ~IsWord(raw[before + 1])
       /\ at + n < Len(raw) => ~IsWord(raw[at + n + 1])

\* is_whole_word_text.
WholeText(line, k, n) ==
    /\ k > 1 => ~WordChar(line[k - 1].bytes)
    /\ k + n <= Len(line) => ~WordChar(line[k + n].bytes)

\* utf16_hit_aligned, is_legacy_char_boundary and the whole word: whether a
\* raw hit in a line counts.
Accepts(q, raw, at, n) ==
    /\ enc = "wide" => at % 2 = 0
    /\ enc = "legacy" => at \in Bounds(raw)
    /\ q.word => WholeBytes(raw, at, n)

NeedleBytes(q) == FlattenSeq(q.needle)

\* The hits of one line: for_each_line_match, scan_decoded_lines.
HitsIn(q, line, len) ==
    LET n == Len(q.needle)
        found == FindIter(FoldedChars(q, CharsOf(line)), FoldedChars(q, q.needle))
        span(k) == IF k + n + 1 > Len(line) THEN len ELSE line[k + n + 1].at
    IN {[at |-> line[k + 1].at, len |-> span(k) - line[k + 1].at] :
            k \in {i \in found : q.word => WholeText(line, i + 1, n)}}
DecodedHits(q, raw) == Of(LAMBDA line : HitsIn(q, line, Len(raw)), Decoded(raw))

LineHits(q, line) ==
    LET n == Len(NeedleBytes(q))
        scan(raw) ==
            IF MatchPlan(q) = "decode" THEN DecodedHits(q, raw)
            ELSE {[at |-> p, len |-> n] :
                    p \in {i \in FindIter(Folded(q, raw), Folded(q, NeedleBytes(q))) : Accepts(q, raw, i, n)}}
    IN Of(scan, line)

LineOf(at) == LineRange(idx, buf, LineOfByte(idx, buf, at))
InLine(q, at, n) ==
    \E r \in {LineOf(at)} : \E raw \in {Raw(r)} : Accepts(q, raw, at - r.from, n)
Shift(hits, off) == {[x EXCEPT !.at = @ + off] : x \in hits}

\* search: the hits from a byte on.
Hits(q, start) ==
    IF MatchPlan(q) = "decode"
    THEN {x \in UNION {Shift(DecodedHits(q, Raw(r)), r.from) : r \in LineRanges(idx, buf)} : x.at >= start}
    ELSE LET n == Len(NeedleBytes(q))
             hay == SubSeq(buf, start + 1, Len(buf))
         IN {[at |-> start + p, len |-> n] :
                p \in {i \in FindIter(Folded(q, hay), Folded(q, NeedleBytes(q))) : InLine(q, start + i, n)}}

\* The first hits, up to a limit, and whether there were more.
FirstHits(hits, max) ==
    Of(LAMBDA all : {x \in all : Cardinality({y \in all : y.at < x.at}) < max}, hits)
Found(q, start, max) ==
    Of(LAMBDA all : [hits |-> FirstHits(all, max), truncated |-> Cardinality(all) > max], Hits(q, start))

None == [at |-> -1, len |-> 0]
FirstOf(hits) ==
    Of(LAMBDA all : IF all = {} THEN None ELSE CHOOSE x \in all : \A y \in all : x.at <= y.at, hits)
LastOf(hits) ==
    Of(LAMBDA all : IF all = {} THEN None ELSE CHOOSE x \in all : \A y \in all : y.at <= x.at, hits)

\* find_next.
FindNext(q, byte) == FirstOf(Found(q, byte, 1).hits)

\* Mutant: the chunks do not overlap.
ScanEndBare(cursor, n, before) == cursor

\* find_prev looks past a chunk by a needle less one byte.
ScanEnd(cursor, n, before) == IF cursor + n - 1 > before THEN before ELSE cursor + n - 1

\* find_prev: a literal by chunks from the right, a regex over the whole
\* prefix, decoded lines from the last.
PrevLiteral(q, before) ==
    LET needle == NeedleBytes(q)
        n == Len(needle)
        at[c \in 0 .. Len(buf)] ==
            LET from == IF c > PrevChunk THEN c - PrevChunk ELSE 0
                found == {from + p : p \in RFindIter(SubSeq(buf, from + 1, ScanEnd(c, n, before)), needle)}
                good == {[at |-> p, len |-> n] : p \in {i \in found : i < c /\ InLine(q, i, n)}}
            IN IF c = 0 THEN None
               ELSE Of(LAMBDA hits : IF hits # {} THEN LastOf(hits) ELSE at[from], good)
    IN at[before]

FindPrev(q, before) ==
    CASE MatchPlan(q) = "literal" -> PrevLiteral(q, before)
      [] MatchPlan(q) = "regex" ->
            LET n == Len(NeedleBytes(q))
                found == FindIter(Folded(q, SubSeq(buf, 1, before)), Folded(q, NeedleBytes(q)))
            IN LastOf({[at |-> p, len |-> n] : p \in {i \in found : q.word => WholeBytes(buf, i, n)}})
      [] OTHER -> LastOf({x \in Hits(q, 0) : x.at + x.len <= before})

\* line_has_match: what grep and the grep-to-file transform keep.
LineHasMatch(q, raw) == LineHits(q, raw) # {}

-----------------------------------------------------------------------------
(* Analysis.                                                               *)

NoHits == [b \in 0 .. Bins - 1 |-> 0]
BinOf(byte, width) == IF byte \div width > Bins - 1 THEN Bins - 1 ELSE byte \div width
Histogram(hits, width) ==
    [b \in 0 .. Bins - 1 |-> Cardinality({x \in hits : BinOf(x.at, width) = b})]

\* expanded_histogram_width; from a width of 1 it is analysis_histogram_bin_width.
Expanded(width, bytes) ==
    LET from[w \in Nat \ {0}] == IF bytes <= w * Bins THEN w ELSE from[2 * w]
    IN from[width]

\* analyze_rules, for one rule, from a line on.
Analyzed(q, first, width) ==
    LET hitsOf(i) == Of(LAMBDA r : Shift(LineHits(q, Raw(r)), r.from), LineRange(idx, buf, i))
        summary(all, tail) ==
       [count |-> Cardinality(all), hits |-> FirstHits(all, MaxHits), bins |-> Histogram(all, width),
        lastCount |-> Cardinality(tail), lastBins |-> Histogram(tail, width),
        lastLine |-> IF idx.count = 0 THEN 0 ELSE idx.count - 1,
        lastStart |-> IF idx.count = 0 THEN idx.base ELSE LineStart(idx, buf, idx.count - 1),
        width |-> width]
    IN Of(LAMBDA all : Of(LAMBDA tail : summary(all, tail), 
                          IF first < idx.count THEN hitsOf(idx.count - 1) ELSE {}),
          UNION {hitsOf(i) : i \in first .. idx.count - 1})

Whole(q) == Analyzed(q, 0, Expanded(1, Len(buf)))

\* rebin_histogram.
Rebinned(bins, ratio) ==
    [b \in 0 .. Bins - 1 |-> FoldFunctionOnSet(+, 0, bins, {c \in 0 .. Bins - 1 : BinOf(c, ratio) = b})]

\* Mutant: the last line is counted with the old part and with the new one.
MergedTwice(old, tail) ==
    [tail EXCEPT !.count = old.count + @,
                 !.bins = [b \in DOMAIN @ |-> Rebinned(old.bins, tail.width \div old.width)[b] + @[b]],
                 !.hits = old.hits \cup FirstHits(@, MaxHits - Cardinality(old.hits))]

\* merge_tail_result: the old last line is taken out, it is in the tail.
Merged(old, tail) ==
    LET ratio == tail.width \div old.width
        was == Rebinned(old.bins, ratio)
        last == Rebinned(old.lastBins, ratio)
        kept == {x \in old.hits : x.at < old.lastStart}
    IN [tail EXCEPT !.count = old.count - old.lastCount + @,
                    !.bins = [b \in DOMAIN @ |-> was[b] - last[b] + @[b]],
                    !.hits = kept \cup FirstHits(@, MaxHits - Cardinality(kept))]

-----------------------------------------------------------------------------
(* The file grows.                                                         *)

Ours == {q \in Queries : q.enc = enc}

SearchInit ==
    /\ enc \in {"bytes", "legacy", "wide"}
    /\ buf = <<>> \/ buf \in Growths[enc]
    /\ idx = Build(KindOf(enc), buf, 0, Stride, Chunk)
    /\ done = [q \in Ours |-> Whole(q)]

\* follow_tail extends the index; a tail refresh analyses from the old last
\* line on, with bins wide enough for the new length.
Grow ==
    \E bytes \in Growths[enc], old \in {done} :
        /\ Len(buf) + Len(bytes) <= MaxBytes[enc]
        /\ buf' = buf \o bytes /\ UNCHANGED enc
        /\ idx' = Extended(idx, buf')
        /\ done' = [q \in Ours |->
              Merged(old[q], Analyzed(q, old[q].lastLine, Expanded(old[q].width, Len(buf)))')]

SearchNext == Grow
SearchSpec == SearchInit /\ [][SearchNext]_searchVars

-----------------------------------------------------------------------------
(* Properties.                                                             *)

\* The extended index is that of the whole file.
IndexFollows == Indexes(idx, buf)

\* An analysis carried along by merging is the analysis of the whole file.
MergesExact == \A q \in Ours : done[q] = Whole(q)

\* Overlaps(q): the needle may overlap a copy of itself.
Overlaps(q) ==
    LET n == NeedleBytes(q) IN
    \E k \in 1 .. Len(n) - 1 : Folded(q, SubSeq(n, k + 1, Len(n))) = Folded(q, SubSeq(n, 1, Len(n) - k))

\* Breaks(q): the needle has a line feed or a carriage return.
Breaks(q) ==
    \E n \in {NeedleBytes(q)} : \E k \in 0 .. Len(n) - Width(KindOf(enc)) :
        (enc = "wide" => k % 2 = 0) /\ UnitAt(KindOf(enc), n, k) \in {LF, CR}

\* All ways to look for a needle see the same hits: forward from any byte,
\* backward from any byte, line by line in grep and in analysis.  A needle
\* that overlaps itself is found from the left or from the right, one with a
\* line break is in no line, and half a unit at the end of UTF-16 is cut off
\* with a break that may not be one; none of these is claimed.
Comparable == {q \in Ours : ~Overlaps(q) /\ ~Breaks(q)}
Torn == enc = "wide" /\ Len(buf) % 2 = 1
SearchesAgree ==
    ~Torn => \A q \in Comparable : \E all \in {Hits(q, 0)} :
        /\ \A b \in 0 .. Len(buf) :
            /\ FindNext(q, b) = FirstOf({x \in all : x.at >= b})
            /\ FindPrev(q, b) = LastOf({x \in all : x.at + x.len <= b})
        /\ \A i \in 0 .. idx.count - 1 :
            LET r == LineRange(idx, buf, i) IN
            LineHasMatch(q, Raw(r)) <=> \E x \in all : x.at \in r.from .. r.to - 1
        /\ done[q].count = Cardinality(all) /\ done[q].hits = FirstHits(all, MaxHits)
=============================================================================
