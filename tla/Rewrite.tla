------------------------------ MODULE Rewrite -------------------------------
(***************************************************************************)
(* Rewriting a file into new ones (core transform and split): replace, case *)
(* conversion, grep to a file, split into parts.  Every rewrite goes line   *)
(* by line over the index, in one stream or by chunks of lines.             *)
(***************************************************************************)
EXTENDS Search

CONSTANTS
    Fills,        \* replacement texts, in the bytes of each encoding
    BatchLines    \* BATCH: lines taken from the index at once

ASSUME BatchAssumption == BatchLines \in Nat \ {0}

Upper(b) == IF b \in 97 .. 122 THEN b - 32 ELSE b
Lower(b) == FoldByte(b)
IsLower(b) == b \in 97 .. 122
IsUpper(b) == b \in 65 .. 90
IsDigit(b) == b \in 48 .. 57
IsAlnum(b) == IsLower(b) \/ IsUpper(b) \/ IsDigit(b)
IsJoint(b) == b \in {45, 95}

\* A line as rewrites see it: its bytes without the terminator, and that.
\* raw_line_ranges_with_terminator.
LineAt(i) ==
    Of(LAMBDA r : [raw |-> Raw(r), term |-> SubSeq(buf, r.to + 1, RawEnd(idx, buf, r.from))],
       LineRange(idx, buf, i))

-----------------------------------------------------------------------------
(* Replace.                                                                *)

\* Text with some of its spans replaced.
Spliced(raw, hits, fill) ==
    LET starts == Of(Ordered, {x.at : x \in hits})
        len(at) == (CHOOSE x \in hits : x.at = at).len
        from[k \in 1 .. Len(starts) + 1] ==
            LET pos == IF k = 1 THEN 0 ELSE starts[k - 1] + len(starts[k - 1]) IN
            IF k > Len(starts) THEN SubSeq(raw, pos + 1, Len(raw))
            ELSE SubSeq(raw, pos + 1, starts[k]) \o fill \o from[k + 1]
    IN from[1]

\* Mutant: every occurrence of the bytes counts.
InsideNever(raw, pos) == FALSE

\* validate_legacy_boundary: the only occurrences that are passed over.
Inside(raw, pos) == enc = "legacy" /\ pos \notin Bounds(raw)

\* write_raw_replaced: after an occurrence inside a character the scan goes
\* on one byte further.
RawReplaced(raw, needle) ==
    LET n == Len(needle)
        found(i) == i + n <= Len(raw) /\ SubSeq(raw, i + 1, i + n) = needle
        from[pos \in 0 .. Len(raw) + n] ==
            IF pos + n > Len(raw) THEN {}
            ELSE IF found(pos) /\ ~Inside(raw, pos) THEN {[at |-> pos, len |-> n]} \cup from[pos + n]
            ELSE from[pos + 1]
    IN from[0]

\* ReplacePlan, write_replaced_line: raw bytes for a literal, decoded text for
\* the other plans.
Replacements(q, raw) ==
    IF MatchPlan(q) = "literal" THEN RawReplaced(raw, NeedleBytes(q)) ELSE DecodedHits(q, raw)
ReplacedLine(q, fill, line) ==
    Of(LAMBDA hits : Spliced(line.raw, hits, fill), Replacements(q, line.raw)) \o line.term

\* A decoded line that does not encode again fails the whole replacement:
\* one with an occurrence, and with a lead byte that leads nothing.
Fails(q, raw) ==
    /\ MatchPlan(q) # "literal" /\ Replacements(q, raw) # {}
    /\ enc = "legacy" /\ <<Lead>> \in Range(CharsOf(Decoded(raw)))

\* write_grep_line.
GreppedLine(q, line) == IF LineHasMatch(q, line.raw) THEN line.raw \o line.term ELSE <<>>

-----------------------------------------------------------------------------
(* Case conversion.                                                        *)

CaseModes == {"upper", "lower", "camel", "pascal", "snake", "kebab", "constant"}

\* Mutant: trail bytes are taken for letters.
PairedNever(raw, i) == FALSE

\* A legacy lead byte and whatever follows it are copied.
Paired(raw, i) == enc = "legacy" /\ raw[i] = Lead /\ i < Len(raw)

\* identifier_run_end: letters and digits, joined by single separators.
RunEnd(raw, start) ==
    LET to[j \in start .. Len(raw) + 1] ==
            CASE j <= Len(raw) /\ IsAlnum(raw[j]) -> to[j + 1]
              [] j < Len(raw) /\ IsJoint(raw[j]) /\ IsAlnum(raw[j + 1]) -> to[j + 1]
              [] OTHER -> j - 1
    IN to[start]

\* push_converted_run: where a new word begins, at a separator or a hump.
Hump(run, k) ==
    \/ ~IsUpper(run[k - 1]) /\ IsUpper(run[k])
    \/ IsUpper(run[k - 1]) /\ IsUpper(run[k]) /\ k < Len(run) /\ IsLower(run[k + 1])
Opens(run, k) == ~IsJoint(run[k]) /\ (k = 1 \/ IsJoint(run[k - 1]) \/ Hump(run, k))
Converted(mode, run) ==
    LET first(k) == Cardinality({j \in 1 .. k : Opens(run, j)}) = 1
        joint == CASE mode = "kebab" -> <<45>> [] mode \in {"snake", "constant"} -> <<95>> [] OTHER -> <<>>
        letter(k) ==
            CASE mode = "constant" -> Upper(run[k])
              [] mode = "pascal" /\ Opens(run, k) -> Upper(run[k])
              [] mode = "camel" /\ Opens(run, k) /\ ~first(k) -> Upper(run[k])
              [] OTHER -> Lower(run[k])
        at(k) ==
            IF IsJoint(run[k]) THEN <<>>
            ELSE (IF Opens(run, k) /\ ~first(k) THEN joint ELSE <<>>) \o <<letter(k)>>
    IN FlattenSeq([k \in DOMAIN run |-> at(k)])

\* case_transform_bytes.
CasedBytes(mode, raw) ==
    LET from[i \in 1 .. Len(raw) + 2] ==
            CASE i > Len(raw) -> <<>>
              [] i <= Len(raw) /\ Paired(raw, i) -> SubSeq(raw, i, i + 1) \o from[i + 2]
              [] i <= Len(raw) /\ ~Paired(raw, i) /\ mode = "upper" -> <<Upper(raw[i])>> \o from[i + 1]
              [] i <= Len(raw) /\ ~Paired(raw, i) /\ mode = "lower" -> <<Lower(raw[i])>> \o from[i + 1]
              [] i <= Len(raw) /\ ~Paired(raw, i) /\ mode \notin {"upper", "lower"} /\ IsAlnum(raw[i]) ->
                    Converted(mode, SubSeq(raw, i, RunEnd(raw, i))) \o from[RunEnd(raw, i) + 1]
              [] OTHER -> <<raw[i]>> \o from[i + 1]
    IN from[1]

\* case_transform: UTF-16 through text; what is not one ASCII unit has no
\* case, and stays what it is.
Narrow(c) == IF c[2] = 0 THEN c[1] ELSE 256 + c[1] + 256 * c[2]
Widen(u) == IF u < 256 THEN <<u, 0>> ELSE <<u % 256, (u \div 256) - 1>>
CasedLine(mode, line) ==
    LET cased(units) == [k \in DOMAIN units |-> Widen(units[k])]
        wide(chars) == FlattenSeq(cased(CasedBytes(mode, [k \in DOMAIN chars |-> Narrow(chars[k])])))
    IN (IF enc = "wide" THEN wide(CharsOf(Decoded(line.raw))) ELSE CasedBytes(mode, line.raw)) \o line.term

-----------------------------------------------------------------------------
(* Files.                                                                  *)

\* Mutant: the batches of a chunk run into the next one.
TakenBatch(start, end) == BatchLines

\* What is taken from the index at once.
Taken(start, end) == IF end - start < BatchLines THEN end - start ELSE BatchLines

\* process_chunk: the lines of a chunk in batches; raw_line_ranges stops at
\* the last line.
ChunkFile(Rewrites(_), chunk) ==
    LET from[s \in 0 .. idx.count + BatchLines] ==
            IF s >= chunk.end \/ s >= idx.count THEN <<>>
            ELSE FlattenSeq([k \in 1 .. Taken(s, chunk.end) |->
                     IF s + k - 1 < idx.count THEN Rewrites(LineAt(s + k - 1)) ELSE <<>>])
                 \o from[s + Taken(s, chunk.end)]
    IN from[chunk.start]

\* stream_to_new_file: all lines in turn.
OneChunk == [start |-> 0, end |-> idx.count]
Streamed(Rewrites(_)) == ChunkFile(Rewrites, OneChunk)

\* stream_chunks_parallel: every chunk to a file of its own, then joined.
Chunks(lines) ==
    [c \in 1 .. (idx.count + lines - 1) \div lines |->
        [start |-> (c - 1) * lines, end |-> IF c * lines < idx.count THEN c * lines ELSE idx.count]]
Chunked(Rewrites(_), lines) ==
    FlattenSeq([c \in DOMAIN Chunks(lines) |-> ChunkFile(Rewrites, Chunks(lines)[c])])

\* split_by_lines: the raw bytes from the start of a line to that of another,
\* and in the last part to the end.
Part(k, lines) ==
    SubSeq(buf, LineStart(idx, buf, (k - 1) * lines) + 1,
           IF k * lines < idx.count THEN LineStart(idx, buf, k * lines) ELSE idx.len)
Parts(lines) == [k \in 1 .. (idx.count + lines - 1) \div lines |-> Part(k, lines)]

-----------------------------------------------------------------------------
(* Properties.                                                             *)

\* What a replacement should write, and a grep to a file: what the search bar
\* finds in the whole file, in its order.
Follows(q) ==
    \E found \in {Hits(q, 0)} :
        /\ (\A r \in LineRanges(idx, buf) : ~Fails(q, Raw(r))) => \A fill \in Fills[enc] :
            Streamed(LAMBDA line : ReplacedLine(q, fill, line)) = Spliced(buf, found, fill)
        /\ Streamed(LAMBDA line : GreppedLine(q, line))
           = FlattenSeq([i \in 1 .. idx.count |->
                Of(LAMBDA r : IF \E x \in found : x.at \in r.from .. r.to - 1
                              THEN SubSeq(buf, r.from + 1, RawEnd(idx, buf, r.from)) ELSE <<>>,
                   LineRange(idx, buf, i - 1))])

Replaceable == {q \in Ours : ~q.word /\ ~Overlaps(q)}

\* Replacing rewrites exactly what searching finds, although it scans lines
\* for bytes where searching scans the file; a literal in UTF-16, where it
\* does not look at the alignment, apart.
RewritesFollowSearch ==
    \A q \in Replaceable : (enc = "wide" => MatchPlan(q) # "literal") => Follows(q)

\* That with no exception.
ReplaceIsSearch == \A q \in Replaceable : Follows(q)

\* However a file is cut, by chunks for parallel writers or into parts, the
\* pieces in order are the whole.
PiecesMakeWhole ==
    \A lines \in 1 .. 3 :
        /\ \A mode \in {"upper", "camel"} :
            Chunked(LAMBDA line : CasedLine(mode, line), lines)
            = Streamed(LAMBDA line : CasedLine(mode, line))
        /\ idx.count > 0 => FlattenSeq(Parts(lines)) = buf

\* A conversion changes the case of letters and the separators inside words,
\* and no character that is not ASCII.
Essence(chars) ==
    SelectSeq([k \in DOMAIN chars |-> FoldChar(chars[k])], LAMBDA c : ~IsJoint(c[1]))
CasesKeepText ==
    \A i \in 0 .. idx.count - 1 : \E line \in {[LineAt(i) EXCEPT !.term = <<>>]} : \A mode \in CaseModes :
        /\ Essence(CharsOf(Decoded(CasedLine(mode, line)))) = Essence(CharsOf(Decoded(line.raw)))
        /\ mode \in {"upper", "lower"} =>
            Len(CasedLine(mode, line)) = Len(line.raw)
=============================================================================
