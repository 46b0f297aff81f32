-------------------------------- MODULE Batch --------------------------------
(***************************************************************************)
(* sort, group and top over a document of any size (core ops): one pass     *)
(* over the records, runs spilled whenever the memory is full, and a merge  *)
(* of the runs; every step of it can fail on I/O.  A line is [odd, cells,   *)
(* num]: whether its quotes are odd, its columns, and a numeric column.     *)
(***************************************************************************)
EXTENDS Integers, Sequences, FiniteSets, SequencesExt, FiniteSetsExt

CONSTANTS
    Inputs,       \* the documents: sequences of lines
    Tasks,        \* [op, csv, cols, numeric, reverse (largest), n]
    Budget,       \* budget_bytes: keys in memory before a spill
    FanIn,        \* MERGE_FAN_IN
    Runaway       \* MAX_RECORD_LINES

NoNumber == -9                          \* what does not parse, or is not finite
Inf == 99                               \* bound: more than any number

ASSUME FanInAssumption == FanIn \in Nat \ {0}
ASSUME RunawayAssumption == Runaway \in Nat \ {0}
ASSUME InputsAssumption ==
    Inputs \subseteq Seq([odd : BOOLEAN, cells : Seq(Seq(0 .. 255)), num : NoNumber .. Inf])
ASSUME TasksAssumption ==
    \A t \in Tasks :
        /\ t.op \in {"sort", "group", "top"} /\ {t.csv, t.numeric, t.reverse} \subseteq BOOLEAN
        /\ t.cols \in Seq(Nat \ {0}) \ {<<>>} /\ (t.op # "sort" => Len(t.cols) = 1)
        /\ t.n \in Nat

VARIABLES
    task, input,  \* what is asked, and of which document
    at, open,     \* lines read, and the lines of a record left open by a quote
    phase,        \* "read", "merge", "done" or "failed"
    work,         \* records so far, keys in memory, runs, runs of this pass
    rows,         \* the result
    disk          \* the files there are

batVars == <<task, input, at, open, phase, work, rows, disk>>

Zero == 0
Escape == 255
File(what, i, j) == <<what, i, j>>
SpillDir == File("dir", 0, 0)
LineTable == File("lines", 0, 0)
Ordering == File("ordering", 0, 0)

-----------------------------------------------------------------------------
(* Keys.                                                                   *)

\* The order of byte strings.
Before(a, b) ==
    \/ IsStrictPrefix(a, b)
    \/ \E k \in DOMAIN a \cap DOMAIN b :
        a[k] < b[k] /\ SubSeq(a, 1, k - 1) = SubSeq(b, 1, k - 1)

\* nth_field, csv_nth_field: the fields of a record are those of its first
\* line, as far as keys go; none past the last.
Field(record, col) == IF col <= Len(record[1].cells) THEN record[1].cells[col] ELSE <<>>

\* comparable_key: text, or a number in a byte order that is its own, with
\* what is not a number first.
KeyOf(record, col) ==
    IF task.numeric THEN <<record[1].num - NoNumber>> ELSE Field(record, col)

\* Mutant: zeros are not escaped.
EscapedNever(bytes) == bytes

\* A tuple of columns: zero is escaped, two zeros end a component.
Escaped(bytes) ==
    FlattenSeq([k \in DOMAIN bytes |-> IF bytes[k] = Zero THEN <<Zero, Escape>> ELSE <<bytes[k]>>])

\* sort_key.
SortKey(record) ==
    IF Len(task.cols) = 1 THEN KeyOf(record, task.cols[1])
    ELSE FlattenSeq([k \in DOMAIN task.cols |-> Escaped(KeyOf(record, task.cols[k])) \o <<Zero, Zero>>])

-----------------------------------------------------------------------------
(* Runs.  An entry is a key and what it carries: the record's number, or    *)
(* the aggregate of its group.                                              *)

Turned == task.op = "sort" /\ task.reverse
KeyBefore(a, b) == IF Turned THEN Before(b, a) ELSE Before(a, b)

\* The order of a run: ties of a sort keep the order of the document.
RunBefore(e, f) == KeyBefore(e.key, f.key) \/ (e.key = f.key /\ task.op = "sort" /\ e.load < f.load)

\* HeapEntry: ties go by the record's number, and by the run for groups.
PopBefore(e, r, f, s) ==
    \/ KeyBefore(e.key, f.key)
    \/ e.key = f.key /\ IF task.op = "sort" THEN e.load < f.load ELSE r < s

\* The reader whose record a merge pops next.
NextReader(readers) ==
    LET ready == {r \in DOMAIN readers : readers[r] # <<>>} IN
    CHOOSE r \in ready : \A s \in ready \ {r} : PopBefore(Head(readers[r]), r, Head(readers[s]), s)

-----------------------------------------------------------------------------
(* What is gathered in memory.                                             *)

\* Entries, each of its own key or number, in an order.
InOrder(s, Under(_, _)) ==
    [k \in DOMAIN s |->
        s[CHOOSE i \in DOMAIN s : Cardinality({j \in DOMAIN s : Under(s[j], s[i])}) = k - 1]]

\* ExactSum and Acc: the sums are exact, so integers stand for them.
NoAcc == [count |-> 0, ncount |-> 0, sum |-> 0, min |-> Inf, max |-> 0 - Inf]
Lesser(a, b) == IF a < b THEN a ELSE b
Greater(a, b) == IF a > b THEN a ELSE b
Combined(a, b) ==
    [count |-> a.count + b.count, ncount |-> a.ncount + b.ncount, sum |-> a.sum + b.sum,
     min |-> Lesser(a.min, b.min), max |-> Greater(a.max, b.max)]
Added1(acc, num) ==
    IF num = NoNumber THEN [acc EXCEPT !.count = @ + 1]
    ELSE Combined(acc, [count |-> 1, ncount |-> 1, sum |-> num, min |-> num, max |-> num])

\* spill_run, spill_group.
Spilled(w) ==
    [w EXCEPT !.memory = <<>>,
              !.runs = Append(@, [file |-> File("run", Len(@), 0), recs |-> InOrder(w.memory, RunBefore)])]
SpilledIfFull(w) == IF Len(w.memory) >= Budget THEN Spilled(w) ELSE w

Sorting(w, record) ==
    SpilledIfFull([w EXCEPT !.memory = Append(@, [key |-> SortKey(record), load |-> w.count])])

\* group: only a key that is new to the map makes it grow.
Grouping(w, record) ==
    LET key == Field(record, task.cols[1])
        here == {k \in DOMAIN w.memory : w.memory[k].key = key}
    IN IF here # {}
       THEN [w EXCEPT !.memory[CHOOSE k \in here : TRUE].load = Added1(@, record[1].num)]
       ELSE SpilledIfFull([w EXCEPT !.memory = Append(@, [key |-> key, load |-> Added1(NoAcc, record[1].num)])])

\* top_n: a heap of n entries, whose worst one goes when a better key comes.
\* The worst of equals is the first one among the largest, and the last one
\* among the smallest.
Choosing(w, record) ==
    LET e == [key |-> KeyOf(record, task.cols[1]), load |-> w.count]
        under(a, b) == Before(a.key, b.key) \/ (a.key = b.key /\ a.load < b.load)
        m == w.memory
        worst == CHOOSE k \in DOMAIN m : \A j \in DOMAIN m \ {k} :
                    IF task.reverse THEN under(m[k], m[j]) ELSE under(m[j], m[k])
        better == IF task.reverse THEN Before(m[worst].key, e.key) ELSE Before(e.key, m[worst].key)
    IN CASE Len(m) < task.n -> [w EXCEPT !.memory = Append(@, e)]
         [] Len(m) >= task.n /\ better -> [w EXCEPT !.memory = Append(RemoveAt(@, worst), e)]
         [] OTHER -> w

Taking(w, record) ==
    LET taken == CASE task.op = "sort" -> Sorting(w, record)
                   [] task.op = "group" -> Grouping(w, record)
                   [] OTHER -> Choosing(w, record)
    IN [taken EXCEPT !.count = @ + 1]

\* What top_n returns: by key, and equals in the order of the document.
Displayed(m) ==
    InOrder(m, LAMBDA e, f : \/ IF task.reverse THEN Before(f.key, e.key) ELSE Before(e.key, f.key)
                             \/ e.key = f.key /\ e.load < f.load)

-----------------------------------------------------------------------------
(* Files.                                                                  *)

InSpillDir == {"run", "pass", "merged"}
FilesOf(runs) == {runs[k].file : k \in DOMAIN runs}

\* Mutant: the runs of a pass stay.
ConsumedNever(files, runs) == files

\* merge_runs: the runs go once they have been merged.
Consumed(files, runs) == files \ FilesOf(runs)

\* remove_dir: only an empty directory goes.
Published(files) ==
    IF \E f \in files : f[1] \in InSpillDir THEN files ELSE files \ {SpillDir}

\* SpillCleanup: what its drop removes.
Cleaned(files) == {f \in files : f # SpillDir /\ f[1] \notin InSpillDir \cup {"lines", "ordering"}}

-----------------------------------------------------------------------------
(* The passes.                                                             *)

NoWork ==
    [count |-> 0, memory |-> <<>>, runs |-> <<>>,
     readers |-> <<>>, out |-> <<>>, from |-> 0, next |-> <<>>, pass |-> 0]

BatInit ==
    /\ task \in Tasks /\ input \in Inputs
    /\ at = 0 /\ open = <<>> /\ rows = <<>>
    /\ work = NoWork
    /\ phase = IF task.op = "top" /\ task.n = 0 THEN "done" ELSE "read"
    /\ disk = CASE task.op = "sort" -> {SpillDir, LineTable}
                [] task.op = "group" -> {SpillDir}
                [] OTHER -> {}

\* try_for_each_csv_record: a line of odd quotes leaves its record open, and
\* another one closes it; a record that runs away is cut.
Read ==
    /\ phase = "read" /\ at < Len(input)
    /\ \E record \in {Append(open, input[at + 1])} :
        LET odd == input[at + 1].odd
            whole == ~task.csv \/ IF open = <<>> THEN ~odd ELSE odd \/ Len(record) >= Runaway
        IN IF whole THEN open' = <<>> /\ work' = Taking(work, record)
           ELSE open' = record /\ UNCHANGED work
    /\ at' = at + 1 /\ disk' = disk \cup FilesOf(work'.runs)
    /\ UNCHANGED <<task, input, phase, rows>>

\* The end of the document: an open record counts, what is in memory is
\* spilled unless nothing ever was (group), and the merge begins.
EndOfInput ==
    /\ phase = "read" /\ at = Len(input)
    /\ \E w \in {IF open = <<>> THEN work ELSE Taking(work, open)} :
        LET spills == w.memory # <<>> /\ (task.op = "sort" \/ (task.op = "group" /\ w.runs # <<>>))
            merges == task.op = "sort" \/ (task.op = "group" /\ w.runs # <<>>)
        IN /\ work' = IF spills THEN Spilled(w) ELSE w
           /\ phase' = IF merges THEN "merge" ELSE "done"
           /\ rows' = CASE merges -> <<>>
                        [] ~merges /\ task.op = "group" -> InOrder(w.memory, RunBefore)
                        [] OTHER -> [k \in DOMAIN w.memory |-> Displayed(w.memory)[k].load]
           /\ disk' = IF merges THEN disk \cup FilesOf(work'.runs) ELSE Published(disk)
    /\ open' = <<>> /\ UNCHANGED <<task, input, at>>

\* merge_runs, merge_groups: which runs are merged at once, and into what.
LastPass == task.op = "group" \/ Len(work.runs) <= FanIn
ChunkOf(w) ==
    IF LastPass THEN w.runs ELSE SubSeq(w.runs, w.from + 1, Lesser(w.from + FanIn, Len(w.runs)))
OutFile ==
    IF LastPass THEN File("merged", 0, 0) ELSE File("pass", work.pass, work.from \div FanIn)

BeginMerge ==
    /\ phase = "merge" /\ work.readers = <<>>
    /\ work' = [work EXCEPT !.readers = [k \in DOMAIN ChunkOf(work) |-> ChunkOf(work)[k].recs], !.out = <<>>]
    /\ ChunkOf(work) # <<>>
    /\ disk' = IF task.op = "group" THEN disk ELSE disk \cup {OutFile}
    /\ UNCHANGED <<task, input, at, open, phase, rows>>

Ready == \E r \in DOMAIN work.readers : work.readers[r] # <<>>

\* merge_pump: one record out, the next one of its run in.
Pump ==
    /\ phase = "merge" /\ task.op = "sort" /\ Ready
    /\ \E r \in {NextReader(work.readers)} :
        work' = [work EXCEPT !.readers[r] = Tail(@), !.out = Append(@, Head(work.readers[r]))]
    /\ UNCHANGED <<task, input, at, open, phase, rows, disk>>

\* merge_groups: the entries of one key, of whatever runs, make one row.
SameKey(readers, key) == {r \in DOMAIN readers : readers[r] # <<>> /\ Head(readers[r]).key = key}
UpTo(readers, key) ==
    LET upTo[r \in 0 .. Len(readers)] ==
            IF r = 0 THEN NoAcc
            ELSE IF r \in SameKey(readers, key) THEN Combined(upTo[r - 1], Head(readers[r]).load)
            ELSE upTo[r - 1]
    IN upTo
Folded(w, key) ==
    [w EXCEPT !.readers = [r \in DOMAIN @ |-> IF r \in SameKey(@, key) THEN Tail(@[r]) ELSE @[r]],
              !.out = Append(@, [key |-> key, load |-> UpTo(w.readers, key)[Len(w.readers)]])]

Fold ==
    /\ phase = "merge" /\ task.op = "group" /\ Ready
    /\ \E key \in {Head(work.readers[NextReader(work.readers)]).key} : work' = Folded(work, key)
    /\ UNCHANGED <<task, input, at, open, phase, rows, disk>>

\* A chunk of runs has become a run of the next pass.
EndChunk ==
    /\ phase = "merge" /\ ~LastPass /\ work.readers # <<>> /\ ~Ready
    /\ \E next \in {Append(work.next, [file |-> OutFile, recs |-> work.out])} :
        IF work.from + FanIn < Len(work.runs)
        THEN /\ work' = [work EXCEPT !.readers = <<>>, !.out = <<>>, !.from = @ + FanIn, !.next = next]
             /\ UNCHANGED disk
        ELSE /\ work' = [work EXCEPT !.runs = next, !.readers = <<>>, !.out = <<>>, !.from = 0,
                                     !.next = <<>>, !.pass = @ + 1]
             /\ disk' = Consumed(disk, work.runs)
    /\ UNCHANGED <<task, input, at, open, phase, rows>>

\* The last pass wrote the ordering, or emitted the groups.
EndMerge ==
    /\ phase = "merge" /\ LastPass /\ ~Ready
    /\ work.runs # <<>> => work.readers # <<>>
    /\ rows' = IF task.op = "sort" THEN [k \in DOMAIN work.out |-> work.out[k].load] ELSE work.out
    /\ disk' = Published(Consumed(disk, work.runs) \ {File("merged", 0, 0)})
               \cup (IF task.op = "sort" THEN {Ordering} ELSE {})
    /\ phase' = "done" /\ work' = [work EXCEPT !.readers = <<>>, !.out = <<>>]
    /\ UNCHANGED <<task, input, at, open>>

\* Any read, write or check of the document fails; the guard is dropped.
Fail ==
    /\ phase \in {"read", "merge"}
    /\ phase' = "failed" /\ disk' = Cleaned(disk)
    /\ UNCHANGED <<task, input, at, open, work, rows>>

BatNext == Read \/ EndOfInput \/ BeginMerge \/ Pump \/ Fold \/ EndChunk \/ EndMerge \/ Fail
BatSpec == BatInit /\ [][BatNext]_batVars

-----------------------------------------------------------------------------
(* Properties.                                                             *)

\* How many lines are open after the first i: the records of the document.
OpenAfter ==
    LET after[i \in 0 .. Len(input)] ==
            IF i = 0 \/ ~task.csv THEN 0
            ELSE CHOOSE n \in 0 .. Runaway : \E was \in {after[i - 1]} :
                n = IF was = 0 THEN (IF input[i].odd THEN 1 ELSE 0)
                    ELSE IF input[i].odd \/ was + 1 >= Runaway THEN 0 ELSE was + 1
    IN after
FirstLines == {i \in 1 .. Len(input) : OpenAfter[i - 1] = 0}

\* A record's number and its line.
Records == {[no |-> Cardinality({j \in FirstLines : j < i}), line |-> <<input[i]>>] : i \in FirstLines}

\* The order asked for: column by column, and by number where all are equal.
Precedes(r, s) ==
    LET keys(x) == [k \in DOMAIN task.cols |-> KeyOf(x.line, task.cols[k])]
        less(a, b) == \E k \in DOMAIN a : a[k] # b[k] /\ Before(a[k], b[k])
                                          /\ \A j \in 1 .. k - 1 : a[j] = b[j]
    IN \/ IF task.reverse THEN less(keys(s), keys(r)) ELSE less(keys(r), keys(s))
       \/ keys(r) = keys(s) /\ r.no < s.no
Place(records, r) == 1 + Cardinality({s \in records : Precedes(s, r)})

SortExact(records) ==
    Len(rows) = Cardinality(records) /\ \A r \in records : rows[Place(records, r)] = r.no

NumberSum(records) == FoldSet(LAMBDA r, n : r.line[1].num + n, 0, records)

GroupExact(records) ==
    LET keyOf(r) == Field(r.line, task.cols[1])
        of(key) == {r \in records : keyOf(r) = key}
        numbers(key) == {r \in of(key) : r.line[1].num # NoNumber}
    IN /\ {rows[k].key : k \in DOMAIN rows} = {keyOf(r) : r \in records}
       /\ \A k \in 2 .. Len(rows) : Before(rows[k - 1].key, rows[k].key)
       /\ \A k \in DOMAIN rows : LET key == rows[k].key acc == rows[k].load IN
            /\ acc.count = Cardinality(of(key)) /\ acc.ncount = Cardinality(numbers(key))
            /\ acc.sum = NumberSum(numbers(key))
            /\ \A r \in numbers(key) : r.line[1].num \in acc.min .. acc.max
            /\ numbers(key) # {} => {acc.min, acc.max} \subseteq {r.line[1].num : r \in numbers(key)}

\* Of equal keys at the end of the largest, the last ones are kept.
TopExact(records) ==
    LET chosen(k) == CHOOSE r \in records : r.no = rows[k]
        wanted(k) == CHOOSE r \in records : Place(records, r) = k
    IN /\ Len(rows) = Lesser(task.n, Cardinality(records))
       /\ IsInjective(rows)
       /\ \A k \in DOMAIN rows :
            IF task.reverse
            THEN KeyOf(chosen(k).line, task.cols[1]) = KeyOf(wanted(k).line, task.cols[1])
            ELSE rows[k] = wanted(k).no

\* The result does not depend on the memory there is, on how often it was
\* spilled nor on the passes of the merge: a stable sort, one exact row per
\* group in the order of keys, the first of the order.
ResultExact ==
    phase = "done" => \E records \in {Records} :
        CASE task.op = "sort" -> SortExact(records)
          [] task.op = "group" -> GroupExact(records)
          [] OTHER -> TopExact(records)

\* However it ends, only the two files of a finished sort stay.
NothingStranded ==
    /\ phase = "failed" => disk = {}
    /\ phase = "done" => disk = IF task.op = "sort" THEN {LineTable, Ordering} ELSE {}
=============================================================================
