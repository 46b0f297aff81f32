------------------------------ MODULE Analysis ------------------------------
(***************************************************************************)
(* Multi-rule analyses (serve/analysis): each pins the view it was asked    *)
(* of, scans it in the background and keeps its result for the readers.     *)
(* Appended data are scanned alone and merged into the result.  The         *)
(* document is edited, saved, followed and replaced meanwhile.              *)
(***************************************************************************)
EXTENDS Naturals, Sequences, FiniteSets, SequencesExt

CONSTANTS
    Analyses,     \* the analyses that may be started
    Clients,      \* requests in flight at a time
    MaxOps,       \* MAX_OPERATIONS
    MaxDoc        \* bound: documents mapped and texts seen

ASSUME AnAssumption == Analyses # {} /\ MaxOps \in Nat \ {0}

VARIABLES
    live,         \* the document of the active tab, its text and edits
    an,           \* AnalysisOperation: phase, source, result, flags
    store,        \* AnalysisStore, oldest first
    scan,         \* the background worker of each analysis
    h             \* the handler of each client

anVars == <<live, an, store, scan, h>>

\* A text is the original it grew from and its length.
Texts == [base : 0 .. MaxDoc, len : 1 .. MaxDoc]
Mixed == [base |-> 0, len |-> 0]        \* parts of two texts, merged
Nothing == [base |-> 0, len |-> 1]
Grew(t, u) == u.base = t.base /\ u.len >= t.len

\* DirtyView: document, edit revision, file identity, and whether clean.
View == [doc |-> live.doc, rev |-> live.rev, file |-> live.file,
         clean |-> ~live.dirty, text |-> live.text]
NoView == [doc |-> 0, rev |-> 0, file |-> 0, clean |-> TRUE, text |-> Nothing]

Active(o) == an[o].phase \in {"scanning", "updating"}
Fresh(v) == [phase |-> "scanning", source |-> v, result |-> Nothing,
             canceled |-> FALSE, stale |-> FALSE]
MarkStale(a) == [a EXCEPT !.phase = "stale", !.stale = TRUE, !.canceled = TRUE]
MarkError(a) == IF a.phase \in {"scanning", "updating"} THEN [a EXCEPT !.phase = "error"] ELSE a
RequestCancel(a) ==
    [a EXCEPT !.canceled = TRUE, !.phase = IF @ \in {"scanning", "updating"} THEN "canceled" ELSE @]

\* Mutant: only the file is compared.
SourceFile(v, append) == IF live.doc # 0 /\ live.file = v.file THEN "current" ELSE "stale"

SameView(v) == live.doc # 0 /\ live.doc = v.doc /\ live.rev = v.rev
GrownView(v) ==
    /\ live.doc # 0
    /\ v.clean /\ ~live.dirty /\ live.rev = v.rev
    /\ live.file = v.file /\ live.text.len >= v.text.len
SourceState(v, append) ==
    IF SameView(v) THEN "current" ELSE IF append /\ GrownView(v) THEN "append" ELSE "stale"
Current(v) == SourceState(v, FALSE) = "current"

At(c, pc) == h[c].pc = pc
Idle == [pc |-> "idle", o |-> CHOOSE o \in Analyses : TRUE, phase |-> "none",
         view |-> NoView, old |-> NoView, got |-> Nothing]
Cleared(x) == [x EXCEPT !.view = NoView, !.old = NoView, !.got = Nothing]
Onward(x, pc) ==
    IF pc = "idle" THEN Idle
    ELSE [(IF pc = "status" THEN Cleared(x) ELSE x) EXCEPT !.pc = pc]
Proceeds(c, pc) == h' = [h EXCEPT ![c] = Onward(h[c], pc)]
Op(c) == h[c].o
Sets(o, a) == an' = [an EXCEPT ![o] = a]
Rest == UNCHANGED <<live, store, scan>>

-----------------------------------------------------------------------------
(* The background scan.                                                     *)

\* Its polls stop it when the source is no longer the live view.
ScanPolls(o) ==
    /\ scan[o] = "scan"
    /\ \/ ~Current(an[o].source) /\ Sets(o, MarkStale(an[o]))
       \/ an[o].canceled /\ UNCHANGED an
    /\ scan' = [scan EXCEPT ![o] = "stopped"]
    /\ UNCHANGED <<live, store, h>>

\* The scan fails, or its thread panics, which is told at once.
ScanFails(o) ==
    /\ scan[o] = "scan"
    /\ \/ scan' = [scan EXCEPT ![o] = "stopped"] /\ UNCHANGED an
       \/ scan' = [scan EXCEPT ![o] = "ended"] /\ Sets(o, MarkError(an[o]))
    /\ UNCHANGED <<live, store, h>>

\* Mutant: an error is not told.
ScanStoppedQuiet(o) ==
    /\ scan[o] = "stopped"
    /\ Sets(o, IF an[o].canceled /\ ~an[o].stale THEN RequestCancel(an[o]) ELSE an[o])
    /\ scan' = [scan EXCEPT ![o] = "ended"]
    /\ UNCHANGED <<live, store, h>>

ScanStopped(o) ==
    /\ scan[o] = "stopped"
    /\ Sets(o, IF an[o].stale THEN an[o]
               ELSE IF an[o].canceled THEN RequestCancel(an[o]) ELSE MarkError(an[o]))
    /\ scan' = [scan EXCEPT ![o] = "ended"]
    /\ UNCHANGED <<live, store, h>>

ScanEnds(o) ==
    /\ scan[o] = "scan"
    /\ scan' = [scan EXCEPT ![o] = "scanned"]
    /\ UNCHANGED <<live, an, store, h>>

\* The strict check of a finished scan, and then its publication.
ScanChecks(o) ==
    /\ scan[o] = "scanned"
    /\ IF Current(an[o].source)
       THEN scan' = [scan EXCEPT ![o] = "finish"] /\ UNCHANGED an
       ELSE scan' = [scan EXCEPT ![o] = "ended"] /\ Sets(o, MarkStale(an[o]))
    /\ UNCHANGED <<live, store, h>>

Finish(o) ==
    /\ scan[o] = "finish"
    /\ Sets(o, IF an[o].phase # "scanning" THEN an[o]
               ELSE [an[o] EXCEPT !.phase = "complete", !.result = an[o].source.text])
    /\ scan' = [scan EXCEPT ![o] = "ended"]
    /\ UNCHANGED <<live, store, h>>

ScanSteps(o) ==
    \/ ScanPolls(o) \/ ScanFails(o) \/ ScanStopped(o)
    \/ ScanEnds(o) \/ ScanChecks(o) \/ Finish(o)

-----------------------------------------------------------------------------
(* Start, status and cancel.                                                *)

Start(c) ==
    /\ At(c, "idle") /\ live.doc # 0
    /\ h' = [h EXCEPT ![c] = [@ EXCEPT !.pc = "start", !.view = View]]
    /\ UNCHANGED an /\ Rest

\* AnalysisStore::insert cancels what it evicts.
Insert(c) ==
    /\ At(c, "start")
    /\ \E o \in Analyses :
        /\ an[o].phase = "none"
        /\ LET full == Len(store) >= MaxOps
               rest == IF full THEN Tail(store) ELSE store
           IN /\ store' = Append(rest, o)
              /\ an' = [p \in Analyses |->
                    IF p = o THEN Fresh(h[c].view)
                    ELSE IF full /\ p = Head(store) THEN RequestCancel(an[p]) ELSE an[p]]
        /\ scan' = [scan EXCEPT ![o] = "scan"]
        /\ h' = [h EXCEPT ![c] = [Idle EXCEPT !.pc = "status", !.o = o]]
    /\ UNCHANGED live

Status(c, o) ==
    /\ At(c, "idle")
    /\ h' = [h EXCEPT ![c].pc = "status", ![c].o = o]
    /\ UNCHANGED an /\ Rest

CancelScan(c, o) ==
    /\ At(c, "idle")
    /\ Sets(o, RequestCancel(an[o]))
    /\ h' = [h EXCEPT ![c].pc = "status", ![c].o = o]
    /\ Rest

\* operation_status reads source and phase first, and judges them later.
StatusReads(c) ==
    /\ At(c, "status")
    /\ h' = [h EXCEPT ![c] = [@ EXCEPT !.pc = "mark", !.old = an[Op(c)].source,
                                       !.phase = an[Op(c)].phase]]
    /\ UNCHANGED an /\ Rest

StatusMarks(c) ==
    /\ At(c, "mark")
    /\ Proceeds(c, "idle")
    /\ Sets(Op(c), IF /\ SourceState(h[c].old, h[c].phase = "complete") = "stale"
                      /\ h[c].phase \in {"scanning", "updating", "complete"}
                   THEN MarkStale(an[Op(c)]) ELSE an[Op(c)])
    /\ Rest

-----------------------------------------------------------------------------
(* Navigation and hits.                                                     *)

Reads(c, o) ==
    /\ At(c, "idle") /\ an[o].phase = "complete"
    /\ h' = [h EXCEPT ![c] = [@ EXCEPT !.pc = "check", !.o = o,
                                       !.old = an[o].source, !.got = an[o].result]]
    /\ UNCHANGED an /\ Rest

\* ensure_result_source_current, before the blocking work and after it.
EnsureCurrent(c, next) ==
    LET s == SourceState(h[c].old, TRUE) IN
    /\ Proceeds(c, IF s = "current" THEN next ELSE "idle")
    /\ Sets(Op(c), IF s = "stale" THEN MarkStale(an[Op(c)]) ELSE an[Op(c)])
    /\ Rest

ReadChecks(c) == At(c, "check") /\ EnsureCurrent(c, "reading")
ReadRechecks(c) == At(c, "reading") /\ EnsureCurrent(c, "answered")
Answered(c) == At(c, "answered") /\ Proceeds(c, "idle") /\ UNCHANGED an /\ Rest

-----------------------------------------------------------------------------
(* The tail update.                                                         *)

TailPins(c, o) ==
    /\ At(c, "idle") /\ live.doc # 0
    /\ h' = [h EXCEPT ![c] = [@ EXCEPT !.pc = "tail", !.o = o, !.view = View]]
    /\ UNCHANGED an /\ Rest

TailReads(c) ==
    /\ At(c, "tail")
    /\ IF an[Op(c)].phase = "complete"
       THEN h' = [h EXCEPT ![c] = [@ EXCEPT !.pc = "judge", !.old = an[Op(c)].source,
                                            !.got = an[Op(c)].result]]
       ELSE Proceeds(c, "idle")
    /\ UNCHANGED an /\ Rest

\* Clean on both sides, the same file, and longer than the result.
Appended(old, got, new) ==
    /\ old.clean /\ new.clean
    /\ new.file = old.file
    /\ new.text.len > got.len

TailJudges(c) ==
    /\ At(c, "judge")
    /\ LET old == h[c].old  new == h[c].view
           same == old.clean /\ new.clean /\ old.doc = new.doc
           grew == Appended(old, h[c].got, new)
       IN /\ Proceeds(c, IF same THEN "status" ELSE IF grew THEN "uncancel" ELSE "idle")
          /\ Sets(Op(c), IF same \/ grew THEN an[Op(c)] ELSE MarkStale(an[Op(c)]))
    /\ Rest

TailUncancels(c) ==
    /\ At(c, "uncancel")
    /\ Proceeds(c, "take")
    /\ Sets(Op(c), [an[Op(c)] EXCEPT !.canceled = FALSE])
    /\ Rest

\* One update at a time takes the result out.
TailTakes(c) ==
    /\ At(c, "take")
    /\ IF /\ an[Op(c)].phase = "complete"
          /\ an[Op(c)].source.doc = h[c].old.doc /\ an[Op(c)].source.rev = h[c].old.rev
       THEN /\ h' = [h EXCEPT ![c].pc = "scan", ![c].got = an[Op(c)].result]
            /\ Sets(Op(c), [an[Op(c)] EXCEPT !.phase = "updating", !.result = Nothing])
       ELSE Proceeds(c, "idle") /\ UNCHANGED an
    /\ Rest

\* The scan ends; or a cancel or a newer view stops it, or it fails.
TailScans(c) ==
    /\ At(c, "scan")
    /\ Proceeds(c, "stopped") \/ Proceeds(c, "scanned")
    /\ UNCHANGED an /\ Rest

\* Its thread panics: the handler returns, and leaves the phase as it was and
\* the result taken.
TailPanics(c) ==
    /\ At(c, "scan")
    /\ Proceeds(c, "panicked")
    /\ UNCHANGED an /\ Rest

TailStopped(c) ==
    /\ At(c, "stopped")
    /\ Proceeds(c, "status")
    /\ Sets(Op(c), IF an[Op(c)].canceled THEN RequestCancel(an[Op(c)])
                   ELSE IF ~Current(h[c].view) THEN MarkStale(an[Op(c)])
                   ELSE MarkError(an[Op(c)]))
    /\ Rest

TailChecks(c) ==
    /\ At(c, "scanned")
    /\ IF Current(h[c].view) THEN Proceeds(c, "merge") /\ UNCHANGED an
       ELSE Proceeds(c, "status") /\ Sets(Op(c), MarkStale(an[Op(c)]))
    /\ Rest

\* The result of the tail counts from the old last line on.
MergedText(got, v) == IF Grew(got, v.text) THEN v.text ELSE Mixed

TailMerges(c) ==
    /\ At(c, "merge")
    /\ Proceeds(c, "status")
    /\ Sets(Op(c), IF an[Op(c)].phase # "updating" THEN an[Op(c)]
                   ELSE [an[Op(c)] EXCEPT !.phase = "complete", !.source = h[c].view,
                                          !.result = MergedText(h[c].got, h[c].view)])
    /\ Rest

TailSteps(c) ==
    \/ TailScans(c) \/ TailPanics(c) \/ TailStopped(c) \/ TailChecks(c) \/ TailMerges(c)

\* The client hangs up: the handler is dropped where it awaits, and nobody
\* ends the update it had begun.
Disconnect(c) ==
    /\ \/ h[c].pc \in {"start", "tail", "reading"} /\ Proceeds(c, "idle")
       \/ At(c, "scan") /\ Proceeds(c, "gone")
    /\ UNCHANGED an /\ Rest

-----------------------------------------------------------------------------
(* The document.                                                            *)

Becomes(l) ==
    /\ live' = l
    /\ l.doc <= MaxDoc /\ l.text \in Texts
    /\ UNCHANGED <<an, store, scan, h>>

NextBase == live.text.base + 1
Typed ==
    /\ live.doc # 0 /\ live.rev = 0
    /\ Becomes([live EXCEPT !.rev = 1, !.dirty = TRUE,
                          !.text = [live.text EXCEPT !.base = NextBase]])
\* A save or reload maps another file; follow_tail maps the same one again,
\* longer, which another program may also have written anew in place.
Replaced ==
    /\ live.doc # 0
    /\ \E n \in {1, 2} :
        Becomes([doc |-> live.doc + 1, rev |-> 0, file |-> live.file + 1, dirty |-> FALSE,
                 text |-> [base |-> NextBase, len |-> n]])
Followed ==
    /\ live.doc # 0 /\ ~live.dirty
    /\ \E b \in {live.text.base, NextBase} :
        Becomes([live EXCEPT !.doc = live.doc + 1, !.rev = 0,
                              !.text = [base |-> b, len |-> live.text.len + 1]])
Closed ==
    /\ live.doc = MaxDoc
    /\ Becomes([live EXCEPT !.doc = 0])

AnInit ==
    /\ live = [doc |-> 1, rev |-> 0, file |-> 1, dirty |-> FALSE,
               text |-> [base |-> 1, len |-> 1]]
    /\ an = [o \in Analyses |-> [Fresh(NoView) EXCEPT !.phase = "none"]]
    /\ store = <<>>
    /\ scan = [o \in Analyses |-> "none"]
    /\ h = [c \in Clients |-> Idle]

AnNext ==
    \/ \E o \in Analyses : ScanSteps(o)
    \/ \E c \in Clients :
        \/ Start(c) \/ Insert(c) \/ StatusReads(c) \/ StatusMarks(c)
        \/ ReadChecks(c) \/ ReadRechecks(c) \/ Answered(c)
        \/ TailReads(c) \/ TailJudges(c) \/ TailUncancels(c) \/ TailTakes(c)
        \/ TailSteps(c) \/ Disconnect(c)
        \/ \E o \in ToSet(store) :
            Status(c, o) \/ CancelScan(c, o) \/ Reads(c, o) \/ TailPins(c, o)
    \/ Typed \/ Replaced \/ Followed \/ Closed

AnSpec ==
    /\ AnInit /\ [][AnNext]_anVars
    /\ \A o \in Analyses : WF_anVars(ScanSteps(o))
    /\ \A c \in Clients : WF_anVars(TailSteps(c))

-----------------------------------------------------------------------------
(* Properties.                                                              *)

Sizes == [base : Nat, len : Nat]
Documents == [doc : Nat, rev : {0, 1}, file : Nat, dirty : BOOLEAN, text : Sizes]
Views == [doc : Nat, rev : {0, 1}, file : Nat, clean : BOOLEAN, text : Sizes]
Phases == {"none", "scanning", "updating", "complete", "stale", "canceled", "error"}
Entries == [phase : Phases, source : Views, result : Sizes, canceled : BOOLEAN,
            stale : BOOLEAN]
Stages == {"idle", "start", "status", "mark", "check", "reading", "answered", "tail", "judge",
           "uncancel", "take", "scan", "stopped", "scanned", "merge", "gone", "panicked"}
Requests == [pc : Stages, o : Analyses, phase : Phases, view : Views, old : Views, got : Sizes]

AnTypeOK ==
    /\ live \in Documents
    /\ an \in [Analyses -> Entries]
    /\ store \in Seq(Analyses)
    /\ scan \in [Analyses -> {"none", "scan", "stopped", "scanned", "finish", "ended"}]
    /\ h \in [Clients -> Requests]

\* What a reader is answered is the analysis of the text that was live when
\* the answer was checked, or of a file rewritten in place while followed,
\* whose scanned part the merge cannot tell from an append.
ServedIsLive == [][
    \A c \in Clients : At(c, "reading") /\ h'[c].pc = "answered" =>
        h[c].got = live.text \/ h[c].got = Mixed
    ]_anVars

\* Every analysis comes to an end that a poll will show, and so does every
\* tail update, failed ones too, unless its client hung up or its scan
\* panicked: then nobody ends the update, whose result is taken.
AnalysesEnd ==
    \A o \in Analyses :
        /\ an[o].phase = "scanning" ~> an[o].phase # "scanning"
        /\ an[o].phase = "updating" ~>
            \/ an[o].phase # "updating"
            \/ \E c \in Clients : h[c].pc \in {"gone", "panicked"} /\ Op(c) = o

\* A tail update is found stale only when the document it follows is gone.
UpdateGoesOn == [][
    \A c \in Clients : \A o \in Analyses :
        /\ h[c].pc = "scan" /\ Op(c) = o
        /\ an[o].phase = "updating" /\ an'[o].phase = "stale"
        => ~Current(h[c].view)
    ]_anVars
=============================================================================
