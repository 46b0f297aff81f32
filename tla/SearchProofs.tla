---------------------------- MODULE SearchProofs ----------------------------
(***************************************************************************)
(* Proofs about how a file is read and what becomes of what was read:       *)
(* Analysis, for any number of analyses and clients, a store of any size    *)
(* and a document that is replaced any number of times; the index that      *)
(* requests read a file by, Index as Search has it grow; the searches; and  *)
(* the files that Rewrite writes in pieces.                                 *)
(*                                                                         *)
(* The inductive invariant of Analysis: a pinned view that still is the     *)
(* live one by its document and revision has the live text, since neither   *)
(* ever comes back; a complete result is the analysis of its source, or a   *)
(* merge of parts.  That of Search: each checkpoint of the index bears the  *)
(* rank of its line among all lines.                                        *)
(* A merged analysis is put together from the hits of the lines before the  *)
(* old last one, which stay, and those of the tail, which come.             *)
(* All searches agree because a needle that does not overlap itself occurs  *)
(* apart from itself: any scan, from either side and of any part of the     *)
(* file, finds it wherever it is; and without a line break it lies in the   *)
(* text of one line, where the same rules accept it.                        *)
(***************************************************************************)
EXTENDS Analysis, Rewrite, TLAPS, FiniteSetTheorems, SequenceTheorems, WellFoundedInduction

-----------------------------------------------------------------------------
(* Analysis.                                                               *)


\* A view that was pinned once.
Seen(v) ==
    live.doc = 0 \/ /\ v.doc <= live.doc
                    /\ v.doc = live.doc => v.rev <= live.rev
                    /\ v.doc = live.doc /\ v.rev = live.rev => v.text = live.text

Ready(a) == a.phase = "complete" => a.result \in {a.source.text, Mixed}

Sure(a) == a \in Entries /\ Seen(a.source) /\ Ready(a)

\* What a reader carries is what it read with the view it will be judged by.
Carried(x) == x.pc \in {"check", "reading"} => x.got \in {x.old.text, Mixed}

Fair(x) == x \in Requests /\ Seen(x.view) /\ Seen(x.old) /\ Carried(x)

AnIInv ==
    /\ AnTypeOK
    /\ \A o \in Analyses : Sure(an[o])
    /\ \A c \in Clients : Fair(h[c])

-----------------------------------------------------------------------------
(* What the operations on one analysis and on one handler keep.            *)

LEMMA NothingSeen == AnTypeOK => NoView \in Views /\ Seen(NoView)
BY DEF AnTypeOK, Documents, NoView, Nothing, Views, Sizes, Seen

LEMMA ViewSeen == AnTypeOK => View \in Views /\ Seen(View)
BY DEF AnTypeOK, Documents, View, Views, Sizes, Seen

LEMMA MarkStaleSure == ASSUME NEW a, Sure(a) PROVE Sure(MarkStale(a))
BY DEF Sure, MarkStale, Entries, Ready, Phases

LEMMA MarkErrorSure == ASSUME NEW a, Sure(a) PROVE Sure(MarkError(a))
BY DEF Sure, MarkError, Entries, Ready, Phases

LEMMA RequestCancelSure == ASSUME NEW a, Sure(a) PROVE Sure(RequestCancel(a))
<1>1. a \in Entries
  BY DEF Sure
<1>2. CASE a.phase \in {"scanning", "updating"}
  <2>1. RequestCancel(a) = [a EXCEPT !.canceled = TRUE, !.phase = "canceled"]
    BY <1>1, <1>2 DEF RequestCancel, Entries
  <2> QED
    BY <1>1, <2>1 DEF Sure, Entries, Ready, Phases
<1>3. CASE a.phase \notin {"scanning", "updating"}
  <2>1. RequestCancel(a) = [a EXCEPT !.canceled = TRUE]
    BY <1>1, <1>3 DEF RequestCancel, Entries
  <2> QED
    BY <1>1, <2>1 DEF Sure, Entries, Ready
<1> QED
  BY <1>2, <1>3

LEMMA FreshSure == ASSUME NEW v \in Views, Seen(v) PROVE Sure(Fresh(v))
BY DEF Sure, Fresh, Entries, Ready, Phases, Nothing, Sizes

LEMMA SetsSure ==
    ASSUME AnIInv, NEW o \in Analyses, NEW a, Sure(a), Sets(o, a)
    PROVE  an' \in [Analyses -> Entries] /\ \A p \in Analyses : Sure(an'[p])
BY DEF AnIInv, AnTypeOK, Sets, Sure

LEMMA HandlerFair ==
    ASSUME AnIInv, NEW c \in Clients, NEW x, Fair(x), h' = [h EXCEPT ![c] = x]
    PROVE  h' \in [Clients -> Requests] /\ \A d \in Clients : Fair(h'[d])
BY DEF AnIInv, AnTypeOK, Fair

LEMMA IdleFair == AnTypeOK => Fair(Idle)
<1> SUFFICES ASSUME AnTypeOK PROVE Fair(Idle)
  OBVIOUS
<1>1. (CHOOSE o \in Analyses : TRUE) \in Analyses
  BY AnAssumption
<1>2. Idle \in Requests
  BY <1>1, NothingSeen DEF Idle, Requests, Stages, Phases, Nothing, Sizes
<1>3. Idle.view = NoView /\ Idle.old = NoView /\ Idle.pc = "idle"
  BY DEF Idle
<1> QED
  BY <1>2, <1>3, NothingSeen DEF Fair, Carried

\* A handler that moves on, unless it is to become a reader, stays fair.
LEMMA ProceedsFair ==
    ASSUME AnIInv, NEW c \in Clients, NEW pc \in Stages, Proceeds(c, pc),
           pc \in {"check", "reading"} => h[c].pc \in {"check", "reading"}
    PROVE  h' \in [Clients -> Requests] /\ \A d \in Clients : Fair(h'[d])
<1>1. h[c] \in Requests /\ Fair(h[c])
  BY DEF AnIInv, AnTypeOK
<1>2. CASE pc = "idle"
  BY <1>2, IdleFair, HandlerFair DEF AnIInv, Proceeds, Onward
<1>3. CASE pc = "status"
  <2>1. Cleared(h[c]) \in Requests
    BY <1>1, NothingSeen DEF AnIInv, Cleared, Requests, Nothing, Sizes
  <2>2. Cleared(h[c]).view = NoView /\ Cleared(h[c]).old = NoView
    BY <1>1 DEF Cleared, Requests
  <2> DEFINE x == [Cleared(h[c]) EXCEPT !.pc = pc]
  <2>3. Fair(x)
    BY <1>3, <2>1, <2>2, NothingSeen DEF AnIInv, Fair, Carried, Requests
  <2>4. h' = [h EXCEPT ![c] = x]
    BY <1>3 DEF Proceeds, Onward
  <2> HIDE DEF x
  <2> QED
    BY <2>3, <2>4, HandlerFair
<1>4. CASE pc \notin {"idle", "status"}
  <2> DEFINE x == [h[c] EXCEPT !.pc = pc]
  <2>1. Fair(x)
    BY <1>1 DEF Fair, Carried, Requests
  <2>2. h' = [h EXCEPT ![c] = x]
    BY <1>4 DEF Proceeds, Onward
  <2> HIDE DEF x
  <2> QED
    BY <2>1, <2>2, HandlerFair
<1> QED
  BY <1>2, <1>3, <1>4

\* While the document stays, the parts are what is to be kept.
LEMMA PartsKeep ==
    ASSUME AnIInv, live' = live, an' \in [Analyses -> Entries], h' \in [Clients -> Requests],
           store' \in Seq(Analyses),
           scan' \in [Analyses -> {"none", "scan", "stopped", "scanned", "finish", "ended"}],
           \A o \in Analyses : Sure(an'[o]), \A c \in Clients : Fair(h'[c])
    PROVE  AnIInv'
<1>1. AnTypeOK'
  BY DEF AnIInv, AnTypeOK
<1>2. \A o \in Analyses : Sure(an[o])'
  BY DEF Sure, Seen
<1>3. \A c \in Clients : Fair(h[c])'
  BY DEF Fair, Seen
<1> QED
  BY <1>1, <1>2, <1>3 DEF AnIInv

\* A step of one handler that may change one analysis.
LEMMA HandlerKeeps ==
    ASSUME AnIInv, Rest, NEW o \in Analyses, NEW a, Sure(a), Sets(o, a) \/ UNCHANGED an,
           h' \in [Clients -> Requests], \A c \in Clients : Fair(h'[c])
    PROVE  AnIInv'
<1>1. an' \in [Analyses -> Entries] /\ \A p \in Analyses : Sure(an'[p])
  BY SetsSure DEF AnIInv, AnTypeOK
<1> QED
  BY <1>1, PartsKeep DEF Rest, AnIInv, AnTypeOK

-----------------------------------------------------------------------------
(* The background scan.                                                    *)

LEMMA ScanKeeps == ASSUME AnIInv, NEW o \in Analyses, ScanSteps(o) PROVE AnIInv'
<1>1. Sure(an[o]) /\ an \in [Analyses -> Entries] /\ h \in [Clients -> Requests]
  BY DEF AnIInv, AnTypeOK
<1>2. Sure(MarkStale(an[o])) /\ Sure(MarkError(an[o])) /\ Sure(RequestCancel(an[o]))
  BY <1>1, MarkStaleSure, MarkErrorSure, RequestCancelSure
<1>3. Sure([an[o] EXCEPT !.phase = "complete", !.result = an[o].source.text])
  <2>1. an[o].source.text \in Sizes
    BY <1>1 DEF Entries, Views
  <2> QED
    BY <1>1, <2>1 DEF Sure, Entries, Ready, Phases
<1>4. \/ UNCHANGED an
      \/ Sets(o, an[o]) \/ Sets(o, MarkStale(an[o])) \/ Sets(o, MarkError(an[o]))
      \/ Sets(o, RequestCancel(an[o]))
      \/ Sets(o, [an[o] EXCEPT !.phase = "complete", !.result = an[o].source.text])
  BY DEF ScanSteps, ScanPolls, ScanFails, ScanStopped, ScanEnds, ScanChecks, Finish
<1>5. an' \in [Analyses -> Entries] /\ \A p \in Analyses : Sure(an'[p])
  BY <1>1, <1>2, <1>3, <1>4, SetsSure DEF AnIInv
<1>6. /\ scan' \in [Analyses -> {"none", "scan", "stopped", "scanned", "finish", "ended"}]
      /\ UNCHANGED <<live, store, h>>
  BY DEF AnIInv, AnTypeOK, ScanSteps, ScanPolls, ScanFails, ScanStopped, ScanEnds, ScanChecks,
         Finish
<1> QED
  BY <1>5, <1>6, PartsKeep DEF AnIInv, AnTypeOK

-----------------------------------------------------------------------------
(* Start, status and cancel.                                               *)

\* What every handler step may use of the invariant.
LEMMA HandlerParts ==
    ASSUME AnIInv, NEW c \in Clients
    PROVE  /\ h[c] \in Requests /\ Fair(h[c]) /\ Op(c) \in Analyses
           /\ an \in [Analyses -> Entries] /\ \A o \in Analyses : Sure(an[o]) /\ an[o] \in Entries
           /\ h \in [Clients -> Requests] /\ \A d \in Clients : Fair(h[d])
           /\ View \in Views /\ Seen(View)
BY ViewSeen DEF AnIInv, AnTypeOK, Op, Requests

\* A new request pins the view that is live.
LEMMA PinsKeep ==
    ASSUME AnIInv, NEW c \in Clients, NEW o \in Analyses, NEW pc \in {"start", "tail"},
           h' = [h EXCEPT ![c] = [h[c] EXCEPT !.pc = pc, !.o = o, !.view = View]],
           UNCHANGED an, Rest
    PROVE  AnIInv'
<1> DEFINE x == [h[c] EXCEPT !.pc = pc, !.o = o, !.view = View]
<1>1. Fair(x)
  BY ZenonT(60), HandlerParts DEF Fair, Carried, Requests, Stages
<1>2. h' = [h EXCEPT ![c] = x]
  OBVIOUS
<1> HIDE DEF x
<1> QED
  BY <1>1, <1>2, HandlerFair, HandlerKeeps, HandlerParts

LEMMA StartKeeps == ASSUME AnIInv, NEW c \in Clients, Start(c) PROVE AnIInv'
<1>1. h' = [h EXCEPT ![c] = [h[c] EXCEPT !.pc = "start", !.o = Op(c), !.view = View]]
  BY HandlerParts DEF Start, Requests, Op
<1> QED
  BY <1>1, HandlerParts, PinsKeep DEF Start

LEMMA TailPinsKeeps ==
    ASSUME AnIInv, NEW c \in Clients, NEW o \in Analyses, TailPins(c, o)
    PROVE  AnIInv'
<1>1. h' = [h EXCEPT ![c] = [h[c] EXCEPT !.pc = "tail", !.o = o, !.view = View]]
  BY DEF TailPins
<1> QED
  BY <1>1, PinsKeep DEF TailPins

\* Status and cancel look at one analysis.
LEMMA LooksKeep ==
    ASSUME AnIInv, NEW c \in Clients, NEW o \in Analyses, Status(c, o) \/ CancelScan(c, o)
    PROVE  AnIInv'
<1> DEFINE x == [h[c] EXCEPT !.pc = "status", !.o = o]
<1>1. h' = [h EXCEPT ![c] = x]
  BY HandlerParts DEF Status, CancelScan, Requests
<1>2. Fair(x)
  BY HandlerParts DEF Fair, Carried, Requests, Stages
<1> HIDE DEF x
<1>3. h' \in [Clients -> Requests] /\ \A d \in Clients : Fair(h'[d])
  BY <1>1, <1>2, HandlerFair
<1>4. Sure(RequestCancel(an[o]))
  BY HandlerParts, RequestCancelSure
<1> QED
  BY <1>3, <1>4, HandlerKeeps DEF Status, CancelScan, Rest

\* What is evicted is canceled; what is new is being scanned.
LEMMA InsertKeeps == ASSUME AnIInv, NEW c \in Clients, Insert(c) PROVE AnIInv'
<1>1. PICK o \in Analyses :
        /\ store' = Append(IF Len(store) >= MaxOps THEN Tail(store) ELSE store, o)
        /\ an' = [p \in Analyses |->
              IF p = o THEN Fresh(h[c].view)
              ELSE IF Len(store) >= MaxOps /\ p = Head(store) THEN RequestCancel(an[p])
              ELSE an[p]]
        /\ scan' = [scan EXCEPT ![o] = "scan"]
        /\ h' = [h EXCEPT ![c] = [Idle EXCEPT !.pc = "status", !.o = o]]
  BY DEF Insert
<1>2. store' \in Seq(Analyses)
  <2>1. Len(store) >= MaxOps => store # <<>>
    BY AnAssumption DEF AnIInv, AnTypeOK
  <2> QED
    BY <1>1, <2>1 DEF AnIInv, AnTypeOK
<1>3. Sure(Fresh(h[c].view))
  BY HandlerParts, FreshSure DEF Fair, Requests
<1>4. ASSUME NEW p \in Analyses PROVE Sure(an'[p]) /\ an'[p] \in Entries
  BY <1>1, <1>3, HandlerParts, RequestCancelSure DEF Sure
<1>5. an' \in [Analyses -> Entries]
  BY <1>1, <1>4
<1> DEFINE x == [Idle EXCEPT !.pc = "status", !.o = o]
<1>6. Fair(x)
  BY IdleFair DEF AnIInv, Fair, Carried, Requests, Stages
<1>7. h' = [h EXCEPT ![c] = x]
  BY <1>1
<1>8. scan' \in [Analyses -> {"none", "scan", "stopped", "scanned", "finish", "ended"}]
  BY <1>1 DEF AnIInv, AnTypeOK
<1> HIDE DEF x
<1>9. h' \in [Clients -> Requests] /\ \A d \in Clients : Fair(h'[d])
  BY <1>6, <1>7, HandlerFair
<1> QED
  BY <1>2, <1>4, <1>5, <1>8, <1>9, PartsKeep DEF Insert

LEMMA StatusReadsKeeps == ASSUME AnIInv, NEW c \in Clients, StatusReads(c) PROVE AnIInv'
<1> DEFINE x == [h[c] EXCEPT !.pc = "mark", !.old = an[Op(c)].source, !.phase = an[Op(c)].phase]
<1>1. h' = [h EXCEPT ![c] = x]
  BY DEF StatusReads
<1>2. an[Op(c)].source \in Views /\ an[Op(c)].phase \in Phases /\ Seen(an[Op(c)].source)
  BY HandlerParts DEF Sure, Entries
<1>3. Fair(x)
  BY <1>2, HandlerParts DEF Fair, Carried, Requests, Stages
<1> HIDE DEF x
<1>4. h' \in [Clients -> Requests] /\ \A d \in Clients : Fair(h'[d])
  BY <1>1, <1>3, HandlerFair
<1> QED
  BY <1>4, HandlerParts, HandlerKeeps DEF StatusReads

LEMMA StatusMarksKeeps == ASSUME AnIInv, NEW c \in Clients, StatusMarks(c) PROVE AnIInv'
<1>1. h' \in [Clients -> Requests] /\ \A d \in Clients : Fair(h'[d])
  BY ProceedsFair DEF StatusMarks, Stages
<1>2. Sets(Op(c), MarkStale(an[Op(c)])) \/ Sets(Op(c), an[Op(c)])
  BY DEF StatusMarks
<1>3. Sure(MarkStale(an[Op(c)])) /\ Sure(an[Op(c)])
  BY HandlerParts, MarkStaleSure
<1> QED
  BY <1>1, <1>2, <1>3, HandlerParts, HandlerKeeps DEF StatusMarks

-----------------------------------------------------------------------------
(* Readers.                                                                *)

LEMMA ReadsKeeps ==
    ASSUME AnIInv, NEW c \in Clients, NEW o \in Analyses, Reads(c, o)
    PROVE  AnIInv'
<1> DEFINE x == [h[c] EXCEPT !.pc = "check", !.o = o, !.old = an[o].source, !.got = an[o].result]
<1>1. h' = [h EXCEPT ![c] = x]
  BY DEF Reads
<1>2. /\ an[o].source \in Views /\ an[o].result \in Sizes /\ Seen(an[o].source)
      /\ an[o].result \in {an[o].source.text, Mixed}
  BY HandlerParts DEF Reads, Sure, Ready, Entries
<1>3. Fair(x)
  BY <1>2, HandlerParts DEF Fair, Carried, Requests, Stages
<1> HIDE DEF x
<1>4. h' \in [Clients -> Requests] /\ \A d \in Clients : Fair(h'[d])
  BY <1>1, <1>3, HandlerFair
<1> QED
  BY <1>4, HandlerParts, HandlerKeeps DEF Reads

LEMMA ReadersKeep ==
    ASSUME AnIInv, NEW c \in Clients, ReadChecks(c) \/ ReadRechecks(c) \/ Answered(c)
    PROVE  AnIInv'
<1>1. \/ Proceeds(c, "reading") /\ h[c].pc = "check"
      \/ Proceeds(c, "answered") \/ Proceeds(c, "idle")
  BY DEF ReadChecks, ReadRechecks, Answered, EnsureCurrent, At
<1>2. h' \in [Clients -> Requests] /\ \A d \in Clients : Fair(h'[d])
  BY <1>1, ProceedsFair DEF Stages
<1>3. Sets(Op(c), MarkStale(an[Op(c)])) \/ Sets(Op(c), an[Op(c)]) \/ UNCHANGED an
  BY DEF ReadChecks, ReadRechecks, Answered, EnsureCurrent
<1>4. Sure(MarkStale(an[Op(c)])) /\ Sure(an[Op(c)])
  BY HandlerParts, MarkStaleSure
<1>5. Rest
  BY DEF ReadChecks, ReadRechecks, Answered, EnsureCurrent
<1> QED
  BY <1>2, <1>3, <1>4, <1>5, HandlerParts, HandlerKeeps

-----------------------------------------------------------------------------
(* The tail update.                                                        *)

LEMMA TailReadsKeeps == ASSUME AnIInv, NEW c \in Clients, TailReads(c) PROVE AnIInv'
<1>1. CASE an[Op(c)].phase = "complete"
  <2> DEFINE x == [h[c] EXCEPT !.pc = "judge", !.old = an[Op(c)].source, !.got = an[Op(c)].result]
  <2>1. h' = [h EXCEPT ![c] = x]
    BY <1>1 DEF TailReads
  <2>2. an[Op(c)].source \in Views /\ an[Op(c)].result \in Sizes /\ Seen(an[Op(c)].source)
    BY HandlerParts DEF Sure, Entries
  <2>3. Fair(x)
    BY <2>2, HandlerParts DEF Fair, Carried, Requests, Stages
  <2> HIDE DEF x
  <2>4. h' \in [Clients -> Requests] /\ \A d \in Clients : Fair(h'[d])
    BY <2>1, <2>3, HandlerFair
  <2> QED
    BY <2>4, HandlerParts, HandlerKeeps DEF TailReads
<1>2. CASE an[Op(c)].phase # "complete"
  <2>1. h' \in [Clients -> Requests] /\ \A d \in Clients : Fair(h'[d])
    BY <1>2, ProceedsFair DEF TailReads, Stages
  <2> QED
    BY <2>1, HandlerParts, HandlerKeeps DEF TailReads
<1> QED
  BY <1>1, <1>2

LEMMA TailTakesKeeps == ASSUME AnIInv, NEW c \in Clients, TailTakes(c) PROVE AnIInv'
<1>1. CASE Sets(Op(c), [an[Op(c)] EXCEPT !.phase = "updating", !.result = Nothing])
           /\ h' = [h EXCEPT ![c].pc = "scan", ![c].got = an[Op(c)].result]
  <2> DEFINE x == [h[c] EXCEPT !.pc = "scan", !.got = an[Op(c)].result]
  <2>1. h' = [h EXCEPT ![c] = x]
    BY <1>1, HandlerParts DEF Requests
  <2>2. an[Op(c)].result \in Sizes
    BY HandlerParts DEF Entries
  <2>3. Fair(x)
    BY <2>2, HandlerParts DEF Fair, Carried, Requests, Stages
  <2> HIDE DEF x
  <2>4. h' \in [Clients -> Requests] /\ \A d \in Clients : Fair(h'[d])
    BY <2>1, <2>3, HandlerFair
  <2>5. Sure([an[Op(c)] EXCEPT !.phase = "updating", !.result = Nothing])
    BY HandlerParts DEF Sure, Ready, Entries, Phases, Nothing, Sizes
  <2> QED
    BY <1>1, <2>4, <2>5, HandlerParts, HandlerKeeps DEF TailTakes
<1>2. CASE Proceeds(c, "idle") /\ UNCHANGED an
  <2>1. h' \in [Clients -> Requests] /\ \A d \in Clients : Fair(h'[d])
    BY <1>2, ProceedsFair DEF Stages
  <2> QED
    BY <1>2, <2>1, HandlerParts, HandlerKeeps DEF TailTakes
<1> QED
  BY <1>1, <1>2 DEF TailTakes

\* A merge tells the text of its source, or that of nothing that ever was.
LEMMA TailMergesKeeps == ASSUME AnIInv, NEW c \in Clients, TailMerges(c) PROVE AnIInv'
<1> DEFINE a == [an[Op(c)] EXCEPT !.phase = "complete", !.source = h[c].view,
                                  !.result = MergedText(h[c].got, h[c].view)]
<1>1. h' \in [Clients -> Requests] /\ \A d \in Clients : Fair(h'[d])
  BY ProceedsFair DEF TailMerges, Stages
<1>2. MergedText(h[c].got, h[c].view) \in {h[c].view.text, Mixed} /\ Mixed \in Sizes
  BY DEF MergedText, Mixed, Sizes
<1>3. h[c].view \in Views /\ Seen(h[c].view) /\ h[c].view.text \in Sizes
  BY HandlerParts DEF Fair, Requests, Views
<1>4. Sure(a)
  BY <1>2, <1>3, HandlerParts DEF Sure, Ready, Entries, Phases
<1>5. Sets(Op(c), a) \/ Sets(Op(c), an[Op(c)])
  BY DEF TailMerges
<1> HIDE DEF a
<1> QED
  BY <1>1, <1>4, <1>5, HandlerParts, HandlerKeeps DEF TailMerges

\* The other steps of an update only mark the analysis.
LEMMA TailMarksKeep ==
    ASSUME AnIInv, NEW c \in Clients,
           \/ TailJudges(c) \/ TailUncancels(c) \/ TailScans(c) \/ TailPanics(c) \/ TailStopped(c)
           \/ TailChecks(c) \/ Disconnect(c)
    PROVE  AnIInv'
<1> DEFINE a == an[Op(c)]
<1>1. \E pc \in Stages \ {"check", "reading"} : Proceeds(c, pc)
  BY DEF TailJudges, TailUncancels, TailScans, TailPanics, TailStopped, TailChecks, Disconnect, Stages
<1>2. h' \in [Clients -> Requests] /\ \A d \in Clients : Fair(h'[d])
  BY <1>1, ProceedsFair
<1>3. /\ Sure(a) /\ Sure(MarkStale(a)) /\ Sure(MarkError(a)) /\ Sure(RequestCancel(a))
      /\ Sure([a EXCEPT !.canceled = FALSE])
  <2>1. Sure(a)
    BY HandlerParts
  <2>2. Sure([a EXCEPT !.canceled = FALSE])
    BY <2>1 DEF Sure, Ready, Entries
  <2> QED
    BY <2>1, <2>2, MarkStaleSure, MarkErrorSure, RequestCancelSure
<1>4. \/ UNCHANGED an
      \/ Sets(Op(c), a) \/ Sets(Op(c), MarkStale(a)) \/ Sets(Op(c), MarkError(a))
      \/ Sets(Op(c), RequestCancel(a)) \/ Sets(Op(c), [a EXCEPT !.canceled = FALSE])
  BY DEF TailJudges, TailUncancels, TailScans, TailPanics, TailStopped, TailChecks, Disconnect
<1>5. Rest
  BY DEF TailJudges, TailUncancels, TailScans, TailPanics, TailStopped, TailChecks, Disconnect
<1> HIDE DEF a
<1> QED
  BY <1>2, <1>3, <1>4, <1>5, HandlerParts, HandlerKeeps

-----------------------------------------------------------------------------
(* The document.                                                           *)

\* A revision or a document that is left never comes back.
LEMMA DocumentKeeps ==
    ASSUME AnIInv, Typed \/ Replaced \/ Followed \/ Closed
    PROVE  AnIInv'
<1>1. live \in Documents
  BY DEF AnIInv, AnTypeOK
<1>2. /\ live' \in Documents /\ UNCHANGED <<an, store, scan, h>>
      /\ \/ live'.doc = 0
         \/ live'.doc = live.doc + 1
         \/ live'.doc = live.doc /\ live.rev = 0 /\ live'.rev = 1
      /\ live.doc # 0 \/ live'.doc = 0
  <2>1. CASE Typed
    <3>1. [live.text EXCEPT !.base = NextBase] \in Sizes
      BY <1>1 DEF Documents, Sizes, NextBase
    <3> HIDE DEF NextBase
    <3> QED
      BY <1>1, <2>1, <3>1 DEF Typed, Becomes, Documents
  <2>2. CASE Replaced
    BY <1>1, <2>2 DEF Replaced, Becomes, Documents, Sizes, NextBase
  <2>3. CASE Followed
    <3>1. PICK b \in {live.text.base, NextBase} :
            Becomes([live EXCEPT !.doc = live.doc + 1, !.rev = 0,
                                 !.text = [base |-> b, len |-> live.text.len + 1]])
      BY <2>3 DEF Followed
    <3> DEFINE t == [base |-> b, len |-> live.text.len + 1]
    <3>2. t \in Sizes
      BY <1>1 DEF Documents, Sizes, NextBase
    <3>3. Becomes([live EXCEPT !.doc = live.doc + 1, !.rev = 0, !.text = t])
      BY <3>1
    <3>4. live.doc # 0
      BY <2>3 DEF Followed
    <3> HIDE DEF t
    <3>5. live' = [doc |-> live.doc + 1, rev |-> 0, file |-> live.file,
                   dirty |-> live.dirty, text |-> t]
      BY <1>1, <3>3 DEF Becomes, Documents
    <3>6. UNCHANGED <<an, store, scan, h>>
      BY <3>3 DEF Becomes
    <3> QED
      BY <1>1, <3>2, <3>4, <3>5, <3>6 DEF Documents
  <2>4. CASE Closed
    BY <1>1, <2>4 DEF Closed, Becomes, Documents
  <2> QED
    BY <2>1, <2>2, <2>3, <2>4
<1>3. ASSUME NEW v \in Views, Seen(v) PROVE Seen(v)'
  BY <1>1, <1>2, <1>3 DEF Seen, Views, Documents
<1>4. ASSUME NEW o \in Analyses PROVE Sure(an[o])'
  <2>1. Sure(an[o]) /\ an[o].source \in Views /\ an'[o] = an[o]
    BY <1>2 DEF AnIInv, AnTypeOK, Entries
  <2>2. Seen(an[o].source)'
    BY <1>2, <1>3, <2>1 DEF Sure
  <2> QED
    BY <2>1, <2>2 DEF Sure, Ready
<1>5. ASSUME NEW c \in Clients PROVE Fair(h[c])'
  <2>1. Fair(h[c]) /\ h[c].view \in Views /\ h[c].old \in Views /\ h'[c] = h[c]
    BY <1>2 DEF AnIInv, AnTypeOK, Requests
  <2>2. Seen(h[c].view)' /\ Seen(h[c].old)'
    BY <1>2, <1>3, <2>1 DEF Fair
  <2> QED
    BY <2>1, <2>2 DEF Fair, Carried
<1> QED
  BY <1>2, <1>4, <1>5 DEF AnIInv, AnTypeOK

LEMMA InitAnIInv == AnInit => AnIInv
<1> SUFFICES ASSUME AnInit PROVE AnIInv
  OBVIOUS
<1>1. live \in Documents
  BY DEF AnInit, Documents, Sizes
<1>2. NoView \in Views /\ Seen(NoView)
  BY <1>1 DEF NoView, Nothing, Views, Sizes, Seen, Documents
<1>3. Idle \in Requests
  <2>1. (CHOOSE o \in Analyses : TRUE) \in Analyses
    BY AnAssumption
  <2> QED
    BY <1>2, <2>1 DEF Idle, Requests, Stages, Phases, Nothing, Sizes
<1>4. Fair(Idle)
  BY <1>2, <1>3 DEF Fair, Carried, Idle
<1> DEFINE a == [Fresh(NoView) EXCEPT !.phase = "none"]
<1>5. Sure(a)
  BY <1>2 DEF Sure, Fresh, Entries, Ready, Phases, Nothing, Sizes
<1>6. an = [o \in Analyses |-> a]
  BY DEF AnInit
<1> HIDE DEF a
<1>7. AnTypeOK
  BY <1>1, <1>3, <1>5, <1>6 DEF AnInit, AnTypeOK, Sure
<1> QED
  BY <1>4, <1>5, <1>6, <1>7 DEF AnInit, AnIInv

LEMMA NextAnIInv == AnIInv /\ [AnNext]_anVars => AnIInv'
<1> SUFFICES ASSUME AnIInv, [AnNext]_anVars PROVE AnIInv'
  OBVIOUS
<1>1. CASE UNCHANGED anVars
  BY <1>1 DEF anVars, AnIInv, AnTypeOK, Sure, Fair, Seen, Ready, Carried
<1>2. ASSUME NEW c \in Clients,
             \/ Start(c) \/ Insert(c) \/ StatusReads(c) \/ StatusMarks(c)
             \/ ReadChecks(c) \/ ReadRechecks(c) \/ Answered(c)
      PROVE  AnIInv'
  BY <1>2, StartKeeps, InsertKeeps, StatusReadsKeeps, StatusMarksKeeps, ReadersKeep
<1>3. ASSUME NEW c \in Clients,
             \/ TailReads(c) \/ TailJudges(c) \/ TailUncancels(c) \/ TailTakes(c)
             \/ TailSteps(c) \/ Disconnect(c)
      PROVE  AnIInv'
  BY <1>3, TailReadsKeeps, TailTakesKeeps, TailMergesKeeps, TailMarksKeep DEF TailSteps
<1>4. ASSUME NEW c \in Clients, NEW o \in ToSet(store),
             Status(c, o) \/ CancelScan(c, o) \/ Reads(c, o) \/ TailPins(c, o)
      PROVE  AnIInv'
  <2>1. o \in Analyses
    BY DEF AnIInv, AnTypeOK, ToSet
  <2> QED
    BY <1>4, <2>1, LooksKeep, ReadsKeeps, TailPinsKeeps
<1> QED
  BY <1>1, <1>2, <1>3, <1>4, ScanKeeps, DocumentKeeps DEF AnNext

\* A reader answers only after its second check.
LEMMA OnlyChecked ==
    ASSUME AnIInv, AnNext, NEW c \in Clients, At(c, "reading"), h'[c].pc = "answered"
    PROVE  SourceState(h[c].old, TRUE) = "current"
<1>1. h[c].pc = "reading" /\ h \in [Clients -> Requests]
  BY HandlerParts DEF At
<1>2. ASSUME UNCHANGED h PROVE FALSE
  BY <1>1, <1>2
<1>4. \A pc : Proceeds(c, pc) => h'[c] = Onward(h[c], pc)
  BY <1>1 DEF Proceeds
<1>5. Onward(h[c], "idle").pc = "idle"
  BY DEF Onward, Idle
<1>6. PICK d \in Clients :
        \/ Start(d) \/ Insert(d) \/ StatusReads(d) \/ StatusMarks(d)
        \/ ReadChecks(d) \/ ReadRechecks(d) \/ Answered(d)
        \/ TailReads(d) \/ TailJudges(d) \/ TailUncancels(d) \/ TailTakes(d)
        \/ TailSteps(d) \/ Disconnect(d)
        \/ \E o \in ToSet(store) :
            Status(d, o) \/ CancelScan(d, o) \/ Reads(d, o) \/ TailPins(d, o)
  BY <1>2 DEF AnNext, ScanSteps, ScanPolls, ScanFails, ScanStopped, ScanEnds, ScanChecks, Finish,
              Typed, Replaced, Followed, Closed, Becomes
<1>7. CASE d # c
  <2>1. h'[c] = h[c]
    BY <1>1, <1>6, <1>7 DEF Start, Insert, StatusReads, StatusMarks, ReadChecks, ReadRechecks,
       Answered, TailReads, TailJudges, TailUncancels, TailTakes, TailSteps, TailScans, TailPanics,
       TailStopped, TailChecks, TailMerges, Disconnect, Status, CancelScan, Reads, TailPins,
       EnsureCurrent, Proceeds
  <2> QED
    BY <1>1, <2>1
<1>8. CASE d = c
  <2>1. ReadRechecks(c) \/ Proceeds(c, "idle")
    BY <1>1, <1>6, <1>8 DEF At, Start, Insert, StatusReads, StatusMarks, ReadChecks,
       Answered, TailReads, TailJudges, TailUncancels, TailTakes, TailSteps, TailScans, TailPanics,
       TailStopped, TailChecks, TailMerges, Disconnect, Status, CancelScan, Reads, TailPins
  <2>2. ~Proceeds(c, "idle")
    BY <1>4, <1>5
  <2>3. CASE SourceState(h[c].old, TRUE) # "current"
    BY <2>1, <2>2, <2>3 DEF ReadRechecks, EnsureCurrent
  <2> QED
    BY <2>3
<1> QED
  BY <1>7, <1>8

-----------------------------------------------------------------------------
(* The theorems about Analysis.                                            *)

\* Every variable of the analyses keeps its type.
THEOREM AnTypeCorrect == AnSpec => []AnTypeOK
<1>1. AnIInv => AnTypeOK
  BY DEF AnIInv
<1> QED
  BY <1>1, InitAnIInv, NextAnIInv, PTL DEF AnSpec

\* What a reader is answered is the analysis of the text that is live when the
\* answer is checked, or of a file that was rewritten in place while followed.
THEOREM AnswersAreLive == AnSpec => ServedIsLive
<1>1. AnIInv /\ [AnNext]_anVars =>
        [\A c \in Clients : At(c, "reading") /\ h'[c].pc = "answered" =>
            h[c].got = live.text \/ h[c].got = Mixed]_anVars
  <2> SUFFICES ASSUME AnIInv, AnNext, NEW c \in Clients, At(c, "reading"),
                      h'[c].pc = "answered"
               PROVE  h[c].got = live.text \/ h[c].got = Mixed
    BY DEF anVars
  <2>1. SourceState(h[c].old, TRUE) = "current"
    BY OnlyChecked, HandlerParts
  <2>2. live.doc # 0 /\ live.doc = h[c].old.doc /\ live.rev = h[c].old.rev
    BY <2>1 DEF SourceState, SameView
  <2>3. Seen(h[c].old) /\ h[c].got \in {h[c].old.text, Mixed} /\ h[c].old \in Views
    BY HandlerParts DEF Fair, Carried, Requests, At
  <2> QED
    BY <2>2, <2>3 DEF Seen
<1> QED
  BY <1>1, InitAnIInv, NextAnIInv, PTL DEF AnSpec, ServedIsLive

-----------------------------------------------------------------------------
(* The line index: counting.                                               *)

LEMMA LeastOf ==
    ASSUME NEW Q, Q \subseteq Nat, Q # {}
    PROVE  \E n \in Q : \A m \in Q : n <= m
<1>1. PICK n \in Q : \A m \in Q : ~(<<m, n>> \in OpToRel(<, Nat))
  BY NatLessThanWellFounded, WFMin
<1>2. \A m \in Q : n <= m
  <2> TAKE m \in Q
  <2>1. ~(m < n) BY <1>1 DEF OpToRel
  <2> QED BY <2>1
<1> QED BY <1>2

LEMMA GreatestOf ==
    ASSUME NEW L \in Nat, NEW Q, Q \subseteq 0 .. L, Q # {}
    PROVE  \E n \in Q : \A m \in Q : m <= n
<1> DEFINE R == {L - n : n \in Q}
<1>1. \A n \in Q : n \in Nat /\ n <= L OBVIOUS
<1>2. \A n \in Q : L - n \in Nat /\ L - n \in R BY <1>1
<1>3. R \subseteq Nat /\ R # {} BY <1>2
<1>4. PICK k \in R : \A m \in R : k <= m
  <2> HIDE DEF R
  <2> QED BY <1>3, LeastOf
<1>5. PICK n \in Q : k = L - n OBVIOUS
<1> HIDE DEF R
<1>6. \A m \in Q : m <= n
  <2> TAKE m \in Q
  <2>1. L - n <= L - m /\ m \in Nat /\ n \in Nat BY <1>1, <1>2, <1>4, <1>5
  <2> QED BY <2>1
<1> QED BY <1>6

LEMMA CountBoth ==
    ASSUME NEW A, NEW B, IsFiniteSet(A), IsFiniteSet(B), A \cap B = {}
    PROVE  Cardinality(A \cup B) = Cardinality(A) + Cardinality(B)
<1>1. Cardinality(A \cup B) = Cardinality(A) + Cardinality(B) - Cardinality(A \cap B) BY FS_Union
<1>2. Cardinality(A \cap B) = 0 BY FS_EmptySet
<1>3. Cardinality(A) \in Nat /\ Cardinality(B) \in Nat BY FS_CardinalityType
<1> QED BY <1>1, <1>2, <1>3

LEMMA CountShifted ==
    ASSUME NEW A, IsFiniteSet(A), A \subseteq Int, NEW w \in Int
    PROVE  Cardinality({p + w : p \in A}) = Cardinality(A)
<1> DEFINE B == {p + w : p \in A}
           f == [p \in A |-> p + w]
<1>1. f \in Bijection(A, B)
  <2>1. f \in [A -> B] OBVIOUS
  <2>2. \A x, y \in A : f[x] = f[y] => x = y
    <3> TAKE x, y \in A
    <3>1. x \in Int /\ y \in Int OBVIOUS
    <3> QED BY <3>1
  <2>3. \A t \in B : \E x \in A : f[x] = t OBVIOUS
  <2> QED BY <2>1, <2>2, <2>3 DEF Bijection, Injection, Surjection, IsInjective
<1>2. ExistsBijection(A, B) BY <1>1 DEF ExistsBijection
<1> QED BY <1>2, FS_Bijection

LEMMA RankFacts ==
    ASSUME NEW S, IsFiniteSet(S), S \subseteq Int
    PROVE  /\ \A x : Rank(S, x) \in Nat
           /\ \A x \in S, y \in Int : x < y => Rank(S, x) < Rank(S, y)
           /\ \A x, y \in S : Rank(S, x) = Rank(S, y) => x = y
           /\ \A x \in S : Rank(S, x) < Cardinality(S)
<1>1. \A x : IsFiniteSet({z \in S : z < x}) BY FS_Subset
<1>2. \A x : Rank(S, x) \in Nat BY <1>1, FS_CardinalityType DEF Rank
<1>3. ASSUME NEW x \in S, NEW y \in Int, x < y PROVE Rank(S, x) < Rank(S, y)
  <2> DEFINE A == {z \in S : z < x}
             B == {z \in S : z < y}
  <2>0. IsFiniteSet(B) BY <1>1
  <2>6. \A z \in S : z \in Int /\ x \in Int OBVIOUS
  <2>1. A \subseteq B /\ x \in B /\ x \notin A
    <3>1. \A z \in S : z < x => z < y BY <1>3, <2>6
    <3>2. ~(x < x) BY <2>6
    <3> QED BY <1>3, <3>1, <3>2
  <2>2. Cardinality(A) <= Cardinality(B) /\ (Cardinality(B) = Cardinality(A) => A = B)
    <3> HIDE DEF A, B
    <3> QED BY <2>0, <2>1, FS_Subset
  <2>3. Rank(S, x) = Cardinality(A) /\ Rank(S, y) = Cardinality(B) BY DEF Rank
  <2>4. Cardinality(A) # Cardinality(B) BY <2>1, <2>2
  <2>5. Rank(S, x) \in Nat /\ Rank(S, y) \in Nat BY <1>2
  <2> HIDE DEF A, B
  <2> QED BY <2>2, <2>3, <2>4, <2>5
<1>4. ASSUME NEW x \in S, NEW y \in S, Rank(S, x) = Rank(S, y) PROVE x = y
  <2>1. ~(x < y) /\ ~(y < x) BY <1>2, <1>3, <1>4
  <2> QED BY <2>1
<1>5. ASSUME NEW x \in S PROVE Rank(S, x) < Cardinality(S)
  <2> DEFINE A == {z \in S : z < x}
  <2>1. A \subseteq S /\ x \notin A OBVIOUS
  <2>2. Cardinality(A) <= Cardinality(S) /\ Cardinality(S) # Cardinality(A) BY <2>1, FS_Subset
  <2>3. Rank(S, x) = Cardinality(A) /\ Rank(S, x) \in Nat /\ Cardinality(S) \in Nat
    BY <1>2, FS_CardinalityType DEF Rank
  <2> HIDE DEF A
  <2> QED BY <2>2, <2>3
<1> QED BY <1>2, <1>3, <1>4, <1>5

\* What lies below y is what lies below x and what lies from there on.
Span(S, x, y) == {z \in S : x <= z /\ z < y}

LEMMA RankSum ==
    ASSUME NEW S, IsFiniteSet(S), S \subseteq Int, NEW x \in Int, NEW y \in Int, x <= y
    PROVE  Rank(S, y) = Rank(S, x) + Cardinality(Span(S, x, y))
<1> DEFINE A == {z \in S : z < x}
           B == {z \in S : x <= z /\ z < y}
<1>1. A \cap B = {} /\ IsFiniteSet(A) /\ IsFiniteSet(B)
  <2>1. A \subseteq S /\ B \subseteq S OBVIOUS
  <2>2. \A z \in S : z \in Int OBVIOUS
  <2>3. \A z \in S : ~(z < x /\ x <= z) BY <2>2
  <2>4. A \cap B = {} BY <2>3
  <2> HIDE DEF A, B
  <2> QED BY <2>1, <2>4, FS_Subset
<1>2. A \cup B = {z \in S : z < y}
  <2>1. \A z \in S : z \in Int OBVIOUS
  <2>2. \A z \in S : z < y <=> z < x \/ (x <= z /\ z < y) BY <2>1
  <2> QED BY <2>2
<1>3. Cardinality(A \cup B) = Cardinality(A) + Cardinality(B) BY <1>1, CountBoth
<1> QED BY <1>2, <1>3 DEF Rank, Span

-----------------------------------------------------------------------------
(* The table of all lines.                                                 *)

Bytes == 0 .. 255
Kinds == {"lf", "cr", "wide"}

\* All terminators of a file.
Ends(kind, file, base) == Newlines(kind, file, base, base, Len(file))

LEMMA WidthFacts == \A kind : Width(kind) \in 1 .. 2 /\ (kind # "wide" => Width(kind) = 1)
BY DEF Width

LEMMA EndsFacts ==
    ASSUME NEW kind, NEW file \in Seq(Bytes), NEW base \in Nat
    PROVE  /\ \A p \in Ends(kind, file, base) :
                 /\ p \in Nat /\ base <= p /\ p + Width(kind) <= Len(file)
                 /\ kind = "wide" => (p - base) % 2 = 0
           /\ IsFiniteSet(Ends(kind, file, base))
           /\ \A off, limit \in Nat : base <= off /\ limit <= Len(file) =>
                 Newlines(kind, file, base, off, limit) =
                    {p \in Ends(kind, file, base) : off <= p /\ p + Width(kind) <= limit}
<1> DEFINE w == Width(kind)
           n == Len(file)
           U(p) == (kind = "wide" => (p - base) % 2 = 0) /\ UnitAt(kind, file, p) = Newline(kind)
           E == Ends(kind, file, base)
<1>1. w \in 1 .. 2 /\ n \in Nat BY WidthFacts
<1>2. E = {p \in base .. n - w : U(p)} BY DEF Ends, Newlines
<1>3. \A off, limit : Newlines(kind, file, base, off, limit) = {p \in off .. limit - w : U(p)}
  BY DEF Newlines
<1>4. \A p \in E : kind = "wide" => (p - base) % 2 = 0 BY <1>2
<1>5. E \subseteq base .. n - w BY <1>2
<1> HIDE DEF w, n, U, E
<1>6. \A p \in E : p \in Nat /\ base <= p /\ p + w <= n BY <1>1, <1>5
<1>7. IsFiniteSet(E)
  <2>1. IsFiniteSet(base .. n - w) BY <1>1, FS_Interval
  <2> QED BY <1>5, <2>1, FS_Subset
<1>8. ASSUME NEW off \in Nat, NEW limit \in Nat, base <= off, limit <= n
      PROVE  Newlines(kind, file, base, off, limit) = {p \in E : off <= p /\ p + w <= limit}
  <2>1. \A p \in off .. limit - w : p \in base .. n - w /\ off <= p /\ p + w <= limit BY <1>1, <1>8
  <2>2. \A p \in E : off <= p /\ p + w <= limit => p \in off .. limit - w BY <1>1, <1>6
  <2>3. \A p \in Newlines(kind, file, base, off, limit) : p \in E /\ off <= p /\ p + w <= limit
    BY <1>2, <1>3, <2>1
  <2>4. \A p \in E : off <= p /\ p + w <= limit => p \in Newlines(kind, file, base, off, limit)
    BY <1>2, <1>3, <2>2
  <2> QED BY <2>3, <2>4
<1> QED BY <1>4, <1>6, <1>7, <1>8 DEF w, n, E

LEMMA TableFacts ==
    ASSUME NEW kind, NEW file \in Seq(Bytes), NEW base \in Nat
    PROVE  LET w == Width(kind) T == Table(kind, file, base) E == Ends(kind, file, base) IN
           /\ IsFiniteSet(T) /\ \A s \in T : s \in Nat /\ base <= s /\ s < Len(file)
           /\ base < Len(file) => base \in T
           /\ \A s \in T : s # base => s - w \in E
           /\ base < Len(file) => \A p \in E : p + w < Len(file) => p + w \in T
           /\ base >= Len(file) => T = {}
<1> DEFINE w == Width(kind)
           n == Len(file)
           E == Ends(kind, file, base)
           T == Table(kind, file, base)
<1>1. w \in 1 .. 2 /\ n \in Nat BY WidthFacts
<1>2. \A p \in E : p \in Nat /\ base <= p BY EndsFacts
<1>3. CASE base >= n
  <2>1. T = {} /\ ~(base < n) BY <1>1, <1>3 DEF Table
  <2> QED BY <1>3, <2>1, FS_EmptySet
<1>4. CASE base < n
  <2>1. T = {base} \cup {s \in {p + w : p \in E} : s < n}
    <3>1. ~(base >= n) BY <1>1, <1>4
    <3>2. Newlines(kind, file, base, base, n) = E BY DEF Ends
    <3> QED BY <3>1, <3>2 DEF Table, Starts
  <2> HIDE DEF w, n, E, T
  <2>2. \A s \in T : s \in Nat /\ base <= s /\ s < n
    <3>1. \A p \in E : p + w \in Nat /\ base <= p + w BY <1>1, <1>2
    <3> QED BY <1>4, <2>1, <3>1
  <2>3. \A s \in T : s # base => s - w \in E
    <3>1. \A p \in E : (p + w) - w = p BY <1>1, <1>2
    <3> QED BY <2>1, <3>1
  <2>4. IsFiniteSet(T)
    <3>1. T \subseteq 0 .. n BY <1>1, <2>2
    <3>2. IsFiniteSet(0 .. n) BY <1>1, FS_Interval
    <3> QED BY <3>1, <3>2, FS_Subset
  <2>5. ~(base >= n) BY <1>1, <1>4
  <2>6. base \in T /\ \A p \in E : p + w < n => p + w \in T BY <2>1
  <2> QED BY <2>2, <2>3, <2>4, <2>5, <2>6 DEF w, n, E, T
<1> QED BY <1>1, <1>3, <1>4

\* Between a line and what follows it there is room for its terminator.
LEMMA Grid ==
    ASSUME NEW kind, NEW file \in Seq(Bytes), NEW base \in Nat,
           NEW s \in Table(kind, file, base), NEW p \in Ends(kind, file, base),
           s < p + Width(kind)
    PROVE  s <= p
<1> DEFINE w == Width(kind)
           E == Ends(kind, file, base)
<1>1. p \in Nat /\ base <= p /\ s \in Nat /\ (s # base => s - w \in E) BY EndsFacts, TableFacts
<1>2. CASE kind = "wide"
  <2>1. w = 2 BY <1>2 DEF Width
  <2>2. (p - base) % 2 = 0 BY <1>2, EndsFacts
  <2>3. CASE s = base BY <1>1, <2>3
  <2>4. CASE s # base
    <3>1. s - 2 \in E BY <1>1, <2>1, <2>4
    <3>2. ((s - 2) - base) % 2 = 0 /\ s - 2 \in Nat BY <1>2, <3>1, EndsFacts
    <3>3. s < p + 2 BY <2>1
    <3> QED BY <1>1, <2>2, <3>2, <3>3
  <2> QED BY <2>3, <2>4
<1>3. CASE kind # "wide"
  <2>1. s < p + 1 BY <1>3 DEF Width
  <2> QED BY <1>1, <2>1
<1> QED BY <1>2, <1>3

\* What a scan of part of the file finds: the lines of the table there.
LEMMA StartsAre ==
    ASSUME NEW kind, NEW file \in Seq(Bytes), NEW base \in Nat,
           NEW s \in Table(kind, file, base), NEW e \in Nat, s < e, e <= Len(file)
    PROVE  Starts(kind, file, base, s, e) = {t \in Table(kind, file, base) : s <= t /\ t < e}
<1> DEFINE w == Width(kind)
           n == Len(file)
           E == Ends(kind, file, base)
           T == Table(kind, file, base)
<1>1. w \in 1 .. 2 /\ n \in Nat BY WidthFacts
<1>2. s \in Nat /\ base <= s /\ s < n BY TableFacts
<1>3. Newlines(kind, file, base, s, e) = {p \in E : s <= p /\ p + w <= e} BY <1>2, EndsFacts
<1>4. \A p \in E : p \in Nat BY EndsFacts
<1>5. Starts(kind, file, base, s, e) = {s} \cup {t \in {p + w : p \in {q \in E : s <= q /\ q + w <= e}} : t < e}
  BY <1>3 DEF Starts
<1>6. /\ \A t \in T : t \in Nat /\ (t # base => t - w \in E)
      /\ \A p \in E : p + w < n => p + w \in T
  BY <1>2, TableFacts
<1>7. \A p \in E : s < p + w => s <= p BY Grid
<1> HIDE DEF w, n, E, T
<1>8. ASSUME NEW t \in Starts(kind, file, base, s, e) PROVE t \in T /\ s <= t /\ t < e
  <2>1. CASE t = s BY <1>2, <2>1 DEF T
  <2>2. CASE t # s
    <3>1. PICK p \in E : s <= p /\ t = p + w /\ t < e BY <1>5, <2>2
    <3>2. p \in Nat /\ t \in Nat BY <1>1, <1>4, <3>1
    <3>3. p + w < n /\ s <= t BY <1>1, <1>2, <3>1, <3>2 DEF n
    <3> QED BY <1>6, <3>1, <3>3
  <2> QED BY <2>1, <2>2
<1>9. ASSUME NEW t \in T, s <= t, t < e PROVE t \in Starts(kind, file, base, s, e)
  <2>1. CASE t = s BY <1>5, <2>1
  <2>2. CASE t # s
    <3>1. t # base /\ t \in Nat BY <1>2, <1>6, <1>9, <2>2
    <3>2. t - w \in E BY <1>6, <3>1
    <3> DEFINE p == t - w
    <3>3. p \in Nat BY <1>4, <3>2
    <3>4. t = p + w /\ p + w <= e BY <1>1, <1>9, <3>1
    <3>5. s < p + w BY <1>2, <1>9, <2>2, <3>1, <3>4
    <3> HIDE DEF p
    <3>6. p \in E BY <3>2 DEF p
    <3>7. s <= p BY <1>7, <3>5, <3>6
    <3> QED BY <1>5, <1>9, <3>4, <3>6, <3>7
  <2> QED BY <2>1, <2>2
<1> QED BY <1>8, <1>9 DEF T

-----------------------------------------------------------------------------
(* What an index is, and what is read from it.                             *)

\* Each checkpoint bears the number of the line it is at, and the first line
\* has one.
IndexIs(i, b) ==
    LET T == Table(i.kind, b, i.base) IN
    /\ i = [kind |-> i.kind, base |-> i.base, stride |-> i.stride, len |-> i.len,
            cps |-> i.cps, count |-> i.count]
    /\ i.kind \in Kinds /\ i.base \in Nat /\ i.stride \in Nat \ {0}
    /\ i.len = Len(b) /\ i.count = Cardinality(T)
    /\ \A c \in i.cps : c.off \in T /\ c.line = Rank(T, c.off)
    /\ T # {} => \E c \in i.cps : c.off = i.base

\* The terminators between two lines are those of the lines between.
LEMMA EndsBetween ==
    ASSUME NEW kind, NEW file \in Seq(Bytes), NEW base \in Nat,
           NEW c \in Table(kind, file, base), NEW e \in Nat, e < Len(file)
    PROVE  LET w == Width(kind) T == Table(kind, file, base) E == Ends(kind, file, base) IN
           Cardinality({p \in E : c <= p /\ p + w <= e}) = Cardinality({t \in T : c < t /\ t <= e})
<1> DEFINE w == Width(kind)
           n == Len(file)
           E == Ends(kind, file, base)
           T == Table(kind, file, base)
           A == {p \in E : c <= p /\ p + w <= e}
<1>0. w \in 1 .. 2 /\ n \in Nat /\ w \in Int BY WidthFacts
<1>10. c \in Nat /\ base <= c /\ c < n BY TableFacts
<1>1. w \in 1 .. 2 /\ n \in Nat /\ c \in Nat /\ base <= c /\ c < n BY <1>0, <1>10
<1>2. /\ \A t \in T : t \in Nat /\ (t # base => t - w \in E)
      /\ \A p \in E : p + w < n => p + w \in T
  BY <1>1, TableFacts
<1>3. \A p \in E : p \in Nat /\ (c < p + w => c <= p) BY EndsFacts, Grid
<1>4. IsFiniteSet(A) /\ A \subseteq Int
  <2>1. IsFiniteSet(E) BY EndsFacts
  <2>2. \A p \in E : p \in Int BY <1>3
  <2>3. A \in SUBSET E OBVIOUS
  <2> HIDE DEF E, A
  <2> QED BY <2>1, <2>2, <2>3, FS_Subset
<1> DEFINE B == {p + w : p \in A}
<1>5. Cardinality(B) = Cardinality(A)
  <2> HIDE DEF A, w
  <2> QED BY <1>0, <1>4, CountShifted
<1>6. e < n OBVIOUS
<1> HIDE DEF w, n, E, T
<1>7. ASSUME NEW t \in B PROVE t \in T /\ c < t /\ t <= e
  <2>1. PICK p \in E : c <= p /\ p + w <= e /\ t = p + w OBVIOUS
  <2>2. p \in Nat BY <1>3
  <2>3. p + w < n /\ c < p + w BY <1>1, <1>6, <2>1, <2>2
  <2> QED BY <1>2, <2>1, <2>3
<1>8. ASSUME NEW t \in T, c < t, t <= e PROVE t \in B
  <2>1. t \in Nat /\ t # base BY <1>1, <1>2, <1>8
  <2> DEFINE p == t - w
  <2>2. p \in E BY <1>2, <2>1
  <2>3. p \in Nat BY <1>3, <2>2
  <2>4. p + w = t BY <1>1, <2>1
  <2> HIDE DEF p
  <2>5. c <= p BY <1>3, <1>8, <2>2, <2>4
  <2>6. p \in A BY <1>8, <2>2, <2>4, <2>5
  <2> QED BY <2>4, <2>6
<1> HIDE DEF B
<1>9. B = {t \in T : c < t /\ t <= e} BY <1>7, <1>8
<1> QED BY <1>5, <1>9 DEF w, E, T

LEMMA OnlyOne == \A a : (CHOOSE y \in {a} : TRUE) = a
OBVIOUS

\* What a line is read from: the file, or one that has grown.
SameSoFar(i, file, more) ==
    \A off \in Nat : Newlines(i.kind, more, i.base, off, i.len)
                       = Newlines(i.kind, file, i.base, off, i.len)

LEMMA LineStartIs ==
    ASSUME NEW i, NEW file \in Seq(Bytes), IndexIs(i, file), NEW s \in Table(i.kind, file, i.base),
           NEW more, SameSoFar(i, file, more)
    PROVE  LineStart(i, more, Rank(Table(i.kind, file, i.base), s)) = s
<1> DEFINE w == Width(i.kind)
           n == Len(file)
           E == Ends(i.kind, file, i.base)
           T == Table(i.kind, file, i.base)
           k == Rank(T, s)
           cp == CHOOSE c \in i.cps : c.line <= k /\ \A d \in i.cps : d.line <= k => d.line <= c.line
           nls == Newlines(i.kind, more, i.base, cp.off, i.len)
           p == CHOOSE p \in nls : Rank(nls, p) = k - cp.line - 1
<1>1. i.base \in Nat /\ i.len = n /\ w \in 1 .. 2 /\ n \in Nat BY WidthFacts DEF IndexIs
<1>0. s \in T OBVIOUS
<1>2. IsFiniteSet(T) /\ T \subseteq Int /\ \A t \in T : t \in Nat /\ i.base <= t /\ t < n
  BY <1>1, TableFacts
<1>3. /\ \A x : Rank(T, x) \in Nat
      /\ \A x \in T, y \in Int : x < y => Rank(T, x) < Rank(T, y)
      /\ \A x, y \in T : Rank(T, x) = Rank(T, y) => x = y
  <2> HIDE DEF T
  <2> QED BY <1>2, RankFacts
<1>4. cp \in i.cps /\ cp.line <= k
  <2> DEFINE L == {c.line : c \in {d \in i.cps : d.line <= k}}
  <2>1. \A c \in i.cps : c.off \in T /\ c.line = Rank(T, c.off) /\ c.line \in Nat
    BY <1>3 DEF IndexIs
  <2>2. PICK c \in i.cps : c.off = i.base BY DEF IndexIs
  <2>3. c.line <= k
    <3>1. i.base = s \/ i.base < s BY <1>1, <1>2
    <3>2. i.base < s => Rank(T, i.base) < k BY <1>2, <1>3, <2>1, <2>2
    <3> HIDE DEF T
    <3> QED BY <1>3, <2>1, <2>2, <3>1, <3>2
  <2>4. L \subseteq 0 .. k /\ L # {}
    <3>1. k \in Nat BY <1>3
    <3> HIDE DEF k
    <3> QED BY <2>1, <2>2, <2>3, <3>1
  <2>5. PICK m \in L : \A l \in L : l <= m
    <3>1. k \in Nat BY <1>3
    <3> HIDE DEF L, k
    <3> QED BY <2>4, <3>1, GreatestOf
  <2>6. PICK d \in i.cps : d.line <= k /\ d.line = m OBVIOUS
  <2>7. \A e \in i.cps : e.line <= k => e.line <= d.line BY <2>5, <2>6
  <2> HIDE DEF L, k
  <2> QED BY <2>6, <2>7
<1>5. cp.off \in T /\ cp.line = Rank(T, cp.off)
  <2> HIDE DEF cp
  <2> QED BY <1>4 DEF IndexIs
<1>6. LineStart(i, more, k) = IF k = cp.line THEN cp.off ELSE w + p
  BY OnlyOne DEF LineStart, Of
<1>7. cp.off <= s
  <2> HIDE DEF cp, T
  <2>1. cp.off \in Int /\ s \in Int BY <1>0, <1>2, <1>5
  <2>2. k \in Nat /\ cp.line \in Nat BY <1>3, <1>5
  <2>3. ~(s < cp.off)
    <3>1. s < cp.off => k < cp.line BY <1>0, <1>3, <1>5, <2>1
    <3> HIDE DEF k
    <3> QED BY <1>4, <2>2, <3>1
  <2> QED BY <2>1, <2>3
<1>8. CASE cp.off = s
  <2> HIDE DEF cp, p
  <2>1. k = cp.line BY <1>5, <1>8
  <2> QED BY <1>6, <1>8, <2>1
<1>9. CASE cp.off # s
  <2> DEFINE c == cp.off
             q == s - w
  <2>1. c \in Nat /\ s \in Nat /\ c < s /\ i.base <= c /\ s < n /\ s # i.base
    <3> HIDE DEF cp, T
    <3>1. cp.off \in Nat /\ s \in Nat /\ i.base <= cp.off /\ s < n BY <1>0, <1>2, <1>5
    <3> QED BY <1>1, <1>7, <1>9, <3>1
  <2>2. nls = {r \in E : c <= r /\ r + w <= n}
    <3>1. n <= n BY <1>1
    <3> HIDE DEF c, n
    <3>2. Newlines(i.kind, file, i.base, c, n) = {r \in E : c <= r /\ r + w <= n}
      BY <1>1, <2>1, <3>1, EndsFacts DEF n
    <3>3. Newlines(i.kind, more, i.base, c, i.len) = Newlines(i.kind, file, i.base, c, i.len)
      BY <2>1 DEF SameSoFar
    <3> QED BY <1>1, <3>2, <3>3 DEF c, n
  <2>3. q \in E BY <1>1, <2>1, TableFacts
  <2>4. \A r \in E : r \in Nat BY <1>1, EndsFacts
  <2>5. q + w = s BY <1>1, <2>1
  <2>6. c <= q
    <3> HIDE DEF cp, q
    <3> QED BY <1>1, <1>5, <2>1, <2>3, <2>5, Grid
  <2>7. q \in nls
    <3> HIDE DEF q, c, nls, E
    <3> QED BY <2>1, <2>2, <2>3, <2>5, <2>6
  <2>8. Rank(nls, q) = k - cp.line - 1
    <3> DEFINE e == s - 1
               A == {r \in E : c <= r /\ r + w <= e}
               B == {t \in T : c < t /\ t <= e}
               D == {t \in T : c <= t /\ t < s}
    <3>1. e \in Nat /\ e < n BY <2>1
    <3>2. Cardinality(A) = Cardinality(B)
      <4>1. c \in Table(i.kind, file, i.base) /\ e < Len(file) BY <1>5, <3>1
      <4> HIDE DEF c, e
      <4> QED BY <1>1, <3>1, <4>1, EndsBetween
    <3>3. Rank(nls, q) = Cardinality(A)
      <4>1. \A r \in E : (r + w <= n /\ r < q) <=> r + w <= e
        <5> TAKE r \in E
        <5>1. r \in Nat BY <2>4
        <5> HIDE DEF E, w, n, T, cp
        <5> QED BY <1>1, <2>1, <5>1
      <4>2. {r \in nls : r < q} = A BY <2>2, <4>1
      <4> QED BY <4>2 DEF Rank
    <3>4. D = B \cup {c} /\ c \notin B
      <4>1. \A t \in T : (c <= t /\ t < s) <=> (t = c \/ (c < t /\ t <= e)) BY <1>2, <2>1
      <4>2. c \in T BY <1>5
      <4>3. ~(c < c) BY <2>1
      <4> HIDE DEF T, c, e
      <4> QED BY <2>1, <4>1, <4>2, <4>3
    <3>5. Cardinality(D) = Cardinality(B) + 1 /\ Cardinality(B) \in Nat
      <4>1. IsFiniteSet(B)
        <5> HIDE DEF T
        <5> QED BY <1>2, FS_Subset
      <4> HIDE DEF B, D, c
      <4> QED BY <3>4, <4>1, FS_AddElement, FS_CardinalityType
    <3>6. k = Rank(T, c) + Cardinality(D)
      <4>1. c \in Int /\ s \in Int /\ c <= s BY <2>1
      <4> HIDE DEF c, T, cp, nls, p, q, D
      <4>2. Rank(T, s) = Rank(T, c) + Cardinality(Span(T, c, s)) BY <1>2, <4>1, RankSum
      <4> QED BY <4>2 DEF D, Span
    <3>7. k \in Nat /\ cp.line = Rank(T, c) /\ cp.line \in Nat BY <1>3, <1>5
    <3> HIDE DEF A, B, D, k, cp, T, nls, q, c
    <3> QED BY <3>2, <3>3, <3>5, <3>6, <3>7
  <2>9. p \in nls /\ Rank(nls, p) = Rank(nls, q)
    <3> HIDE DEF nls, k, cp, q
    <3> QED BY <2>7, <2>8
  <2>10. IsFiniteSet(nls) /\ nls \subseteq Int
    <3>1. IsFiniteSet(E) BY <1>1, EndsFacts
    <3> HIDE DEF E, nls
    <3>2. nls \in SUBSET E /\ nls \subseteq Int BY <2>2, <2>4
    <3> QED BY <3>1, <3>2, FS_Subset
  <2>11. p = q
    <3> HIDE DEF p, q, nls
    <3> QED BY <2>7, <2>9, <2>10, RankFacts
  <2>12. k # cp.line
    <3> HIDE DEF cp, T
    <3> QED BY <1>0, <1>3, <1>5, <1>9
  <2>13. w + q = s BY <1>1, <2>1
  <2>14. LineStart(i, more, k) = s
    <3> HIDE DEF p, q, k, cp
    <3> QED BY <1>6, <2>11, <2>12, <2>13
  <2> QED BY <2>14
<1> QED BY <1>8, <1>9

\* The number of lines that begin at a byte or before it, less one, is the
\* line of the byte.
LEMMA LineOfByteIs ==
    ASSUME NEW i, NEW file \in Seq(Bytes), IndexIs(i, file), NEW b \in i.base .. (Len(file) - 1)
    PROVE  LineOfByte(i, file, b) = Cardinality({s \in Table(i.kind, file, i.base) : s <= b}) - 1
<1> DEFINE w == Width(i.kind)
           n == Len(file)
           E == Ends(i.kind, file, i.base)
           T == Table(i.kind, file, i.base)
           below == {c \in i.cps : c.off <= b}
           cp == CHOOSE c \in below : \A d \in below : d.line <= c.line
           c == cp.off
<1>1. i.base \in Nat /\ i.len = n /\ w \in 1 .. 2 /\ n \in Nat BY WidthFacts DEF IndexIs
<1>2. b \in Nat /\ i.base <= b /\ b < n /\ i.base < n
  <2> HIDE DEF n
  <2>1. b \in i.base .. (n - 1) BY DEF n
  <2> QED BY <1>1, <2>1
<1>3. IsFiniteSet(T) /\ T \subseteq Int /\ \A t \in T : t \in Nat /\ i.base <= t /\ t < n
  BY <1>1, TableFacts
<1>4. i.base \in T BY <1>1, <1>2, TableFacts
<1>5. \A x : Rank(T, x) \in Nat
  <2> HIDE DEF T
  <2> QED BY <1>3, RankFacts
<1>6. \A d \in i.cps : d.off \in T /\ d.line = Rank(T, d.off) /\ d.line \in Nat
  <2> HIDE DEF T
  <2> QED BY <1>5 DEF IndexIs, T
<1>7. PICK first \in i.cps : first.off = i.base BY <1>4 DEF IndexIs
<1>8. cp \in below
  <2> DEFINE L == {d.line : d \in below}
             m == Cardinality(T)
  <2>1. first \in below BY <1>2, <1>7
  <2>2. m \in Nat /\ \A t \in T : Rank(T, t) < m
    <3> HIDE DEF T
    <3> QED BY <1>3, RankFacts, FS_CardinalityType
  <2>3. L \subseteq 0 .. m /\ L # {}
    <3> HIDE DEF T, m
    <3> QED BY <1>6, <2>1, <2>2
  <2>4. PICK k \in L : \A l \in L : l <= k
    <3> HIDE DEF L, m
    <3> QED BY <2>2, <2>3, GreatestOf
  <2>5. PICK d \in below : d.line = k OBVIOUS
  <2>6. \A e \in below : e.line <= d.line BY <2>4, <2>5
  <2> HIDE DEF L, m
  <2> QED BY <2>5, <2>6
<1>9. c \in T /\ cp.line = Rank(T, c) /\ c <= b /\ c \in Nat
  <2>1. cp \in i.cps /\ cp.off <= b
    <3> HIDE DEF cp
    <3> QED BY <1>8
  <2> HIDE DEF cp, T
  <2> QED BY <1>3, <1>6, <2>1
<1>10. LineOfByte(i, file, b) = cp.line + Cardinality(Newlines(i.kind, file, i.base, c, b))
  <2>1. i.cps # {} BY <1>7
  <2>2. ~(b < i.base) /\ ~(b > i.len) BY <1>1, <1>2
  <2> QED BY <2>1, <2>2 DEF LineOfByte
<1> HIDE DEF cp
<1> DEFINE A == {p \in E : c <= p /\ p + w <= b}
           B == {t \in T : c < t /\ t <= b}
           D == {t \in T : t <= b}
           e == b + 1
<1>11. Newlines(i.kind, file, i.base, c, b) = A
  <2>1. i.base <= c /\ b <= n BY <1>2, <1>3, <1>9
  <2> HIDE DEF c, n
  <2> QED BY <1>1, <1>2, <1>9, <2>1, EndsFacts DEF n
<1>12. Cardinality(A) = Cardinality(B)
  <2>1. c \in Table(i.kind, file, i.base) /\ b < Len(file) BY <1>2, <1>9
  <2> HIDE DEF c
  <2> QED BY <1>1, <1>2, <2>1, EndsBetween
<1> HIDE DEF c, T
<1>0. b \in Nat /\ c \in Nat /\ c <= b /\ \A t \in T : t \in Nat BY <1>2, <1>3, <1>9
<1>13. D = {t \in T : t < e}
  <2>1. \A t \in T : t <= b <=> t < e BY <1>0
  <2> HIDE DEF e
  <2> QED BY <2>1
<1>14. {t \in T : c <= t /\ t < e} = B \cup {c} /\ c \notin B
  <2>1. ASSUME NEW t \in T PROVE (c <= t /\ t < e) <=> (t = c \/ (c < t /\ t <= b))
    <3>1. t \in Nat BY <1>0
    <3> QED BY <1>0, <3>1
  <2>2. ~(c < c) BY <1>0
  <2> HIDE DEF e
  <2> QED BY <1>9, <2>1, <2>2
<1>15. Rank(T, e) = Rank(T, c) + Cardinality(Span(T, c, e))
  <2>1. c \in Int /\ e \in Int /\ c <= e BY <1>2, <1>9
  <2> HIDE DEF e
  <2> QED BY <1>3, <2>1, RankSum
<1>16. Cardinality(B \cup {c}) = Cardinality(B) + 1 /\ Cardinality(B) \in Nat
  <2>1. IsFiniteSet(B)
    <3>1. B \in SUBSET T OBVIOUS
    <3> HIDE DEF B
    <3> QED BY <1>3, <3>1, FS_Subset
  <2> HIDE DEF B
  <2> QED BY <1>14, <2>1, FS_AddElement, FS_CardinalityType
<1>17. Rank(T, e) = Cardinality(D) BY <1>13 DEF Rank
<1>18. cp.line \in Nat BY <1>5, <1>9
<1>20. Span(T, c, e) = B \cup {c} BY <1>14 DEF Span
<1> HIDE DEF A, B, D, e
<1>19. LineOfByte(i, file, b) = Cardinality(D) - 1
  BY <1>9, <1>10, <1>11, <1>12, <1>15, <1>16, <1>17, <1>18, <1>20
<1> QED BY <1>19 DEF D, T

LEMMA IndexReads ==
    ASSUME NEW i, NEW file \in Seq(Bytes), IndexIs(i, file)
    PROVE  Indexes(i, file)
<1> DEFINE T == Table(i.kind, file, i.base)
<1>1. i.count = Cardinality(T) BY DEF IndexIs
<1>2. \A s \in T : LineStart(i, file, Rank(T, s)) = s
  <2>1. SameSoFar(i, file, file) BY DEF SameSoFar
  <2> QED BY <2>1, LineStartIs
<1>3. \A b \in i.base .. Len(file) - 1 : LineOfByte(i, file, b) = Cardinality({s \in T : s <= b}) - 1
  BY LineOfByteIs
<1> HIDE DEF T
<1> QED BY <1>1, <1>2, <1>3 DEF Indexes, T

-----------------------------------------------------------------------------
(* The file grows, and its index with it.                                   *)

\* What was a terminator stays one, and so with the lines.
LEMMA EndsGrow ==
    ASSUME NEW kind \in Kinds, NEW file \in Seq(Bytes), NEW bytes \in Seq(Bytes), NEW base \in Nat
    PROVE  LET more == file \o bytes w == Width(kind) IN
           /\ more \in Seq(Bytes) /\ Len(more) = Len(file) + Len(bytes)
           /\ \A off \in Nat : Newlines(kind, more, base, off, Len(file))
                                 = Newlines(kind, file, base, off, Len(file))
           /\ Ends(kind, file, base) = {p \in Ends(kind, more, base) : p + w <= Len(file)}
<1> DEFINE more == file \o bytes
           w == Width(kind)
           n == Len(file)
           m == Len(more)
<1>1. more \in Seq(Bytes) /\ m = n + Len(bytes) /\ Len(bytes) \in Nat /\ n \in Nat /\ w \in 1 .. 2
  BY WidthFacts
<1>2. \A k \in 1 .. n : more[k] = file[k] OBVIOUS
<1>3. ASSUME NEW p \in Nat, p + w <= n PROVE UnitAt(kind, more, p) = UnitAt(kind, file, p)
  <2>1. CASE kind = "wide"
    <3>1. w = 2 BY <2>1 DEF Width
    <3> HIDE DEF n, w, more
    <3>2. p + 1 \in 1 .. n /\ p + 2 \in 1 .. n BY <1>1, <1>3, <3>1
    <3> QED BY <1>2, <2>1, <3>2 DEF UnitAt
  <2>2. CASE kind # "wide"
    <3>1. w = 1 BY <2>2 DEF Width
    <3> HIDE DEF n, w, more
    <3>2. p + 1 \in 1 .. n BY <1>1, <1>3, <3>1
    <3> QED BY <1>2, <2>2, <3>2 DEF UnitAt
  <2> QED BY <2>1, <2>2
<1>4. ASSUME NEW off \in Nat
      PROVE  Newlines(kind, more, base, off, n) = Newlines(kind, file, base, off, n)
  <2>1. \A p \in off .. n - w : p \in Nat /\ p + w <= n
    <3> HIDE DEF n, w
    <3> QED BY <1>1
  <2>2. \A p \in off .. n - w : UnitAt(kind, more, p) = UnitAt(kind, file, p) BY <1>3, <2>1
  <2> QED BY <2>2 DEF Newlines
<1>5. Ends(kind, file, base) = {p \in Ends(kind, more, base) : p + w <= n}
  <2>1. Newlines(kind, more, base, base, n) =
           {p \in Ends(kind, more, base) : base <= p /\ p + w <= n}
    <3>1. base <= base /\ n <= m BY <1>1
    <3> HIDE DEF n, more
    <3> QED BY <1>1, <3>1, EndsFacts, SMTT(30)
  <2>2. \A p \in Ends(kind, more, base) : base <= p
    <3> HIDE DEF more
    <3> QED BY <1>1, EndsFacts
  <2>3. Ends(kind, file, base) = Newlines(kind, more, base, base, n) BY <1>4 DEF Ends
  <2> QED BY <2>1, <2>2, <2>3
<1> QED BY <1>1, <1>4, <1>5

LEMMA TableGrows ==
    ASSUME NEW kind \in Kinds, NEW file \in Seq(Bytes), NEW bytes \in Seq(Bytes),
           NEW base \in Nat, base < Len(file)
    PROVE  Table(kind, file, base) = {t \in Table(kind, file \o bytes, base) : t < Len(file)}
<1> DEFINE more == file \o bytes
           w == Width(kind)
           n == Len(file)
           m == Len(more)
           E == Ends(kind, file, base)
           F == Ends(kind, more, base)
           T == Table(kind, file, base)
           U == Table(kind, more, base)
<1>1. more \in Seq(Bytes) /\ m = n + Len(bytes) /\ E = {p \in F : p + w <= n} BY EndsGrow
<1>2. Len(bytes) \in Nat /\ n \in Nat /\ w \in 1 .. 2 /\ base < n BY WidthFacts
<1>3. \A p \in F : p \in Nat
  <2> HIDE DEF more
  <2> QED BY <1>1, EndsFacts
<1>4. /\ \A s \in T : s \in Nat /\ s < n /\ (s # base => s - w \in E)
      /\ base \in T /\ \A p \in E : p + w < n => p + w \in T
  BY <1>2, TableFacts
<1>5. /\ \A s \in U : s \in Nat /\ (s # base => s - w \in F)
      /\ base \in U /\ \A p \in F : p + w < m => p + w \in U
  <2>1. base < m
    <3> HIDE DEF m, n
    <3> QED BY <1>1, <1>2
  <2> HIDE DEF more
  <2> QED BY <1>1, <2>1, TableFacts
<1> HIDE DEF w, n, m, E, F, T, U, more
<1>6. ASSUME NEW t \in T PROVE t \in U /\ t < n
  <2>1. CASE t = base BY <1>2, <1>5, <2>1
  <2>2. CASE t # base
    <3> DEFINE p == t - w
    <3>1. p \in E /\ t < n /\ t \in Nat BY <1>4, <2>2
    <3>2. p \in F BY <1>1, <3>1
    <3>3. p + w = t /\ p + w < m BY <1>1, <1>2, <3>1
    <3> HIDE DEF p
    <3> QED BY <1>5, <3>1, <3>2, <3>3
  <2> QED BY <2>1, <2>2
<1>7. ASSUME NEW t \in U, t < n PROVE t \in T
  <2>1. CASE t = base BY <1>4, <2>1
  <2>2. CASE t # base
    <3> DEFINE p == t - w
    <3>1. p \in F /\ t \in Nat BY <1>5, <2>2
    <3>2. p + w = t /\ p + w <= n BY <1>2, <1>7, <3>1
    <3> HIDE DEF p
    <3>3. p \in E BY <1>1, <3>1, <3>2
    <3> QED BY <1>4, <1>7, <3>2, <3>3
  <2> QED BY <2>1, <2>2
<1>8. T = {t \in U : t < n} BY <1>6, <1>7
<1> QED BY <1>8 DEF T, U, n, more

\* The half of TableFacts that is about the table alone.
LEMMA TableBounds ==
    ASSUME NEW kind, NEW file \in Seq(Bytes), NEW base \in Nat
    PROVE  /\ IsFiniteSet(Table(kind, file, base)) /\ Table(kind, file, base) \subseteq Int
           /\ \A s \in Table(kind, file, base) : s \in Nat /\ base <= s /\ s < Len(file)
           /\ base < Len(file) => base \in Table(kind, file, base)
           /\ base >= Len(file) => Table(kind, file, base) = {}
<1>1. /\ IsFiniteSet(Table(kind, file, base))
      /\ \A s \in Table(kind, file, base) : s \in Nat /\ base <= s /\ s < Len(file)
      /\ base < Len(file) => base \in Table(kind, file, base)
      /\ base >= Len(file) => Table(kind, file, base) = {}
  BY TableFacts
<1>2. Table(kind, file, base) \subseteq Int BY <1>1
<1> QED BY <1>1, <1>2

\* Lines are counted from the last one of what was there, which is a line
\* still; or from the base, of a file that had none.
LEMMA LastLine ==
    ASSUME NEW i, NEW file \in Seq(Bytes), IndexIs(i, file), i.base <= Len(file),
           NEW bytes \in Seq(Bytes), bytes # <<>>
    PROVE  LET more == file \o bytes
               T == Table(i.kind, file, i.base)
               U == Table(i.kind, more, i.base)
               last == IF i.count = 0 THEN 0 ELSE i.count - 1
               from == IF i.count = 0 THEN i.base ELSE LineStart(i, more, last)
           IN /\ last \in Nat /\ from \in U /\ Rank(U, from) = last
              /\ (T # {} => from \in T) /\ (last = 0 => from = i.base)
              /\ i.base \in U
              /\ \A t \in T : t \in U /\ Rank(U, t) = Rank(T, t)
<1> DEFINE more == file \o bytes
           n == Len(file)
           m == Len(more)
           T == Table(i.kind, file, i.base)
           U == Table(i.kind, more, i.base)
           last == IF i.count = 0 THEN 0 ELSE i.count - 1
           from == IF i.count = 0 THEN i.base ELSE LineStart(i, more, last)
<1>1. i.kind \in Kinds /\ i.base \in Nat /\ i.len = n /\ i.count = Cardinality(T) /\ n \in Nat
  BY DEF IndexIs
<1>2. more \in Seq(Bytes) /\ m > n /\ m \in Nat
  <2>1. Len(bytes) \in Nat /\ Len(bytes) # 0 /\ m = n + Len(bytes) OBVIOUS
  <2>2. more \in Seq(Bytes) OBVIOUS
  <2> HIDE DEF m, n
  <2> QED BY <1>1, <2>1, <2>2
<1>3. SameSoFar(i, file, more)
  <2>1. \A off \in Nat : Newlines(i.kind, more, i.base, off, n) = Newlines(i.kind, file, i.base, off, n)
    BY <1>1, EndsGrow
  <2> QED BY <1>1, <2>1 DEF SameSoFar
<1>4. IsFiniteSet(T) /\ T \subseteq Int /\ \A t \in T : t \in Nat /\ i.base <= t /\ t < n
  BY <1>1, TableBounds
<1>5. i.base < m /\ i.base <= n
  <2> HIDE DEF m
  <2> QED BY <1>1, <1>2
<1>6. IsFiniteSet(U) /\ U \subseteq Int /\ i.base \in U /\ \A t \in U : i.base <= t
  <2>1. i.base < Len(more) BY <1>5
  <2> HIDE DEF more
  <2> QED BY <1>1, <1>2, <2>1, TableBounds
<1>7. CASE T = {}
  <2>1. i.count = 0 BY <1>1, <1>7, FS_EmptySet
  <2>2. last = 0 /\ from = i.base BY <2>1
  <2>3. Rank(U, i.base) = 0
    <3>1. \A t \in U : ~(t < i.base)
      <4> HIDE DEF U
      <4> QED BY <1>1, <1>6
    <3>2. {t \in U : t < i.base} = {} BY <3>1
    <3> QED BY <3>2, FS_EmptySet DEF Rank
  <2> HIDE DEF U, last, from, T
  <2>4. /\ last \in Nat /\ from \in U /\ Rank(U, from) = last
        /\ (T # {} => from \in T) /\ (last = 0 => from = i.base)
        /\ i.base \in U
        /\ \A t \in T : t \in U /\ Rank(U, t) = Rank(T, t)
    BY <1>6, <1>7, <2>2, <2>3
  <2> QED BY <2>4 DEF U, last, from, T, more
<1>8. CASE T # {}
  <2>1. i.base < n
    <3>1. \E t \in T : t \in Nat /\ i.base <= t /\ t < n BY <1>4, <1>8
    <3> HIDE DEF T, n
    <3> QED BY <1>1, <3>1
  <2>2. T = {t \in U : t < n} BY <1>1, <2>1, TableGrows
  <2>3. \A t \in T : Rank(U, t) = Rank(T, t)
    <3> TAKE t \in T
    <3>1. \A z \in U : z < t => z < n
      <4>1. t < n /\ t \in Nat /\ n \in Nat /\ \A z \in U : z \in Int BY <1>1, <1>4, <1>6
      <4> HIDE DEF T, U, n
      <4> QED BY <4>1
    <3>2. {z \in U : z < t} = {z \in T : z < t} BY <2>2, <3>1
    <3> QED BY <3>2 DEF Rank
  <2>4. PICK g \in T : \A t \in T : t <= g
    <3>1. T \subseteq 0 .. n
      <4> HIDE DEF T, n
      <4> QED BY <1>1, <1>4
    <3> HIDE DEF T, n
    <3> QED BY <1>1, <1>8, <3>1, GreatestOf
  <2>5. Rank(T, g) = Cardinality(T) - 1 /\ Cardinality(T) \in Nat /\ Rank(T, g) \in Nat
    <3> DEFINE A == {t \in T : t < g}
    <3> HIDE DEF T
    <3>1. T = A \cup {g} /\ g \notin A
      <4>1. \A t \in T : t \in Int /\ g \in Int /\ t <= g BY <1>4, <2>4
      <4>2. \A t \in T : t < g \/ t = g BY <4>1
      <4>3. ~(g < g) BY <4>1
      <4> QED BY <4>2, <4>3
    <3>2. IsFiniteSet(A) BY <1>4, FS_Subset
    <3>3. Cardinality(T) = Cardinality(A) + 1 /\ Cardinality(A) \in Nat
      <4> HIDE DEF A
      <4> QED BY <3>1, <3>2, FS_AddElement, FS_CardinalityType
    <3>4. Rank(T, g) = Cardinality(A) BY DEF Rank
    <3> HIDE DEF A
    <3> QED BY <3>3, <3>4
  <2>6. i.count # 0 /\ last = Rank(T, g)
    <3> HIDE DEF T
    <3>1. Cardinality(T) # 0 BY <2>5
    <3> QED BY <1>1, <2>5, <3>1
  <2>7. from = g
    <3>1. LineStart(i, more, Rank(T, g)) = g BY <1>3, LineStartIs
    <3> HIDE DEF last, T
    <3> QED BY <2>6, <3>1
  <2>8. last = 0 => from = i.base
    <3> HIDE DEF T, last, from, U
    <3>0. i.base \in T BY <1>6, <2>1, <2>2
    <3>1. i.base = g \/ i.base < g BY <1>1, <1>4
    <3>2. i.base < g => Rank(T, i.base) < Rank(T, g) BY <1>4, <3>0, RankFacts
    <3>3. Rank(T, i.base) \in Nat BY <1>4, RankFacts
    <3> QED BY <2>5, <2>6, <2>7, <3>1, <3>2, <3>3
  <2> HIDE DEF U, last, from, T
  <2>9. /\ last \in Nat /\ from \in U /\ Rank(U, from) = last
        /\ (T # {} => from \in T) /\ (last = 0 => from = i.base)
        /\ i.base \in U
        /\ \A t \in T : t \in U /\ Rank(U, t) = Rank(T, t)
    BY <1>6, <2>2, <2>3, <2>5, <2>6, <2>7, <2>8
  <2> QED BY <2>9 DEF U, last, from, T, more
<1> QED BY <1>7, <1>8

\* The first line has the number 0.
LEMMA RankOfBase ==
    ASSUME NEW S, NEW base \in Int, \A t \in S : t \in Int /\ base <= t
    PROVE  Rank(S, base) = 0
<1>1. \A t \in S : ~(t < base) OBVIOUS
<1>2. {t \in S : t < base} = {} BY <1>1
<1> QED BY <1>2, FS_EmptySet DEF Rank

\* The lines from one on, numbered from it.
LEMMA RankFrom ==
    ASSUME NEW U, IsFiniteSet(U), U \subseteq Int, NEW from \in U, NEW m \in Int,
           \A t \in U : t < m
    PROVE  LET starts == Span(U, from, m) IN
           /\ Cardinality(U) = Rank(U, from) + Cardinality(starts)
           /\ \A s \in starts : Rank(U, s) = Rank(U, from) + Rank(starts, s)
<1> DEFINE starts == {t \in U : from <= t /\ t < m}
<1>0. from \in Int /\ from < m /\ from <= m /\ \A t \in U : t \in Int OBVIOUS
<1>1. Cardinality(U) = Rank(U, from) + Cardinality(starts)
  <2>1. Rank(U, m) = Rank(U, from) + Cardinality(Span(U, from, m)) BY <1>0, RankSum
  <2>2. Span(U, from, m) = starts BY DEF Span
  <2>3. {t \in U : t < m} = U OBVIOUS
  <2>4. Rank(U, m) = Cardinality(U) BY <2>3 DEF Rank
  <2> HIDE DEF starts
  <2> QED BY <2>1, <2>2, <2>4
<1>2. ASSUME NEW s \in starts PROVE Rank(U, s) = Rank(U, from) + Rank(starts, s)
  <2>1. s \in Int /\ from <= s /\ s < m BY <1>0
  <2>2. Rank(U, s) = Rank(U, from) + Cardinality(Span(U, from, s)) BY <1>0, <2>1, RankSum
  <2>3. \A z \in U : z < s => z < m BY <1>0, <2>1
  <2>4. {z \in starts : z < s} = Span(U, from, s) BY <2>3 DEF Span
  <2>5. Rank(starts, s) = Cardinality(Span(U, from, s)) BY <2>4 DEF Rank
  <2> HIDE DEF starts
  <2> QED BY <2>2, <2>5
<1>3. starts = Span(U, from, m) BY DEF Span
<1> HIDE DEF starts
<1> QED BY <1>1, <1>2, <1>3

LEMMA ExtendedIs ==
    ASSUME NEW i, NEW file \in Seq(Bytes), IndexIs(i, file), i.base <= Len(file),
           NEW bytes \in Seq(Bytes)
    PROVE  /\ IndexIs(Extended(i, file \o bytes), file \o bytes)
           /\ Extended(i, file \o bytes).kind = i.kind
           /\ Extended(i, file \o bytes).base = i.base
<1> DEFINE more == file \o bytes
           n == Len(file)
           m == Len(more)
           T == Table(i.kind, file, i.base)
           U == Table(i.kind, more, i.base)
           last == IF i.count = 0 THEN 0 ELSE i.count - 1
           from == IF i.count = 0 THEN i.base ELSE LineStart(i, more, last)
           starts == Starts(i.kind, more, i.base, from, m)
           again == {[line |-> last + Rank(starts, s), off |-> s] : s \in starts}
           cps == {c \in i.cps : c.line < last} \cup {c \in again : c.line % i.stride = 0}
           j == [kind |-> i.kind, base |-> i.base, stride |-> i.stride, len |-> m,
                 cps |-> cps, count |-> last + Cardinality(starts)]
<1>1. /\ i.kind \in Kinds /\ i.base \in Nat /\ i.stride \in Nat \ {0} /\ i.len = n
      /\ i.count = Cardinality(T) /\ n \in Nat
      /\ \A c \in i.cps : c.off \in T /\ c.line = Rank(T, c.off)
      /\ T # {} => \E c \in i.cps : c.off = i.base
  BY DEF IndexIs
<1>2. more \in Seq(Bytes) /\ m = n + Len(bytes) /\ m \in Nat /\ Len(bytes) \in Nat OBVIOUS
<1>3. CASE bytes = <<>>
  <2>1. more = file /\ m <= i.len BY <1>1, <1>3
  <2>2. Extended(i, more) = i BY <2>1 DEF Extended
  <2> HIDE DEF more
  <2> QED BY <2>1, <2>2 DEF more
<1>4. CASE bytes # <<>>
  <2>1. m > n
    <3>1. Len(bytes) # 0 BY <1>4
    <3> HIDE DEF m, n
    <3> QED BY <1>1, <1>2, <3>1
  <2>2. Extended(i, more) = j
    <3>1. i = [kind |-> i.kind, base |-> i.base, stride |-> i.stride, len |-> i.len,
               cps |-> i.cps, count |-> i.count] BY DEF IndexIs
    <3>2. ~(m <= i.len)
      <4> HIDE DEF m, n
      <4> QED BY <1>1, <1>2, <2>1
    <3>3. Extended(i, more) = [i EXCEPT !.cps = cps, !.count = last + Cardinality(starts), !.len = m]
      BY <3>2 DEF Extended
    <3> HIDE DEF cps, last, starts, m
    <3> QED BY <3>1, <3>3
  <2>3. /\ last \in Nat /\ from \in U /\ Rank(U, from) = last
        /\ (last = 0 => from = i.base) /\ i.base \in U
        /\ \A t \in T : t \in U /\ Rank(U, t) = Rank(T, t)
    BY <1>4, LastLine
  <2>4. IsFiniteSet(U) /\ U \subseteq Int /\ \A t \in U : t \in Nat /\ i.base <= t /\ t < m
    <3> HIDE DEF more
    <3> QED BY <1>1, <1>2, TableBounds
  <2>5. starts = {t \in U : from <= t /\ t < m}
    <3>1. from \in U /\ from < m /\ m <= m BY <2>3, <2>4, <1>2
    <3> HIDE DEF from, m, more
    <3> QED BY <1>1, <1>2, <3>1, StartsAre DEF m
  <2> HIDE DEF from, m, U, T, more, starts, last
  <2>6. /\ Cardinality(U) = Rank(U, from) + Cardinality(starts)
        /\ \A s \in starts : Rank(U, s) = Rank(U, from) + Rank(starts, s)
    <3>1. m \in Int /\ \A t \in U : t < m BY <1>2, <2>4
    <3>2. starts = Span(U, from, m) BY <2>5 DEF Span
    <3> QED BY <2>3, <2>4, <3>1, <3>2, RankFrom
  <2>7. j.count = Cardinality(U) BY <2>3, <2>6
  <2>8. \A c \in cps : c.off \in U /\ c.line = Rank(U, c.off)
    <3>1. \A c \in i.cps : c.off \in U /\ c.line = Rank(U, c.off) BY <1>1, <2>3
    <3>2. ASSUME NEW c \in again PROVE c.off \in U /\ c.line = Rank(U, c.off)
      <4>1. PICK s \in starts : c = [line |-> last + Rank(starts, s), off |-> s] OBVIOUS
      <4>2. c.off = s /\ c.line = last + Rank(starts, s) BY <4>1
      <4>3. s \in U BY <2>5
      <4> QED BY <2>3, <2>6, <4>2, <4>3
    <3> HIDE DEF again
    <3> QED BY <3>1, <3>2
  <2>9. \E c \in cps : c.off = i.base
    <3>0. Rank(U, i.base) = 0
      <4>1. \A t \in U : t \in Int /\ i.base <= t BY <2>4
      <4> QED BY <1>1, <4>1, RankOfBase
    <3>1. CASE last = 0
      <4>1. from = i.base /\ i.base \in starts
        <5>1. from = i.base BY <2>3, <3>1
        <5>2. from <= from /\ from < m BY <2>3, <2>4
        <5> QED BY <2>3, <2>5, <5>1, <5>2
      <4> DEFINE c == [line |-> last + Rank(starts, i.base), off |-> i.base]
      <4>2. c \in again BY <4>1
      <4>3. c.line = 0
        <5>1. Rank(U, i.base) = last + Rank(starts, i.base) BY <2>3, <2>6, <4>1
        <5> QED BY <3>0, <5>1
      <4>4. c.line % i.stride = 0
        <5>1. 0 % i.stride = 0 BY <1>1
        <5> QED BY <4>3, <5>1
      <4>5. c.off = i.base OBVIOUS
      <4> HIDE DEF c, again
      <4> QED BY <4>2, <4>4, <4>5
    <3>2. CASE last # 0
      <4>1. T # {}
        <5>1. i.count # 0 BY <3>2 DEF last
        <5> QED BY <1>1, <5>1, FS_EmptySet
      <4>2. PICK c \in i.cps : c.off = i.base BY <1>1, <4>1
      <4>3. c.line = 0 BY <1>1, <2>3, <3>0, <4>2
      <4>4. c.line < last BY <2>3, <3>2, <4>3
      <4> HIDE DEF again
      <4> QED BY <4>2, <4>4
    <3> QED BY <3>1, <3>2
  <2> HIDE DEF cps
  <2>10. IndexIs(j, more)
    <3>1. /\ j.kind = i.kind /\ j.base = i.base /\ j.stride = i.stride /\ j.len = m /\ j.cps = cps
          /\ j = [kind |-> j.kind, base |-> j.base, stride |-> j.stride, len |-> j.len,
                  cps |-> j.cps, count |-> j.count]
      OBVIOUS
    <3> HIDE DEF j
    <3> QED BY <1>1, <2>7, <2>8, <2>9, <3>1 DEF IndexIs, m, U
  <2>11. j.kind = i.kind /\ j.base = i.base OBVIOUS
  <2> HIDE DEF j
  <2> QED BY <2>2, <2>10, <2>11 DEF more
<1> QED BY <1>3, <1>4

-----------------------------------------------------------------------------
(* The file is indexed in chunks.                                          *)

\* Of chunks that begin at the lines begins: the end of one, its lines, and
\* the lines of some of them.
ChunkEnd(begins, len, s) ==
    IF \E t \in begins : t > s THEN Least({t \in begins : t > s}) ELSE len
ChunkLines(T, begins, len, s) == {t \in T : s <= t /\ t < ChunkEnd(begins, len, s)}
LinesOf(T, begins, len, B) == UNION {ChunkLines(T, begins, len, s) : s \in B}
Below(S, x) == {y \in S : y < x}

LEMMA LeastIs ==
    ASSUME NEW S, S \subseteq Nat, S # {}
    PROVE  Least(S) \in S /\ \A y \in S : Least(S) <= y
BY LeastOf DEF Least

\* The chunks before a line hold the lines before it, and all of them hold
\* all lines.
LEMMA ChunksCover ==
    ASSUME NEW T, NEW len \in Nat, \A t \in T : t \in Nat /\ t < len,
           NEW begins, begins \subseteq T, NEW base \in begins, \A t \in T : base <= t
    PROVE  /\ \A s \in begins : ChunkEnd(begins, len, s) \in Nat
                                /\ s < ChunkEnd(begins, len, s) /\ ChunkEnd(begins, len, s) <= len
           /\ \A s \in begins : LinesOf(T, begins, len, Below(begins, s)) = Below(T, s)
           /\ LinesOf(T, begins, len, begins) = T
<1> DEFINE end(s) == ChunkEnd(begins, len, s)
<1>0. \A s \in begins : s \in Nat /\ s \in T /\ s < len OBVIOUS
<1>1. ASSUME NEW s \in begins
      PROVE  /\ end(s) \in Nat /\ s < end(s) /\ end(s) <= len
             /\ \A t \in begins : s < t => end(s) <= t
             /\ end(s) \in begins \/ end(s) = len
  <2> DEFINE S == {t \in begins : t > s}
  <2>1. CASE \E t \in begins : t > s
    <3>1. S \subseteq Nat /\ S # {} BY <1>0, <2>1
    <3>2. Least(S) \in S /\ \A y \in S : Least(S) <= y
      <4> HIDE DEF S
      <4> QED BY <3>1, LeastIs
    <3>3. end(s) = Least(S) BY <2>1 DEF ChunkEnd
    <3>4. \A t \in begins : s < t => t \in S BY <1>0
    <3>5. end(s) \in begins /\ end(s) > s BY <3>2, <3>3
    <3>6. end(s) \in Nat /\ end(s) <= len BY <1>0, <3>5
    <3> HIDE DEF S, end
    <3> QED BY <1>0, <3>2, <3>3, <3>4, <3>5, <3>6
  <2>2. CASE ~(\E t \in begins : t > s)
    <3>1. end(s) = len BY <2>2 DEF ChunkEnd
    <3>2. \A t \in begins : ~(s < t) BY <1>0, <2>2
    <3> HIDE DEF S, end
    <3> QED BY <1>0, <3>1, <3>2
  <2> QED BY <2>1, <2>2
<1>2. ASSUME NEW x \in T
      PROVE  \E u \in begins : u <= x /\ x \in ChunkLines(T, begins, len, u)
  <2> DEFINE Q == {u \in begins : u <= x}
  <2>1. Q \subseteq 0 .. len /\ Q # {} BY <1>0
  <2>2. PICK u \in Q : \A v \in Q : v <= u
    <3> HIDE DEF Q
    <3> QED BY <2>1, GreatestOf
  <2>3. u \in begins /\ u <= x /\ \A v \in begins : v <= x => v <= u BY <2>2
  <2>4. x < end(u)
    <3>1. x \in Nat /\ x < len /\ u \in Nat /\ end(u) \in Nat /\ u < end(u) BY <1>0, <1>1, <2>3
    <3>2. end(u) \in begins \/ end(u) = len BY <1>1, <2>3
    <3> HIDE DEF end, Q
    <3> QED BY <2>3, <3>1, <3>2
  <2> QED BY <2>3, <2>4 DEF ChunkLines
<1>3. ASSUME NEW s \in begins
      PROVE  LinesOf(T, begins, len, Below(begins, s)) = Below(T, s)
  <2>1. ASSUME NEW u \in Below(begins, s), NEW t \in ChunkLines(T, begins, len, u)
        PROVE  t \in Below(T, s)
    <3>1. u \in begins /\ u < s BY DEF Below
    <3>2. t \in T /\ t < end(u) BY DEF ChunkLines
    <3>3. end(u) <= s /\ end(u) \in Nat /\ s \in Nat /\ t \in Nat BY <1>0, <1>1, <3>1, <3>2
    <3> HIDE DEF end
    <3>4. t < s BY <3>2, <3>3
    <3> QED BY <3>2, <3>4 DEF Below
  <2>2. ASSUME NEW t \in Below(T, s)
        PROVE  \E u \in Below(begins, s) : t \in ChunkLines(T, begins, len, u)
    <3>1. t \in T /\ t < s BY DEF Below
    <3>2. PICK u \in begins : u <= t /\ t \in ChunkLines(T, begins, len, u) BY <1>2, <3>1
    <3>3. u < s BY <1>0, <3>1, <3>2
    <3> QED BY <3>2, <3>3 DEF Below
  <2> QED BY <2>1, <2>2 DEF LinesOf
<1>4. LinesOf(T, begins, len, begins) = T
  <2>1. \A u \in begins : \A t \in ChunkLines(T, begins, len, u) : t \in T BY DEF ChunkLines
  <2> QED BY <1>2, <2>1 DEF LinesOf
<1> HIDE DEF end
<1>5. \A s \in begins : end(s) \in Nat /\ s < end(s) /\ end(s) <= len BY <1>1
<1> QED BY <1>3, <1>4, <1>5 DEF end

\* A chunk begins at a line: at the base, or behind a terminator.
LEMMA SnappedIs ==
    ASSUME NEW kind, kind # "wide", NEW file \in Seq(Bytes), NEW base \in Nat,
           base < Len(file), NEW pos \in Nat, base <= pos
    PROVE  Snapped(kind, file, base, pos) = Len(file)
           \/ Snapped(kind, file, base, pos) \in Table(kind, file, base)
<1> DEFINE n == Len(file)
           E == Ends(kind, file, base)
           T == Table(kind, file, base)
           found == Newlines(kind, file, base, pos, n)
           nl == IF found = {} THEN n ELSE Least(found)
<1>1. Width(kind) = 1 /\ n \in Nat BY WidthFacts
<1>2. found = {p \in E : pos <= p /\ p + 1 <= n}
  <2>1. n <= n BY <1>1
  <2> HIDE DEF n
  <2> QED BY <1>1, <2>1, EndsFacts DEF n
<1>3. FindNl(kind, file, base, pos, n) = nl BY OnlyOne DEF FindNl, Of
<1>4. Snapped(kind, file, base, pos) = IF nl = n THEN nl ELSE nl + 1 BY <1>3 DEF Snapped
<1>5. \A p \in E : p \in Nat BY EndsFacts
<1>6. \A p \in E : p + 1 < n => p + 1 \in T BY <1>1, TableFacts
<1> HIDE DEF E, T, n, found
<1>7. CASE found = {} BY <1>4, <1>7 DEF n
<1>8. CASE found # {}
  <2>1. found \subseteq Nat BY <1>2, <1>5
  <2>2. Least(found) \in found BY <1>8, <2>1, LeastIs
  <2>3. nl \in E /\ nl + 1 <= n /\ nl \in Nat BY <1>2, <1>5, <1>8, <2>2
  <2> HIDE DEF nl
  <2>4. Snapped(kind, file, base, pos) = nl + 1 BY <1>1, <1>4, <2>3
  <2>5. nl + 1 = n \/ nl + 1 < n BY <1>1, <2>3
  <2>6. nl + 1 = n \/ nl + 1 \in T BY <1>6, <2>3, <2>5
  <2> QED BY <2>4, <2>6 DEF n, T
<1> QED BY <1>7, <1>8

\* The numbers and offsets of the lines of a chunk that are kept.
LEMMA SamplesAre ==
    ASSUME NEW starts, NEW stride, NEW first
    PROVE  /\ \A c \in Samples(starts, stride, first) :
                 \E s \in starts : c.off = s /\ c.line = first + Rank(starts, s)
           /\ \A s \in starts : Rank(starts, s) % stride = 0 =>
                 \E c \in Samples(starts, stride, first) : c.off = s
<1> DEFINE P == {[line |-> first + Rank(starts, s), off |-> s] : s \in {t \in starts : Rank(starts, t) % stride = 0}}
<1>1. Samples(starts, stride, first) = P BY DEF Samples
<1>2. ASSUME NEW c \in P PROVE \E s \in starts : c.off = s /\ c.line = first + Rank(starts, s)
  <2>1. PICK s \in starts : c = [line |-> first + Rank(starts, s), off |-> s] OBVIOUS
  <2> QED BY <2>1
<1>3. ASSUME NEW s \in starts, Rank(starts, s) % stride = 0 PROVE \E c \in P : c.off = s
  <2> DEFINE c == [line |-> first + Rank(starts, s), off |-> s]
  <2>1. c \in P /\ c.off = s BY <1>3
  <2> HIDE DEF c, P
  <2> QED BY <2>1
<1> HIDE DEF P
<1> QED BY <1>1, <1>2, <1>3

LEMMA BuildIs ==
    ASSUME NEW kind \in Kinds, NEW file \in Seq(Bytes), NEW base \in Nat,
           NEW stride \in Nat \ {0}, NEW chunk \in Nat
    PROVE  /\ IndexIs(Build(kind, file, base, stride, chunk), file)
           /\ Build(kind, file, base, stride, chunk).kind = kind
           /\ Build(kind, file, base, stride, chunk).base = base
<1> DEFINE len == Len(file)
           T == Table(kind, file, base)
           inner == IF kind = "wide" THEN {}
                    ELSE {Snapped(kind, file, base, b) :
                           b \in {base + k * chunk : k \in 1 .. len} \cap 0 .. len - 1}
           begins == {base} \cup (inner \ {len})
           lines(s) == Starts(kind, file, base, s, ChunkEnd(begins, len, s))
           before(s) == Cardinality(UNION {lines(t) : t \in {u \in begins : u < s}})
           cps == IF base >= len THEN {}
                  ELSE UNION {Samples(lines(s), stride, before(s)) : s \in begins}
           count == IF base >= len THEN 0 ELSE Cardinality(UNION {lines(s) : s \in begins})
           j == [kind |-> kind, base |-> base, stride |-> stride, len |-> len,
                 cps |-> cps, count |-> count]
<1>1. Build(kind, file, base, stride, chunk) = j BY DEF Build, ChunkEnd
<1>2. len \in Nat OBVIOUS
<1>3. /\ IsFiniteSet(T) /\ T \subseteq Int
      /\ \A t \in T : t \in Nat /\ base <= t /\ t < len
      /\ base < len => base \in T
      /\ base >= len => T = {}
  BY TableBounds
<1>4. count = Cardinality(T) /\ (\A c \in cps : c.off \in T /\ c.line = Rank(T, c.off))
      /\ (T # {} => \E c \in cps : c.off = base)
  <2>1. CASE base >= len
    <3>1. cps = {} /\ count = 0 BY <2>1
    <3> HIDE DEF cps, count, T, len
    <3> QED BY <1>3, <2>1, <3>1, FS_EmptySet
  <2>2. CASE ~(base >= len)
    <3>1. base < len /\ base \in T BY <1>2, <1>3, <2>2
    <3>2. begins \subseteq T
      <4>1. ASSUME NEW k \in 1 .. len, base + k * chunk \in 0 .. len - 1, kind # "wide"
            PROVE  Snapped(kind, file, base, base + k * chunk) = len
                   \/ Snapped(kind, file, base, base + k * chunk) \in T
        <5> DEFINE d == k * chunk
                   pos == base + d
        <5>1. d \in Nat
          <6>1. k \in Nat BY <1>2
          <6> QED BY <6>1
        <5>2. pos \in Nat /\ base <= pos
          <6> HIDE DEF d
          <6> QED BY <5>1
        <5> HIDE DEF pos, d
        <5>3. Snapped(kind, file, base, pos) = len \/ Snapped(kind, file, base, pos) \in T
          BY <3>1, <4>1, <5>2, SnappedIs
        <5> QED BY <5>3 DEF pos, d
      <4>2. \A x \in inner : x = len \/ x \in T BY <4>1
      <4> HIDE DEF inner, T, len
      <4> QED BY <3>1, <4>2
    <3>3. base \in begins OBVIOUS
    <3> HIDE DEF begins
    <3>4. /\ \A s \in begins : ChunkEnd(begins, len, s) \in Nat
                                /\ s < ChunkEnd(begins, len, s) /\ ChunkEnd(begins, len, s) <= len
          /\ \A s \in begins : LinesOf(T, begins, len, Below(begins, s)) = Below(T, s)
          /\ LinesOf(T, begins, len, begins) = T
      <4> HIDE DEF T, len
      <4> QED BY <1>2, <1>3, <3>2, <3>3, ChunksCover
    <3>5. \A s \in begins : lines(s) = ChunkLines(T, begins, len, s)
      <4> TAKE s \in begins
      <4> DEFINE e == ChunkEnd(begins, len, s)
      <4>1. s \in T /\ e \in Nat /\ s < e /\ e <= Len(file) BY <3>2, <3>4
      <4> HIDE DEF e
      <4>2. Starts(kind, file, base, s, e) = {t \in T : s <= t /\ t < e} BY <4>1, StartsAre
      <4> QED BY <4>2 DEF ChunkLines, e
    <3>6. \A s \in begins : before(s) = Rank(T, s)
      <4> TAKE s \in begins
      <4>1. UNION {lines(t) : t \in {u \in begins : u < s}} = LinesOf(T, begins, len, Below(begins, s))
        <5> HIDE DEF lines, T, len
        <5> QED BY <3>5 DEF LinesOf, Below
      <4>2. UNION {lines(t) : t \in {u \in begins : u < s}} = {y \in T : y < s}
        BY <3>4, <4>1 DEF Below
      <4> HIDE DEF lines, T
      <4> QED BY <4>2 DEF Rank
    <3>7. UNION {lines(s) : s \in begins} = T
      <4>1. UNION {lines(s) : s \in begins} = LinesOf(T, begins, len, begins)
        <5> HIDE DEF lines, T, len
        <5> QED BY <3>5 DEF LinesOf
      <4> QED BY <3>4, <4>1
    <3>8. count = Cardinality(T) /\ cps = UNION {Samples(lines(s), stride, before(s)) : s \in begins}
      <4> HIDE DEF lines, before, T
      <4> QED BY <2>2, <3>7
    <3> HIDE DEF lines, before, cps, count
    <3>9. ASSUME NEW c \in cps PROVE c.off \in T /\ c.line = Rank(T, c.off)
      <4>1. PICK s \in begins : c \in Samples(lines(s), stride, before(s)) BY <3>8
      <4>2. PICK x \in lines(s) : c.off = x /\ c.line = before(s) + Rank(lines(s), x)
        BY <4>1, SamplesAre
      <4>3. x \in T /\ s <= x /\ x < ChunkEnd(begins, len, s) /\ s \in T
        BY <3>2, <3>5 DEF ChunkLines
      <4> HIDE DEF T, len
      <4>4. s \in Int /\ x \in Int BY <1>3, <4>3
      <4>5. Rank(T, x) = Rank(T, s) + Cardinality(Span(T, s, x))
        BY <1>3, <4>3, <4>4, RankSum
      <4>6. \A z \in T : z < x => z < ChunkEnd(begins, len, s)
        <5>1. ChunkEnd(begins, len, s) \in Nat /\ \A z \in T : z \in Nat BY <1>3, <3>4
        <5> QED BY <4>3, <4>4, <5>1
      <4>7. {z \in lines(s) : z < x} = Span(T, s, x)
        BY <3>5, <4>6 DEF ChunkLines, Span
      <4>8. Rank(lines(s), x) = Cardinality(Span(T, s, x)) BY <4>7 DEF Rank
      <4>9. c.line = Rank(T, x) BY <3>6, <4>2, <4>5, <4>8
      <4> QED BY <4>2, <4>3, <4>9
    <3>10. \E c \in cps : c.off = base
      <4>1. base \in lines(base)
        <5>1. base <= base /\ base < ChunkEnd(begins, len, base) BY <3>3, <3>4
        <5> QED BY <3>1, <3>3, <3>5, <5>1 DEF ChunkLines
      <4>2. Rank(lines(base), base) = 0
        <5>1. \A t \in lines(base) : t \in T BY <3>3, <3>5 DEF ChunkLines
        <5>2. \A t \in lines(base) : t \in Int /\ base <= t
          <6> HIDE DEF T, len
          <6> QED BY <1>3, <5>1
        <5> DEFINE S == lines(base)
        <5>3. \A t \in S : t \in Int /\ base <= t BY <5>2
        <5> HIDE DEF S
        <5>4. Rank(S, base) = 0 BY <5>3, RankOfBase
        <5> QED BY <5>4 DEF S
      <4>3. Rank(lines(base), base) % stride = 0
        <5>1. 0 % stride = 0 OBVIOUS
        <5> QED BY <4>2, <5>1
      <4>4. PICK c \in Samples(lines(base), stride, before(base)) : c.off = base
        BY <4>1, <4>3, SamplesAre
      <4>5. c \in cps BY <3>3, <3>8, <4>4
      <4> QED BY <4>4, <4>5
    <3> HIDE DEF T, len
    <3> QED BY <3>8, <3>9, <3>10
  <2> QED BY <2>1, <2>2
<1>5. /\ j.kind = kind /\ j.base = base /\ j.stride = stride /\ j.len = len
      /\ j.cps = cps /\ j.count = count
      /\ j = [kind |-> j.kind, base |-> j.base, stride |-> j.stride, len |-> j.len,
              cps |-> j.cps, count |-> j.count]
  <2> HIDE DEF cps, count
  <2> QED OBVIOUS
<1> HIDE DEF j, cps, count
<1>6. IndexIs(j, file) BY <1>4, <1>5 DEF IndexIs
<1> QED BY <1>1, <1>5, <1>6

-----------------------------------------------------------------------------
(* Search.                                                                 *)

SearchIInv ==
    /\ enc \in {"bytes", "legacy", "wide"}
    /\ buf \in Seq(Bytes)
    /\ idx.kind = KindOf(enc) /\ idx.base = 0 /\ IndexIs(idx, buf)

THEOREM SearchInitIInv == SearchInit => SearchIInv
<1> SUFFICES ASSUME SearchInit PROVE SearchIInv OBVIOUS
<1>1. enc \in {"bytes", "legacy", "wide"} BY DEF SearchInit
<1>2. buf \in Seq(Bytes)
  <2>1. buf = <<>> \/ buf \in Growths[enc] BY DEF SearchInit
  <2>2. Growths[enc] \subseteq Seq(Bytes) BY <1>1, GrowthsAssumption DEF Bytes
  <2>3. CASE buf = <<>> BY <2>3
  <2>4. CASE buf \in Growths[enc] BY <2>2, <2>4
  <2> QED BY <2>1, <2>3, <2>4
<1>3. KindOf(enc) \in Kinds BY DEF KindOf, Kinds
<1> DEFINE zero == 0
           i == Build(KindOf(enc), buf, zero, Stride, Chunk)
<1>4. zero \in Nat /\ Stride \in Nat \ {0} /\ Chunk \in Nat BY StridesAssumption
<1>5. IndexIs(i, buf) /\ i.kind = KindOf(enc) /\ i.base = zero
  <2> HIDE DEF zero
  <2> QED BY <1>2, <1>3, <1>4, BuildIs
<1>6. idx = i BY DEF SearchInit
<1> HIDE DEF i
<1> QED BY <1>1, <1>2, <1>5, <1>6 DEF SearchIInv

THEOREM SearchStepIInv == SearchIInv /\ [SearchNext]_searchVars => SearchIInv'
<1> SUFFICES ASSUME SearchIInv, [SearchNext]_searchVars PROVE SearchIInv' OBVIOUS
<1>1. CASE Grow
  <2>1. PICK bytes \in Growths[enc] : buf' = buf \o bytes /\ enc' = enc /\ idx' = Extended(idx, buf')
    BY <1>1 DEF Grow
  <2>2. buf \in Seq(Bytes) /\ bytes \in Seq(Bytes)
    <3>1. Growths[enc] \subseteq Seq(Bytes) BY GrowthsAssumption DEF Bytes, SearchIInv
    <3> QED BY <2>1, <3>1 DEF SearchIInv
  <2>3. idx.base <= Len(buf) BY <2>2 DEF SearchIInv
  <2>4. /\ IndexIs(Extended(idx, buf \o bytes), buf \o bytes)
        /\ Extended(idx, buf \o bytes).kind = idx.kind
        /\ Extended(idx, buf \o bytes).base = idx.base
    BY <2>2, <2>3, ExtendedIs DEF SearchIInv
  <2>5. buf' \in Seq(Bytes) BY <2>1, <2>2
  <2>6. IndexIs(idx', buf') /\ idx'.kind = idx.kind /\ idx'.base = idx.base BY <2>1, <2>4
  <2>7. IndexIs(idx, buf)' BY <2>6 DEF IndexIs
  <2> QED BY <2>1, <2>5, <2>6, <2>7 DEF SearchIInv, KindOf
<1>2. CASE UNCHANGED searchVars
  <2>1. enc' = enc /\ buf' = buf /\ idx' = idx BY <1>2 DEF searchVars
  <2> QED BY <2>1 DEF SearchIInv, IndexIs, KindOf
<1> QED BY <1>1, <1>2 DEF SearchNext

\* An index built by chunks of any size and extended whenever the file grows
\* finds every line, and the line of every byte, of the file as it is now.
THEOREM IndexStaysTrue == SearchSpec => []IndexFollows
<1>1. SearchIInv => IndexFollows
  <2> SUFFICES ASSUME SearchIInv PROVE IndexFollows OBVIOUS
  <2>1. buf \in Seq(Bytes) /\ IndexIs(idx, buf) BY DEF SearchIInv
  <2> QED BY <2>1, IndexReads DEF IndexFollows
<1> QED BY <1>1, SearchInitIInv, SearchStepIInv, PTL DEF SearchSpec

-----------------------------------------------------------------------------
(* Induction, and functions that are defined by it.                         *)

\* What holds of 0 and, after n - 1, of n holds up to the bound.
LEMMA Climb ==
    ASSUME NEW L \in Nat, NEW Q, 0 \in Q, \A n \in 1 .. L : n - 1 \in Q => n \in Q
    PROVE  \A n \in 0 .. L : n \in Q
<1> DEFINE T == {n \in 0 .. L : n \notin Q}
<1>1. ASSUME T # {} PROVE FALSE
  <2>1. T \subseteq Nat OBVIOUS
  <2>2. PICK n \in T : \A m \in T : n <= m
    <3> HIDE DEF T
    <3> QED BY <1>1, <2>1, LeastOf
  <2>3. \A m \in T : ~(m < n) BY <2>1, <2>2
  <2>4. n \in 1 .. L /\ n \notin Q BY <2>2
  <2>5. n - 1 \in T BY <2>4
  <2> QED BY <2>3, <2>4, <2>5
<1> QED BY <1>1

\* A function may be defined by what it is further on.
Descends(f, N, stop, base, head, next) ==
    f = [s \in 0 .. N |-> IF s \in stop THEN base[s] ELSE head[s] \o f[next[s]]]

LEMMA Descent ==
    ASSUME NEW N \in Nat, NEW stop, NEW base, NEW head, NEW next,
           \A s \in 0 .. N : s \notin stop => next[s] \in s + 1 .. N
    PROVE  \E f : Descends(f, N, stop, base, head, next)
<1> DEFINE R(g, s) == IF s \in stop THEN base[s] ELSE head[s] \o g[next[s]]
           D(k) == (N - k) .. N
           Runs(g, k) == g = [s \in D(k) |-> R(g, s)]
           Q == {k \in 0 .. N : \E g : Runs(g, k)}
<1>1. 0 \in Q
  <2> DEFINE g == [s \in D(0) |-> base[s]]
             wider == [s \in D(0) |-> R(g, s)]
  <2>1. \A s \in D(0) : s = N /\ s \in stop
    <3> TAKE s \in D(0)
    <3>1. s = N OBVIOUS
    <3>2. N + 1 .. N = {} OBVIOUS
    <3>3. N \in 0 .. N OBVIOUS
    <3> QED BY <3>1, <3>2, <3>3
  <2>2. \A s \in D(0) : R(g, s) = R(wider, s) BY <2>1
  <2>3. Runs(wider, 0) BY <2>2
  <2>4. 0 \in 0 .. N OBVIOUS
  <2> QED BY <2>3, <2>4
<1>2. \A k \in 1 .. N : k - 1 \in Q => k \in Q
  <2> TAKE k \in 1 .. N
  <2> HAVE k - 1 \in Q
  <2>1. PICK g : Runs(g, k - 1) OBVIOUS
  <2> DEFINE p == N - k
             wider == [s \in D(k) |-> IF s = p THEN R(g, p) ELSE g[s]]
  <2>2. p \in 0 .. N /\ \A s \in D(k) : s = p \/ s \in D(k - 1) OBVIOUS
  <2>3. \A s \in D(k - 1) : s # p /\ s \in D(k) /\ s \in 0 .. N OBVIOUS
  <2>4. \A s \in D(k - 1) : wider[s] = g[s] BY <2>3
  <2>5. \A s \in D(k) : s \notin stop => next[s] \in D(k - 1)
    <3> TAKE s \in D(k)
    <3> HAVE s \notin stop
    <3>1. s \in 0 .. N /\ s >= p OBVIOUS
    <3>2. next[s] \in s + 1 .. N BY <3>1
    <3> HIDE DEF Q, wider
    <3>3. \A x \in s + 1 .. N : x \in (N - (k - 1)) .. N BY <3>1
    <3> QED BY <3>2, <3>3
  <2>6. \A s \in D(k) : R(wider, s) = R(g, s) BY <2>4, <2>5
  <2>7. \A s \in D(k) : wider[s] = R(g, s)
    <3> TAKE s \in D(k)
    <3>1. CASE s = p BY <3>1
    <3>2. CASE s # p
      <4>1. s \in D(k - 1) /\ wider[s] = g[s] BY <2>2, <2>4, <3>2
      <4>2. g[s] = R(g, s) BY <2>1, <4>1
      <4> QED BY <4>1, <4>2
    <3> QED BY <3>1, <3>2
  <2>8. wider = [s \in D(k) |-> wider[s]] OBVIOUS
  <2> HIDE DEF wider, R
  <2>9. wider = [s \in D(k) |-> R(wider, s)] BY <2>6, <2>7, <2>8
  <2>10. k \in 0 .. N OBVIOUS
  <2> QED BY <2>9, <2>10
<1>3. \A k \in 0 .. N : k \in Q
  <2> HIDE DEF Q
  <2> QED BY <1>1, <1>2, Climb
<1>4. PICK f : Runs(f, N)
  <2>1. N \in 0 .. N OBVIOUS
  <2> QED BY <1>3, <2>1
<1>5. D(N) = 0 .. N OBVIOUS
<1> QED BY <1>4, <1>5 DEF Descends

-----------------------------------------------------------------------------
(* Sequences that are joined.                                              *)

LEMMA Regroup ==
    ASSUME NEW A
    PROVE  \A x, y, z : x \in Seq(A) /\ y \in Seq(A) /\ z \in Seq(A)
                        => (x \o y) \o z = x \o (y \o z)
BY ConcatAssociative

LEMMA FlattenSteps ==
    ASSUME NEW A, NEW seqs \in Seq(Seq(A)), seqs # <<>>
    PROVE  \E f : /\ f[1] = seqs[1]
                  /\ \A k \in 2 .. Len(seqs) : f[k] = f[k - 1] \o seqs[k]
                  /\ FlattenSeq(seqs) = f[Len(seqs)]
<1> DEFINE L == Len(seqs)
           Joins(g, k) == g = [i \in 1 .. k |-> IF i = 1 THEN seqs[i] ELSE g[i - 1] \o seqs[i]]
           Q == {k \in 0 .. L : \E g : Joins(g, k)}
<1>1. L \in Nat \ {0} OBVIOUS
<1>2. \E g : Joins(g, 0)
  <2> DEFINE g == [i \in 1 .. 0 |-> <<>>]
  <2>1. Joins(g, 0) OBVIOUS
  <2> QED BY <2>1
<1>3. ASSUME NEW k \in 1 .. L, \E g : Joins(g, k - 1) PROVE \E g : Joins(g, k)
  <2>1. PICK g : Joins(g, k - 1) BY <1>3
  <2> DEFINE wider == [i \in 1 .. k |-> IF i = k THEN (IF k = 1 THEN seqs[k] ELSE g[k - 1] \o seqs[k])
                                             ELSE g[i]]
  <2>2. \A i \in 1 .. k : i # 1 => wider[i - 1] = g[i - 1] OBVIOUS
  <2>3. \A i \in 1 .. k : wider[i] = IF i = 1 THEN seqs[i] ELSE wider[i - 1] \o seqs[i]
    <3> TAKE i \in 1 .. k
    <3>1. CASE i = k BY <2>2, <3>1
    <3>2. CASE i # k
      <4>1. wider[i] = g[i] /\ i \in 1 .. (k - 1) BY <3>2
      <4>2. g[i] = IF i = 1 THEN seqs[i] ELSE g[i - 1] \o seqs[i] BY <2>1, <4>1
      <4> QED BY <2>2, <4>1, <4>2
    <3> QED BY <3>1, <3>2
  <2>4. wider = [i \in 1 .. k |-> wider[i]] OBVIOUS
  <2> HIDE DEF wider
  <2>5. Joins(wider, k) BY <2>3, <2>4
  <2> QED BY <2>5
<1>4. \E g : Joins(g, L)
  <2> HIDE DEF Joins
  <2>1. 0 \in Q BY <1>1, <1>2
  <2>2. \A k \in 1 .. L : k - 1 \in Q => k \in Q BY <1>1, <1>3
  <2>3. \A k \in 0 .. L : k \in Q
    <3> HIDE DEF Q, L
    <3> QED BY <1>1, <2>1, <2>2, Climb
  <2>4. L \in Q BY <1>1, <2>3
  <2> QED BY <2>4
<1> DEFINE f == CHOOSE g : Joins(g, L)
<1>5. Joins(f, L) BY <1>4
<1>6. FlattenSeq(seqs) = f[L] BY <1>1 DEF FlattenSeq
<1> HIDE DEF f
<1>7. \A k \in 1 .. L : f[k] = IF k = 1 THEN seqs[k] ELSE f[k - 1] \o seqs[k] BY <1>5
<1>8. f[1] = seqs[1]
  <2>1. 1 \in 1 .. L BY <1>1
  <2> QED BY <1>7, <2>1
<1>9. \A k \in 2 .. L : f[k] = f[k - 1] \o seqs[k]
  <2>1. \A k \in 2 .. L : k \in 1 .. L /\ k # 1 BY <1>1
  <2> HIDE DEF L
  <2> QED BY <1>7, <2>1
<1> QED BY <1>6, <1>8, <1>9

\* Where each part of r leads from one text of c to the next, all of them
\* joined lead from the first to the last.
LEMMA FlattenRuns ==
    ASSUME NEW A, NEW r \in Seq(Seq(A)), NEW c,
           \A k \in 0 .. Len(r) : c[k] \in Seq(A),
           \A k \in 1 .. Len(r) : c[k] = c[k - 1] \o r[k]
    PROVE  FlattenSeq(r) \in Seq(A) /\ c[0] \o FlattenSeq(r) = c[Len(r)]
<1>1. CASE r = <<>>
  <2>1. Len(r) = 0 /\ FlattenSeq(r) = <<>> BY <1>1 DEF FlattenSeq
  <2>2. c[0] \in Seq(A) BY <2>1
  <2>3. c[0] \o <<>> = c[0] BY <2>2, ConcatEmptySeq
  <2>4. <<>> \in Seq(A) OBVIOUS
  <2> QED BY <2>1, <2>3, <2>4
<1>2. CASE r # <<>>
  <2> DEFINE L == Len(r)
  <2>1. PICK f : /\ f[1] = r[1]
                 /\ \A k \in 2 .. L : f[k] = f[k - 1] \o r[k]
                 /\ FlattenSeq(r) = f[L]
    BY <1>2, FlattenSteps
  <2>2. L \in Nat \ {0} /\ \A k \in 1 .. L : r[k] \in Seq(A) BY <1>2
  <2> DEFINE Q == {k \in 0 .. L : k > 0 => f[k] \in Seq(A) /\ c[0] \o f[k] = c[k]}
  <2>3. \A k \in 1 .. L : k - 1 \in Q => k \in Q
    <3> TAKE k \in 1 .. L
    <3> HAVE k - 1 \in Q
    <3>10. 0 \in 0 .. L /\ k \in 0 .. L BY <2>2
    <3>0. c[0] \in Seq(A) /\ r[k] \in Seq(A) /\ c[k] = c[k - 1] \o r[k] /\ k \in 0 .. L BY <2>2, <3>10
    <3>1. CASE k = 1
      <4>1. k - 1 = 0 /\ f[k] = r[k] BY <2>1, <3>1
      <4> QED BY <3>0, <4>1
    <3>2. CASE k # 1
      <4>1. k \in 2 .. L /\ k - 1 > 0 BY <2>2, <3>2
      <4>2. f[k] = f[k - 1] \o r[k] /\ f[k - 1] \in Seq(A) /\ c[0] \o f[k - 1] = c[k - 1] BY <2>1, <4>1
      <4>3. f[k] \in Seq(A) BY <3>0, <4>2, ConcatProperties
      <4> DEFINE x == c[0]
                 y == f[k - 1]
                 z == r[k]
      <4>4. (x \o y) \o z = x \o (y \o z)
        <5>1. x \in Seq(A) /\ y \in Seq(A) /\ z \in Seq(A) BY <3>0, <4>2
        <5> HIDE DEF x, y, z, Q, L
        <5> QED BY <5>1, Regroup
      <4> QED BY <3>0, <4>2, <4>3, <4>4
    <3> QED BY <3>1, <3>2
  <2>4. 0 \in Q BY <2>2
  <2>5. \A k \in 0 .. L : k \in Q
    <3> HIDE DEF Q, L
    <3> QED BY <2>2, <2>3, <2>4, Climb
  <2>6. L \in 0 .. L /\ L > 0 BY <2>2
  <2>7. L \in Q BY <2>5, <2>6
  <2> QED BY <2>1, <2>6, <2>7
<1> QED BY <1>1, <1>2

\* There are such texts.
LEMMA RunsExist ==
    ASSUME NEW A, NEW r \in Seq(Seq(A))
    PROVE  \E c : /\ c[0] = <<>>
                  /\ \A k \in 0 .. Len(r) : c[k] \in Seq(A)
                  /\ \A k \in 1 .. Len(r) : c[k] = c[k - 1] \o r[k]
<1>1. CASE r = <<>>
  <2> DEFINE c == [k \in 0 .. 0 |-> <<>>]
  <2>1. Len(r) = 0 BY <1>1
  <2>2. c[0] = <<>> /\ \A k \in 0 .. 0 : k = 0 OBVIOUS
  <2>3. <<>> \in Seq(A) OBVIOUS
  <2>4. \A k \in 1 .. 0 : FALSE OBVIOUS
  <2> HIDE DEF c
  <2> QED BY <2>1, <2>2, <2>3, <2>4
<1>2. CASE r # <<>>
  <2> DEFINE L == Len(r)
  <2>1. PICK g : /\ g[1] = r[1]
                 /\ \A k \in 2 .. L : g[k] = g[k - 1] \o r[k]
    BY <1>2, FlattenSteps
  <2>2. L \in Nat \ {0} /\ \A k \in 1 .. L : r[k] \in Seq(A) BY <1>2
  <2> DEFINE f == [k \in 0 .. L |-> IF k = 0 THEN <<>> ELSE g[k]]
  <2>3. f[0] = <<>> /\ \A k \in 1 .. L : f[k] = g[k] BY <2>2
  <2> HIDE DEF f
  <2>4. ASSUME NEW k \in 1 .. L PROVE f[k] = f[k - 1] \o r[k]
    <3>1. CASE k = 1
      <4>1. <<>> \o r[1] = r[1]
        <5>1. r[1] \in Seq(A) BY <2>2
        <5> QED BY <5>1, ConcatEmptySeq
      <4>2. f[1] = r[1] /\ f[1 - 1] = <<>> BY <2>1, <2>2, <2>3
      <4> QED BY <3>1, <4>1, <4>2
    <3>2. CASE k # 1
      <4>1. k \in 2 .. L /\ k - 1 \in 1 .. L BY <2>2, <3>2
      <4> QED BY <2>1, <2>3, <4>1
    <3> QED BY <3>1, <3>2
  <2> DEFINE Q == {k \in 0 .. L : f[k] \in Seq(A)}
  <2>5. 0 \in Q
    <3>1. <<>> \in Seq(A) /\ 0 \in 0 .. L BY <2>2
    <3> QED BY <2>3, <3>1
  <2>6. \A k \in 1 .. L : k - 1 \in Q => k \in Q
    <3> TAKE k \in 1 .. L
    <3> HAVE k - 1 \in Q
    <3>1. f[k - 1] \in Seq(A) /\ r[k] \in Seq(A) BY <2>2
    <3>2. f[k - 1] \o r[k] \in Seq(A) BY <3>1, ConcatProperties
    <3>3. f[k] \in Seq(A) BY <2>4, <3>2
    <3>4. k \in 0 .. L BY <2>2
    <3> QED BY <3>3, <3>4
  <2>7. \A k \in 0 .. L : k \in Q
    <3> HIDE DEF Q, L
    <3> QED BY <2>2, <2>5, <2>6, Climb
  <2> QED BY <2>3, <2>4, <2>7
<1> QED BY <1>1, <1>2

-----------------------------------------------------------------------------
(* A file is written by chunks of lines.                                   *)

\* What a conversion writes for a line, and for a chunk of lines.
CasedAt(mode, i) == CasedLine(mode, LineAt(i))
CasedChunk(mode, chunk) == ChunkFile(LAMBDA line : CasedLine(mode, line), chunk)

\* c[i] is what it writes for the first i lines.
Yields(c, mode, A) ==
    /\ c[0] = <<>> /\ \A i \in 0 .. idx.count : c[i] \in Seq(A)
    /\ \A i \in 1 .. idx.count : c[i] = c[i - 1] \o CasedAt(mode, i - 1)
    /\ \A i \in 0 .. idx.count - 1 : CasedAt(mode, i) \in Seq(A)

Leads(c, mode, A, start, end) ==
    LET part == CasedChunk(mode, [start |-> start, end |-> end]) IN
    part \in Seq(A) /\ c[start] \o part = c[end]

LEMMA ChunkRuns ==
    ASSUME BatchLines \in Nat \ {0}, idx.count \in Nat, NEW mode, NEW A, NEW c, Yields(c, mode, A),
           NEW start \in Nat, NEW end \in 0 .. idx.count, start <= end
    PROVE  Leads(c, mode, A, start, end)
<1> DEFINE N == idx.count
           M == N + BatchLines
           chunk == [start |-> start, end |-> end]
           T(s) == Taken(s, chunk.end)
           row(s, k) == IF s + k - 1 < N THEN CasedAt(mode, s + k - 1) ELSE <<>>
           batch(s) == FlattenSeq([k \in 1 .. T(s) |-> row(s, k)])
           Files(f) == f = [s \in 0 .. M |->
                              IF s >= chunk.end \/ s >= N THEN <<>> ELSE batch(s) \o f[s + T(s)]]
           f == CHOOSE g : Files(g)
<1>1. N \in Nat /\ M \in Nat /\ BatchLines \in Nat \ {0} /\ chunk.end = end /\ chunk.start = start
      /\ end \in 0 .. N
  OBVIOUS
<1>2. \A s \in 0 .. M : s < end => T(s) \in 1 .. end - s /\ T(s) <= BatchLines
  <2> TAKE s \in 0 .. M
  <2> HAVE s < end
  <2>1. T(s) = IF end - s < BatchLines THEN end - s ELSE BatchLines BY DEF Taken
  <2>2. end - s \in Nat \ {0} /\ s \in Nat OBVIOUS
  <2> HIDE DEF T
  <2> QED BY <1>1, <2>1, <2>2
<1>3. Files(f)
  <2> DEFINE stop == {s \in 0 .. M : s >= chunk.end \/ s >= N}
             base == [s \in 0 .. M |-> <<>>]
             head == [s \in 0 .. M |-> batch(s)]
             next == [s \in 0 .. M |-> s + T(s)]
  <2>1. \A s \in 0 .. M : s \notin stop => next[s] \in s + 1 .. M
    <3> TAKE s \in 0 .. M
    <3> HAVE s \notin stop
    <3>1. s < end /\ s < N /\ s \in Nat BY <1>1
    <3>2. T(s) \in 1 .. end - s /\ T(s) <= BatchLines BY <1>2, <3>1
    <3>3. next[s] = s + T(s) OBVIOUS
    <3> HIDE DEF T, next
    <3> QED BY <1>1, <3>1, <3>2, <3>3
  <2>0. PICK g : Descends(g, M, stop, base, head, next)
    <3> HIDE DEF stop, base, head, next, M
    <3> QED BY <1>1, <2>1, Descent
  <2>2. g = [s \in 0 .. M |-> IF s \in stop THEN base[s] ELSE head[s] \o g[next[s]]]
    <3> HIDE DEF stop, base, head, next, M
    <3> QED BY <2>0 DEF Descends
  <2>3. \A s \in 0 .. M : g[s] = IF s >= chunk.end \/ s >= N THEN <<>> ELSE batch(s) \o g[s + T(s)]
    <3> TAKE s \in 0 .. M
    <3>1. g[s] = IF s \in stop THEN base[s] ELSE head[s] \o g[next[s]] BY <2>2
    <3>2. base[s] = <<>> /\ head[s] = batch(s) /\ next[s] = s + T(s) OBVIOUS
    <3>3. s \in stop <=> (s >= chunk.end \/ s >= N) OBVIOUS
    <3> HIDE DEF stop, base, head, next, batch, T
    <3> QED BY <3>1, <3>2, <3>3
  <2>4. g = [s \in 0 .. M |-> g[s]]
    <3> HIDE DEF stop, base, head, next, M
    <3> QED BY <2>2
  <2> HIDE DEF batch, T
  <2>5. Files(g) BY <2>3, <2>4
  <2> QED BY <2>5
<1>4. CasedChunk(mode, chunk) = f[start] BY DEF CasedChunk, ChunkFile, CasedAt
<1>5. \A s \in 0 .. M : f[s] = IF s >= end \/ s >= N THEN <<>> ELSE batch(s) \o f[s + T(s)]
  <2> HIDE DEF f, batch, T
  <2> QED BY <1>1, <1>3
<1> HIDE DEF f
<1> DEFINE Joined(s) == f[s] \in Seq(A) /\ c[s] \o f[s] = c[end]
           Q == {k \in 0 .. end : \A s \in end - k .. end : Joined(s)}
<1>6. 0 \in Q
  <2>1. end \in 0 .. M /\ end >= end BY <1>1
  <2>2. f[end] = <<>> BY <1>5, <2>1
  <2>3. c[end] \in Seq(A) BY DEF Yields
  <2>4. c[end] \o <<>> = c[end] BY <2>3, ConcatEmptySeq
  <2>5. Joined(end) BY <2>2, <2>4
  <2>6. \A s \in end - 0 .. end : s = end BY <1>1
  <2>7. 0 \in 0 .. end BY <1>1
  <2> HIDE DEF Joined
  <2> QED BY <2>5, <2>6, <2>7
<1>7. \A k \in 1 .. end : k - 1 \in Q => k \in Q
  <2> TAKE k \in 1 .. end
  <2> HAVE k - 1 \in Q
  <2> DEFINE s == end - k
             t == T(s)
             r == [j \in 1 .. t |-> row(s, j)]
             d == [j \in 0 .. t |-> c[s + j]]
             m == s + t
  <2>1. s \in 0 .. M /\ s < end /\ s < N /\ s \in Nat BY <1>1
  <2>2. t \in 1 .. end - s /\ t \in Nat BY <1>2, <2>1
  <2> HIDE DEF t
  <2>3. m \in end - (k - 1) .. end /\ m \in 0 .. N BY <1>1, <2>1, <2>2
  <2>4. Joined(m) BY <2>3
  <2>5. f[s] = FlattenSeq(r) \o f[m]
    <3>1. ~(s >= end \/ s >= N) BY <1>1, <2>1
    <3>2. f[s] = batch(s) \o f[s + T(s)] BY <1>5, <2>1, <3>1
    <3> QED BY <3>2 DEF t
  <2> HIDE DEF s, Q
  <2>6. \A j \in 1 .. t : row(s, j) = CasedAt(mode, s + j - 1) /\ s + j - 1 \in 0 .. N - 1 /\ s + j \in 1 .. N
    <3> TAKE j \in 1 .. t
    <3>1. s + j - 1 \in 0 .. N - 1 /\ s + j \in 1 .. N /\ s + j - 1 < N
      <4> HIDE DEF N, M
      <4> QED BY <1>1, <2>1, <2>2
    <3> QED BY <3>1
  <2> HIDE DEF row
  <2>7. r \in Seq(Seq(A)) /\ Len(r) = t
    <3>1. \A j \in 1 .. t : row(s, j) \in Seq(A) BY <2>6 DEF Yields
    <3> QED BY <2>2, <3>1
  <2>8. \A j \in 1 .. t : d[j] = d[j - 1] \o r[j]
    <3> TAKE j \in 1 .. t
    <3> DEFINE e == s + j
    <3>1. e \in 1 .. N /\ e - 1 = s + j - 1 /\ e - 1 = s + (j - 1) /\ j \in 0 .. t /\ j - 1 \in 0 .. t
      BY <2>1, <2>2, <2>6
    <3>2. d[j] = c[e] /\ d[j - 1] = c[e - 1] BY <3>1
    <3>3. r[j] = CasedAt(mode, e - 1) BY <2>6, <3>1
    <3> HIDE DEF e, d, r
    <3>4. c[e] = c[e - 1] \o CasedAt(mode, e - 1) BY <3>1 DEF Yields
    <3> QED BY <3>2, <3>3, <3>4
  <2>9. d[0] = c[s] /\ d[t] = c[m] /\ \A j \in 0 .. t : d[j] \in Seq(A)
    <3>1. \A j \in 0 .. t : s + j \in 0 .. N
      <4> HIDE DEF N, M
      <4> QED BY <1>1, <2>1, <2>2
    <3>2. \A j \in 0 .. t : d[j] \in Seq(A) BY <3>1 DEF Yields
    <3>3. d[0] = c[s] /\ d[t] = c[m]
      <4>1. 0 \in 0 .. t /\ t \in 0 .. t /\ s + 0 = s BY <2>1, <2>2
      <4> QED BY <4>1
    <3> QED BY <3>2, <3>3
  <2> HIDE DEF r, d
  <2>10. FlattenSeq(r) \in Seq(A) /\ c[s] \o FlattenSeq(r) = c[m]
    <3>1. FlattenSeq(r) \in Seq(A) /\ d[0] \o FlattenSeq(r) = d[Len(r)] BY <2>7, <2>8, <2>9, FlattenRuns
    <3> QED BY <2>7, <2>9, <3>1
  <2>11. c[s] \in Seq(A) BY <1>1, <2>1 DEF Yields
  <2> DEFINE x == c[s]
             y == FlattenSeq(r)
             z == f[m]
  <2>12. (x \o y) \o z = x \o (y \o z)
    <3>1. x \in Seq(A) /\ y \in Seq(A) /\ z \in Seq(A) BY <2>4, <2>10, <2>11
    <3> HIDE DEF x, y, z
    <3> QED BY ONLY <3>1, Regroup
  <2>13. Joined(s)
    <3>1. f[s] \in Seq(A) BY <2>4, <2>5, <2>10, ConcatProperties
    <3> QED BY <2>4, <2>5, <2>10, <2>12, <3>1
  <2> HIDE DEF Joined
  <2>14. \A q \in end - k .. end : q = s \/ q \in end - (k - 1) .. end
    <3> HIDE DEF N, M
    <3> QED BY <1>1 DEF s
  <2>15. \A q \in end - (k - 1) .. end : Joined(q) BY DEF Q
  <2>16. k \in 0 .. end BY <1>1
  <2> QED BY <2>13, <2>14, <2>15, <2>16 DEF Q
<1>8. \A k \in 0 .. end : k \in Q
  <2>1. end \in Nat BY <1>1
  <2> HIDE DEF Q
  <2> QED BY <1>6, <1>7, <2>1, Climb
<1>9. Joined(start)
  <2>1. end - start \in 0 .. end /\ start \in end - (end - start) .. end BY <1>1
  <2> HIDE DEF Joined
  <2> QED BY <1>8, <2>1
<1> QED BY <1>4, <1>9 DEF Leads

\* The pieces of so many lines, and where each one ends.
Pieces(n, lines) == (n + lines - 1) \div lines
Cut(n, lines, k) == IF k * lines < n THEN k * lines ELSE n

LEMMA CutFacts ==
    ASSUME NEW n \in Nat, NEW lines \in 1 .. 3
    PROVE  /\ Pieces(n, lines) \in Nat
           /\ Cut(n, lines, 0) = 0 /\ Cut(n, lines, Pieces(n, lines)) = n
           /\ \A k \in 0 .. Pieces(n, lines) : Cut(n, lines, k) \in 0 .. n
           /\ \A k \in 1 .. Pieces(n, lines) :
                 /\ (k - 1) * lines < n /\ (k - 1) * lines \in Nat
                 /\ Cut(n, lines, k - 1) = (k - 1) * lines
                 /\ (k - 1) * lines < Cut(n, lines, k)
<1>1. CASE lines = 1
  <2>1. Pieces(n, 1) = n BY DEF Pieces
  <2> QED BY <1>1, <2>1 DEF Cut
<1>2. CASE lines = 2
  <2> DEFINE K == Pieces(n, 2)
  <2>1. K \in Nat /\ 2 * K >= n /\ 2 * K <= n + 1 BY DEF Pieces
  <2> HIDE DEF K
  <2> QED BY <1>2, <2>1 DEF Cut, K
<1>3. CASE lines = 3
  <2> DEFINE K == Pieces(n, 3)
  <2>1. K \in Nat /\ 3 * K >= n /\ 3 * K <= n + 2 BY DEF Pieces
  <2> HIDE DEF K
  <2> QED BY <1>3, <2>1 DEF Cut, K
<1> QED BY <1>1, <1>2, <1>3

LEMMA StreamRuns ==
    ASSUME BatchLines \in Nat \ {0}, idx.count \in Nat, NEW mode, NEW A, NEW c, Yields(c, mode, A)
    PROVE  Streamed(LAMBDA line : CasedLine(mode, line)) = c[idx.count]
<1> DEFINE zero == 0
           N == idx.count
           part == CasedChunk(mode, [start |-> zero, end |-> N])
<1>1. zero \in Nat /\ N \in 0 .. idx.count /\ zero <= N OBVIOUS
<1>2. part \in Seq(A) /\ c[zero] \o part = c[N]
  <2>1. Leads(c, mode, A, zero, N)
    <3> HIDE DEF zero, N
    <3> QED BY <1>1, ChunkRuns
  <2> QED BY <2>1 DEF Leads
<1>3. Streamed(LAMBDA line : CasedLine(mode, line)) = part BY DEF Streamed, OneChunk, CasedChunk
<1>4. c[zero] = <<>> BY DEF Yields
<1> HIDE DEF part
<1>5. <<>> \o part = part BY <1>2, ConcatEmptySeq
<1> QED BY <1>2, <1>3, <1>4, <1>5

LEMMA ChunkedRuns ==
    ASSUME BatchLines \in Nat \ {0}, idx.count \in Nat, NEW mode, NEW A, NEW c, Yields(c, mode, A),
           NEW lines \in 1 .. 3
    PROVE  Chunked(LAMBDA line : CasedLine(mode, line), lines) = c[idx.count]
<1> DEFINE N == idx.count
           K == Pieces(N, lines)
           chunk(k) == [start |-> (k - 1) * lines, end |-> Cut(N, lines, k)]
           r == [k \in 1 .. K |-> CasedChunk(mode, chunk(k))]
           d == [k \in 0 .. K |-> c[Cut(N, lines, k)]]
<1>1. /\ N \in Nat /\ K \in Nat /\ Cut(N, lines, 0) = 0 /\ Cut(N, lines, K) = N
      /\ \A k \in 0 .. K : Cut(N, lines, k) \in 0 .. N
      /\ \A k \in 1 .. K :
                 /\ (k - 1) * lines < N /\ (k - 1) * lines \in Nat
                 /\ Cut(N, lines, k - 1) = (k - 1) * lines
                 /\ (k - 1) * lines < Cut(N, lines, k)
  BY CutFacts
<1>2. Chunks(lines) = [k \in 1 .. K |-> chunk(k)] BY DEF Chunks, Pieces, Cut
<1>3. Chunked(LAMBDA line : CasedLine(mode, line), lines) = FlattenSeq(r)
  <2>1. DOMAIN Chunks(lines) = 1 .. K /\ \A k \in 1 .. K : Chunks(lines)[k] = chunk(k) BY <1>2
  <2>2. Chunked(LAMBDA line : CasedLine(mode, line), lines)
           = FlattenSeq([k \in DOMAIN Chunks(lines) |-> CasedChunk(mode, Chunks(lines)[k])])
    BY DEF Chunked, CasedChunk
  <2> HIDE DEF chunk, K
  <2>3. [k \in DOMAIN Chunks(lines) |-> CasedChunk(mode, Chunks(lines)[k])] = r BY <2>1
  <2> QED BY <2>2, <2>3
<1>4. ASSUME NEW k \in 1 .. K
      PROVE  CasedChunk(mode, chunk(k)) \in Seq(A)
             /\ c[Cut(N, lines, k - 1)] \o CasedChunk(mode, chunk(k)) = c[Cut(N, lines, k)]
  <2> DEFINE s == (k - 1) * lines
             e == Cut(N, lines, k)
  <2>1. k \in 0 .. K BY <1>1
  <2>2. s \in Nat /\ e \in 0 .. N /\ s < e /\ Cut(N, lines, k - 1) = s BY <1>1, <2>1
  <2> HIDE DEF s, e, K
  <2>3. s <= e BY <1>1, <2>2
  <2>4. Leads(c, mode, A, s, e) BY <2>2, <2>3, ChunkRuns
  <2> QED BY <2>2, <2>4 DEF s, e, Leads
<1> HIDE DEF chunk, K, N
<1>5. r \in Seq(Seq(A)) /\ Len(r) = K BY <1>1, <1>4
<1>6. \A k \in 0 .. K : d[k] \in Seq(A) BY <1>1 DEF Yields, N
<1>7. \A k \in 1 .. K : d[k] = d[k - 1] \o r[k]
  <2> TAKE k \in 1 .. K
  <2>1. k \in 0 .. K /\ k - 1 \in 0 .. K BY <1>1
  <2>2. d[k] = c[Cut(N, lines, k)] /\ d[k - 1] = c[Cut(N, lines, k - 1)] BY <2>1
  <2>3. r[k] = CasedChunk(mode, chunk(k)) OBVIOUS
  <2> HIDE DEF d, r
  <2> QED BY <1>4, <2>2, <2>3
<1>8. d[0] = <<>> /\ d[K] = c[N]
  <2>1. 0 \in 0 .. K /\ K \in 0 .. K BY <1>1
  <2>2. c[0] = <<>> BY DEF Yields
  <2> QED BY <1>1, <2>1, <2>2
<1> HIDE DEF r, d
<1>9. FlattenSeq(r) \in Seq(A) /\ d[0] \o FlattenSeq(r) = d[Len(r)] BY <1>5, <1>6, <1>7, FlattenRuns
<1>10. <<>> \o FlattenSeq(r) = FlattenSeq(r) BY <1>9, ConcatEmptySeq
<1> QED BY <1>3, <1>5, <1>8, <1>9, <1>10 DEF N

-----------------------------------------------------------------------------
(* Functions defined over a line.                                          *)

\* f goes down from what it is at next[s], by step[s], to where it stops.
Unrolls(f, L, N, stop, base, step, next) ==
    f = [s \in L .. N |-> IF s \in stop THEN base[s] ELSE step[s][f[next[s]]]]

Descending(L, N, V, stop, base, step, next) ==
    \A s \in L .. N : IF s \in stop THEN base[s] \in V
                      ELSE next[s] \in s + 1 .. N /\ \A v \in V : step[s][v] \in V

LEMMA UnrolledExists ==
    ASSUME NEW L \in Nat, NEW N \in Nat, NEW V, NEW stop, NEW base, NEW step, NEW next,
           Descending(L, N, V, stop, base, step, next)
    PROVE  \E f : Unrolls(f, L, N, stop, base, step, next)
<1> DEFINE R(g, s) == IF s \in stop THEN base[s] ELSE step[s][g[next[s]]]
           D(k) == {s \in L .. N : N - k <= s}
           Runs(g, k) == g = [s \in D(k) |-> R(g, s)]
           Q == {k \in 0 .. N : \E g : Runs(g, k)}
<1>0. \A s \in L .. N : s \in Nat /\ (s \notin stop => next[s] \in s + 1 .. N)
  BY DEF Descending
<1>1. 0 \in Q
  <2> DEFINE g == [s \in D(0) |-> base[s]]
             wider == [s \in D(0) |-> R(g, s)]
  <2>1. \A s \in D(0) : s \in stop
    <3> TAKE s \in D(0)
    <3>1. s = N /\ s \in L .. N BY <1>0
    <3>2. N + 1 .. N = {} OBVIOUS
    <3> QED BY <1>0, <3>1, <3>2
  <2>2. \A s \in D(0) : wider[s] = R(wider, s) BY <2>1
  <2>3. Runs(wider, 0)
    <3>1. wider = [s \in D(0) |-> wider[s]] OBVIOUS
    <3> HIDE DEF wider, R, D
    <3> QED BY <2>2, <3>1
  <2>4. 0 \in 0 .. N OBVIOUS
  <2> QED BY <2>3, <2>4
<1>2. \A k \in 1 .. N : k - 1 \in Q => k \in Q
  <2> TAKE k \in 1 .. N
  <2> HAVE k - 1 \in Q
  <2>1. PICK g : Runs(g, k - 1) OBVIOUS
  <2> DEFINE p == N - k
             wider == [s \in D(k) |-> IF s = p THEN R(g, p) ELSE g[s]]
  <2>2. \A s \in D(k) : s = p \/ s \in D(k - 1)
    <3> TAKE s \in D(k)
    <3>1. s \in Nat /\ N - k <= s /\ s \in L .. N BY <1>0
    <3> HIDE DEF Q, wider
    <3> QED BY <3>1
  <2>3. \A s \in D(k - 1) : s # p /\ s \in D(k)
    <3> TAKE s \in D(k - 1)
    <3>1. s \in Nat /\ N - (k - 1) <= s /\ s \in L .. N BY <1>0
    <3> HIDE DEF Q, wider
    <3> QED BY <3>1
  <2>4. \A s \in D(k - 1) : wider[s] = g[s] BY <2>3
  <2>5. \A s \in D(k) : s \notin stop => next[s] \in D(k - 1)
    <3> TAKE s \in D(k)
    <3> HAVE s \notin stop
    <3>1. s \in L .. N /\ s >= p BY <1>0
    <3>2. next[s] \in s + 1 .. N BY <1>0, <3>1
    <3>3. s \in Nat /\ p \in Nat BY <1>0, <3>1
    <3>4. \A x \in s + 1 .. N : x \in L .. N /\ N - (k - 1) <= x
      <4> HIDE DEF Q, wider
      <4> QED BY <3>1, <3>3
    <3> HIDE DEF Q, wider
    <3> QED BY <3>2, <3>4
  <2>6. \A s \in D(k) : R(wider, s) = R(g, s) BY <2>4, <2>5
  <2>7. \A s \in D(k) : wider[s] = R(g, s)
    <3> TAKE s \in D(k)
    <3>1. CASE s = p BY <3>1
    <3>2. CASE s # p
      <4>1. s \in D(k - 1) /\ wider[s] = g[s] BY <2>2, <2>4, <3>2
      <4>2. g[s] = R(g, s) BY <2>1, <4>1
      <4> QED BY <4>1, <4>2
    <3> QED BY <3>1, <3>2
  <2>8. wider = [s \in D(k) |-> wider[s]] OBVIOUS
  <2> HIDE DEF wider, R
  <2>9. wider = [s \in D(k) |-> R(wider, s)] BY <2>6, <2>7, <2>8
  <2>10. k \in 0 .. N OBVIOUS
  <2> QED BY <2>9, <2>10
<1>3. \A k \in 0 .. N : k \in Q
  <2> HIDE DEF Q
  <2> QED BY <1>1, <1>2, Climb
<1>4. PICK f : Runs(f, N)
  <2>1. N \in 0 .. N OBVIOUS
  <2> QED BY <1>3, <2>1
<1>5. D(N) = L .. N BY <1>0
<1> QED BY <1>4, <1>5 DEF Unrolls

\* What holds of a place when it holds of all behind it holds everywhere.
LEMMA ComeDown ==
    ASSUME NEW L \in Nat, NEW N \in Nat, NEW Q,
           \A s \in L .. N : (\A t \in s + 1 .. N : t \in Q) => s \in Q
    PROVE  \A s \in L .. N : s \in Q
<1> DEFINE X == {s \in L .. N : s \notin Q}
<1>1. ASSUME X # {} PROVE FALSE
  <2>1. X \subseteq 0 .. N OBVIOUS
  <2>2. PICK s \in X : \A t \in X : t <= s
    <3> HIDE DEF X
    <3> QED BY <1>1, <2>1, GreatestOf
  <2>3. s \in L .. N /\ s \notin Q /\ s \in Nat BY <2>1
  <2>4. \A t \in s + 1 .. N : t \in L .. N /\ ~(t <= s) BY <2>3
  <2>5. \A t \in s + 1 .. N : t \in Q BY <2>2, <2>4
  <2> QED BY <2>3, <2>5
<1> QED BY <1>1

\* Where a run of letters ends.
LEMMA RunEndIn ==
    ASSUME NEW A, NEW raw \in Seq(A), NEW start \in 1 .. Len(raw), IsAlnum(raw[start])
    PROVE  RunEnd(raw, start) \in start .. Len(raw)
<1> DEFINE N == Len(raw)
           M == N + 1
           goes(j) == \/ j <= N /\ IsAlnum(raw[j])
                      \/ j < N /\ IsJoint(raw[j]) /\ IsAlnum(raw[j + 1])
           Runs(f) == f = [j \in start .. M |->
                CASE j <= N /\ IsAlnum(raw[j]) -> f[j + 1]
                  [] j < N /\ IsJoint(raw[j]) /\ IsAlnum(raw[j + 1]) -> f[j + 1]
                  [] OTHER -> j - 1]
           f == CHOOSE g : Runs(g)
           V == start .. N
           stop == {j \in start .. M : ~goes(j)}
           base == [j \in start .. M |-> j - 1]
           step == [j \in start .. M |-> [v \in V |-> v]]
           next == [j \in start .. M |-> j + 1]
<1>1. N \in Nat /\ start \in 1 .. N /\ start \in Nat /\ M \in Nat OBVIOUS
<1>2. RunEnd(raw, start) = f[start] BY DEF RunEnd
<1>3. \A j \in start .. M : (j \notin stop => j <= N) /\ (j \in stop => j # start)
  <2> TAKE j \in start .. M
  <2>1. goes(j) => j <= N BY <1>1
  <2>2. goes(start) BY <1>1
  <2> HIDE DEF goes
  <2> QED BY <2>1, <2>2
<1>4. Descending(start, M, V, stop, base, step, next)
  <2>1. ASSUME NEW j \in start .. M, j \in stop PROVE base[j] \in V
    <3>1. j # start /\ j \in Nat BY <1>1, <1>3, <2>1
    <3> HIDE DEF stop, N
    <3> QED BY <1>1, <3>1
  <2>2. ASSUME NEW j \in start .. M, j \notin stop
        PROVE  next[j] \in j + 1 .. M /\ \A v \in V : step[j][v] \in V
    <3>1. j <= N /\ j \in Nat BY <1>1, <1>3, <2>2
    <3>2. j + 1 \in j + 1 .. M
      <4> HIDE DEF stop, N
      <4> QED BY <1>1, <3>1
    <3> QED BY <3>2
  <2> HIDE DEF stop, base, step, next, V
  <2> QED BY <2>1, <2>2 DEF Descending
<1>5. Runs(f)
  <2>1. PICK g : Unrolls(g, start, M, stop, base, step, next)
    <3> HIDE DEF stop, base, step, next, V, M
    <3> QED BY <1>1, <1>4, UnrolledExists
  <2>2. \A j \in start .. M : g[j] = IF j \in stop THEN base[j] ELSE step[j][g[next[j]]]
    <3> HIDE DEF stop, base, step, next
    <3> QED BY <2>1 DEF Unrolls
  <2> DEFINE Q == {j \in start .. M : g[j] \in V}
  <2>3. \A j \in start .. M : (\A t \in j + 1 .. M : t \in Q) => j \in Q
    <3> HIDE DEF stop, base, step, next, V
    <3> QED BY <1>4, <2>2 DEF Descending
  <2>4. \A j \in start .. M : g[j] \in V
    <3>1. \A j \in start .. M : j \in Q
      <4> HIDE DEF Q, M
      <4> QED BY <1>1, <2>3, ComeDown
    <3> QED BY <3>1
  <2>5. \A j \in start .. M : j \notin stop => g[j] = g[j + 1]
    <3> TAKE j \in start .. M
    <3> HAVE j \notin stop
    <3>1. next[j] \in j + 1 .. M /\ next[j] = j + 1 BY <1>4 DEF Descending
    <3>2. next[j] \in start .. M BY <1>1, <3>1
    <3>3. g[j + 1] \in V BY <2>4, <3>1, <3>2
    <3>4. step[j][g[j + 1]] = g[j + 1]
      <4> HIDE DEF V
      <4> QED BY <3>3
    <3> HIDE DEF stop, base, step, next, V
    <3> QED BY <2>2, <3>1, <3>4
  <2>6. \A j \in start .. M : j \in stop => g[j] = j - 1
    <3>1. \A j \in start .. M : base[j] = j - 1 OBVIOUS
    <3> HIDE DEF stop, base, step, next
    <3> QED BY <2>2, <3>1
  <2>7. \A j \in start .. M : g[j] = CASE j <= N /\ IsAlnum(raw[j]) -> g[j + 1]
                  [] j < N /\ IsJoint(raw[j]) /\ IsAlnum(raw[j + 1]) -> g[j + 1]
                  [] OTHER -> j - 1
    <3> TAKE j \in start .. M
    <3>1. j \in stop <=> ~goes(j) OBVIOUS
    <3> HIDE DEF stop, N, M
    <3>2. CASE j <= N /\ IsAlnum(raw[j])
      <4>1. g[j] = g[j + 1] BY <2>5, <3>1, <3>2
      <4> QED BY <3>2, <4>1
    <3>3. CASE j < N /\ IsJoint(raw[j]) /\ IsAlnum(raw[j + 1])
      <4>1. g[j] = g[j + 1] BY <2>5, <3>1, <3>3
      <4> QED BY <3>3, <4>1
    <3>4. CASE ~goes(j)
      <4>1. g[j] = j - 1 BY <2>6, <3>1, <3>4
      <4> QED BY <3>4, <4>1
    <3> QED BY <3>2, <3>3, <3>4
  <2>8. g = [j \in start .. M |-> g[j]]
    <3> HIDE DEF stop, base, step, next
    <3> QED BY <2>1 DEF Unrolls
  <2>9. Runs(g)
    <3> HIDE DEF N, M
    <3> QED BY <2>7, <2>8
  <2> QED BY <2>9
<1> HIDE DEF f
<1>6. \A j \in start .. M : (j \in stop => f[j] = j - 1) /\ (j \notin stop => f[j] = f[j + 1])
  <2> TAKE j \in start .. M
  <2>1. f[j] = CASE j <= N /\ IsAlnum(raw[j]) -> f[j + 1]
                  [] j < N /\ IsJoint(raw[j]) /\ IsAlnum(raw[j + 1]) -> f[j + 1]
                  [] OTHER -> j - 1
    BY <1>5
  <2>2. j \in stop <=> ~goes(j) OBVIOUS
  <2> HIDE DEF stop, N, M
  <2> QED BY <2>1, <2>2
<1> DEFINE Q == {j \in start .. M : f[j] \in V}
<1>7. \A j \in start .. M : (\A t \in j + 1 .. M : t \in Q) => j \in Q
  <2> TAKE j \in start .. M
  <2>1. CASE j \in stop
    <3>1. base[j] \in V /\ base[j] = j - 1 BY <1>4, <2>1 DEF Descending
    <3> QED BY <1>6, <2>1, <3>1
  <2>2. CASE j \notin stop
    <3>1. j + 1 \in j + 1 .. M
      <4>1. next[j] \in j + 1 .. M /\ next[j] = j + 1 BY <1>4, <2>2 DEF Descending
      <4> QED BY <4>1
    <3>2. f[j] = f[j + 1] BY <1>6, <2>2
    <3> HIDE DEF stop, base, step, next, V, M
    <3> QED BY <3>1, <3>2
  <2> QED BY <2>1, <2>2
<1>8. \A j \in start .. M : j \in Q
  <2> HIDE DEF Q, M
  <2> QED BY <1>1, <1>7, ComeDown
<1>9. start \in start .. M BY <1>1
<1> QED BY <1>2, <1>8, <1>9

LEMMA UnrolledIn ==
    ASSUME NEW L \in Nat, NEW N \in Nat, NEW V, NEW stop, NEW base, NEW step, NEW next,
           Descending(L, N, V, stop, base, step, next),
           NEW f, Unrolls(f, L, N, stop, base, step, next)
    PROVE  \A s \in L .. N : f[s] \in V
<1> DEFINE Q == {s \in L .. N : f[s] \in V}
<1>1. \A s \in L .. N : f[s] = IF s \in stop THEN base[s] ELSE step[s][f[next[s]]] BY DEF Unrolls
<1>2. \A s \in L .. N : (\A t \in s + 1 .. N : t \in Q) => s \in Q BY <1>1 DEF Descending
<1>3. \A s \in L .. N : s \in Q
  <2> HIDE DEF Q
  <2> QED BY <1>2, ComeDown
<1> QED BY <1>3

LEMMA FlattenIn ==
    ASSUME NEW A, NEW r \in Seq(Seq(A))
    PROVE  FlattenSeq(r) \in Seq(A)
<1>1. PICK c : /\ c[0] = <<>>
               /\ \A k \in 0 .. Len(r) : c[k] \in Seq(A)
               /\ \A k \in 1 .. Len(r) : c[k] = c[k - 1] \o r[k]
  BY RunsExist
<1> QED BY <1>1, FlattenRuns

\* What a conversion makes of elements of A.
CaseOf(A) == A \cup {Upper(b) : b \in A} \cup {Lower(b) : b \in A} \cup {45, 95}

LEMMA ConvertedIn ==
    ASSUME NEW mode, NEW A, NEW run \in Seq(A)
    PROVE  Converted(mode, run) \in Seq(CaseOf(A))
<1> DEFINE B == CaseOf(A)
           first(k) == Cardinality({j \in 1 .. k : Opens(run, j)}) = 1
           joint == CASE mode = "kebab" -> <<45>> [] mode \in {"snake", "constant"} -> <<95>> [] OTHER -> <<>>
           letter(k) ==
            CASE mode = "constant" -> Upper(run[k])
              [] mode = "pascal" /\ Opens(run, k) -> Upper(run[k])
              [] mode = "camel" /\ Opens(run, k) /\ ~first(k) -> Upper(run[k])
              [] OTHER -> Lower(run[k])
           at(k) ==
            IF IsJoint(run[k]) THEN <<>>
            ELSE (IF Opens(run, k) /\ ~first(k) THEN joint ELSE <<>>) \o <<letter(k)>>
           r == [k \in DOMAIN run |-> at(k)]
<1>1. Converted(mode, run) = FlattenSeq(r) BY DEF Converted
<1>2. joint \in Seq(B)
  <2>1. 45 \in B /\ 95 \in B BY DEF CaseOf
  <2> HIDE DEF B
  <2> QED BY <2>1
<1>3. \A k \in DOMAIN run : Upper(run[k]) \in B /\ Lower(run[k]) \in B BY DEF CaseOf
<1>4. \A k \in DOMAIN run : letter(k) \in B
  <2> HIDE DEF B, first
  <2> QED BY <1>3
<1> HIDE DEF B, first, letter, joint
<1>5. \A k \in DOMAIN run : at(k) \in Seq(B)
  <2> TAKE k \in DOMAIN run
  <2>1. <<>> \in Seq(B) /\ <<letter(k)>> \in Seq(B) BY <1>4
  <2>2. (IF Opens(run, k) /\ ~first(k) THEN joint ELSE <<>>) \in Seq(B) BY <1>2, <2>1
  <2> QED BY <2>1, <2>2
<1> HIDE DEF at
<1>6. r \in Seq(Seq(B)) BY <1>5
<1> HIDE DEF r
<1>7. FlattenSeq(r) \in Seq(B) BY <1>6, FlattenIn
<1> QED BY <1>1, <1>7 DEF B

LEMMA CasedBytesIn ==
    ASSUME NEW mode, NEW A, NEW raw \in Seq(A)
    PROVE  CasedBytes(mode, raw) \in Seq(CaseOf(A))
<1> DEFINE B == CaseOf(A)
           V == Seq(B)
           N == Len(raw)
           one == 1
           M == N + 2
           run(i) == i <= N /\ ~Paired(raw, i) /\ mode \notin {"upper", "lower"} /\ IsAlnum(raw[i])
           R(g, i) ==
            CASE i > Len(raw) -> <<>>
              [] i <= Len(raw) /\ Paired(raw, i) -> SubSeq(raw, i, i + 1) \o g[i + 2]
              [] i <= Len(raw) /\ ~Paired(raw, i) /\ mode = "upper" -> <<Upper(raw[i])>> \o g[i + 1]
              [] i <= Len(raw) /\ ~Paired(raw, i) /\ mode = "lower" -> <<Lower(raw[i])>> \o g[i + 1]
              [] i <= Len(raw) /\ ~Paired(raw, i) /\ mode \notin {"upper", "lower"} /\ IsAlnum(raw[i]) ->
                    Converted(mode, SubSeq(raw, i, RunEnd(raw, i))) \o g[RunEnd(raw, i) + 1]
              [] OTHER -> <<raw[i]>> \o g[i + 1]
           head(i) ==
            CASE Paired(raw, i) -> SubSeq(raw, i, i + 1)
              [] ~Paired(raw, i) /\ mode = "upper" -> <<Upper(raw[i])>>
              [] ~Paired(raw, i) /\ mode = "lower" -> <<Lower(raw[i])>>
              [] run(i) -> Converted(mode, SubSeq(raw, i, RunEnd(raw, i)))
              [] OTHER -> <<raw[i]>>
           nxt(i) == IF Paired(raw, i) THEN i + 2 ELSE IF run(i) THEN RunEnd(raw, i) + 1 ELSE i + 1
           Runs(g) == g = [i \in 1 .. Len(raw) + 2 |-> R(g, i)]
           f == CHOOSE g : Runs(g)
           stop == {i \in one .. M : i > N}
           base == [i \in one .. M |-> <<>>]
           step == [i \in one .. M |-> [v \in V |-> head(i) \o v]]
           next == [i \in one .. M |-> nxt(i)]
<1>1. N \in Nat /\ M \in Nat /\ one \in Nat /\ M = N + 2 OBVIOUS
<1>2. CasedBytes(mode, raw) = f[1] BY DEF CasedBytes
<1>3. ASSUME NEW i \in one .. M, i \notin stop PROVE head(i) \in V /\ nxt(i) \in i + 1 .. M
  <2>1. i \in 1 .. N /\ i <= N /\ i \in Nat /\ raw[i] \in A BY <1>1, <1>3
  <2>2. Upper(raw[i]) \in B /\ Lower(raw[i]) \in B /\ raw[i] \in B /\ A \subseteq B BY <2>1 DEF CaseOf
  <2>3. i + 1 \in i + 1 .. M /\ i + 2 \in i + 1 .. M BY <1>1, <2>1
  <2>4. CASE Paired(raw, i)
    <3>1. i + 1 <= N BY <1>1, <2>1, <2>4 DEF Paired
    <3>2. SubSeq(raw, i, i + 1) \in Seq(A) BY <2>1, <3>1
    <3>3. head(i) = SubSeq(raw, i, i + 1) /\ nxt(i) = i + 2 BY <2>4
    <3> HIDE DEF B, head, nxt
    <3>4. Seq(A) \subseteq Seq(B) BY <2>2
    <3> QED BY <2>3, <3>2, <3>3, <3>4
  <2>5. CASE run(i)
    <3>1. RunEnd(raw, i) \in i .. N BY <2>1, <2>5, RunEndIn
    <3>2. SubSeq(raw, i, RunEnd(raw, i)) \in Seq(A) BY <2>1, <3>1
    <3>3. Converted(mode, SubSeq(raw, i, RunEnd(raw, i))) \in Seq(B) BY <3>2, ConvertedIn
    <3>4. head(i) = Converted(mode, SubSeq(raw, i, RunEnd(raw, i))) /\ nxt(i) = RunEnd(raw, i) + 1
      BY <2>5
    <3>5. \A e \in i .. N : e + 1 \in i + 1 .. M
      <4> HIDE DEF N, M
      <4> QED BY <1>1, <2>1
    <3> HIDE DEF B, head, nxt
    <3> QED BY <3>1, <3>3, <3>4, <3>5
  <2>6. CASE ~Paired(raw, i) /\ ~run(i)
    <3>1. nxt(i) = i + 1 BY <2>6
    <3>2. head(i) \in {<<Upper(raw[i])>>, <<Lower(raw[i])>>, <<raw[i]>>}
      <4> HIDE DEF run
      <4> QED BY <2>6
    <3> HIDE DEF B, head, nxt
    <3>3. <<Upper(raw[i])>> \in Seq(B) /\ <<Lower(raw[i])>> \in Seq(B) /\ <<raw[i]>> \in Seq(B) BY <2>2
    <3> QED BY <2>3, <3>1, <3>2, <3>3
  <2> QED BY <2>4, <2>5, <2>6
<1>4. \A i \in one .. M : i \in stop <=> i > Len(raw) OBVIOUS
<1>5. Descending(one, M, V, stop, base, step, next)
  <2>1. \A i \in one .. M : base[i] = <<>> /\ next[i] = nxt(i) /\ \A v \in V : step[i][v] = head(i) \o v
    OBVIOUS
  <2>2. <<>> \in V OBVIOUS
  <2> HIDE DEF stop, base, step, next, head, nxt, B, M
  <2>3. \A i \in one .. M : i \notin stop => \A v \in V : head(i) \o v \in V BY <1>3
  <2> HIDE DEF V
  <2> QED BY <1>3, <2>1, <2>2, <2>3 DEF Descending

<1>6. \A g : \A i \in one .. M : i \notin stop => R(g, i) = head(i) \o g[nxt(i)]
  <2> TAKE g
  <2> TAKE i \in one .. M
  <2> HAVE i \notin stop
  <2>1. i <= Len(raw) /\ ~(i > Len(raw)) /\ i <= N BY <1>1
  <2> HIDE DEF N, M, B, stop
  <2>2. CASE Paired(raw, i) BY <2>1, <2>2
  <2>3. CASE ~Paired(raw, i) /\ mode = "upper"
    <3>1. ~run(i) /\ mode # "lower" BY <2>3
    <3> HIDE DEF run
    <3> QED BY <2>1, <2>3, <3>1
  <2>4. CASE ~Paired(raw, i) /\ mode = "lower"
    <3>1. ~run(i) /\ mode # "upper" /\ ~(~Paired(raw, i) /\ mode = "upper") BY <2>4
    <3> HIDE DEF run
    <3> QED BY <2>1, <2>4, <3>1
  <2>5. CASE run(i)
    <3>1. ~Paired(raw, i) /\ mode # "upper" /\ mode # "lower" /\ IsAlnum(raw[i]) BY <2>5
    <3> HIDE DEF run
    <3> QED BY <2>1, <2>5, <3>1
  <2>6. CASE ~Paired(raw, i) /\ mode \notin {"upper", "lower"} /\ ~run(i)
    <3>1. mode # "upper" /\ mode # "lower" /\ ~IsAlnum(raw[i]) BY <2>1, <2>6
    <3> HIDE DEF run
    <3> QED BY <2>1, <2>6, <3>1
  <2> QED BY <2>2, <2>3, <2>4, <2>5, <2>6
<1>7. \A g : \A i \in one .. M : i \in stop => R(g, i) = <<>>
  <2> TAKE g
  <2> TAKE i \in one .. M
  <2> HAVE i \in stop
  <2>1. i > Len(raw) /\ ~(i <= Len(raw)) BY <1>1
  <2> QED BY <2>1
<1> HIDE DEF R, head, nxt, B, run
<1>8. Runs(f)
  <2>1. PICK g : Unrolls(g, one, M, stop, base, step, next)
    <3> HIDE DEF stop, base, step, next, V, M, f
    <3> QED BY <1>1, <1>5, UnrolledExists
  <2>2. \A i \in one .. M : g[i] \in V
    <3> HIDE DEF stop, base, step, next, V, M, f, one
    <3> QED BY <1>1, <1>5, <2>1, UnrolledIn
  <2>3. \A i \in one .. M : g[i] = IF i \in stop THEN base[i] ELSE step[i][g[next[i]]]
    <3> HIDE DEF stop, base, step, next
    <3> QED BY <2>1 DEF Unrolls
  <2>4. \A i \in one .. M : g[i] = R(g, i)
    <3> TAKE i \in one .. M
    <3>1. CASE i \in stop
      <4>1. base[i] = <<>> OBVIOUS
      <4> HIDE DEF stop, base, step, next, f
      <4> QED BY <1>7, <2>3, <3>1, <4>1
    <3>2. CASE i \notin stop
      <4> DEFINE x == nxt(i)
      <4>1. x \in i + 1 .. M BY <1>3, <3>2
      <4>2. x \in one .. M
        <5>1. \A y \in i + 1 .. M : y \in one .. M BY <1>1
        <5> HIDE DEF x, M
        <5> QED BY <4>1, <5>1
      <4>3. g[x] \in V BY <2>2, <4>2
      <4>4. next[i] = x OBVIOUS
      <4>5. \A v \in V : step[i][v] = head(i) \o v OBVIOUS
      <4> HIDE DEF stop, base, step, next, f, V, x, M
      <4>6. g[i] = head(i) \o g[x] BY <2>3, <3>2, <4>3, <4>4, <4>5
      <4> QED BY <1>6, <3>2, <4>6 DEF x
    <3> QED BY <3>1, <3>2
  <2>5. g = [i \in one .. M |-> g[i]]
    <3> HIDE DEF stop, base, step, next
    <3> QED BY <2>1 DEF Unrolls
  <2>6. Runs(g) BY <2>4, <2>5
  <2> QED BY <2>6
<1> HIDE DEF f
<1>9. \A i \in one .. M : f[i] = R(f, i) BY <1>8
<1> DEFINE Q == {i \in one .. M : f[i] \in V}
<1>10. \A i \in one .. M : (\A t \in i + 1 .. M : t \in Q) => i \in Q
  <2> TAKE i \in one .. M
  <2>1. CASE i \in stop
    <3>1. <<>> \in V OBVIOUS
    <3> HIDE DEF stop, V
    <3> QED BY <1>7, <1>9, <2>1, <3>1
  <2>2. CASE i \notin stop
    <3> DEFINE x == nxt(i)
    <3>1. x \in i + 1 .. M /\ head(i) \in V BY <1>3, <2>2
    <3>2. f[i] = head(i) \o f[x] BY <1>6, <1>9, <2>2
    <3> HIDE DEF stop, x
    <3>3. ASSUME f[x] \in V PROVE f[i] \in V BY <3>1, <3>2, <3>3
    <3> HIDE DEF V
    <3> QED BY <3>1, <3>3
  <2> QED BY <2>1, <2>2
<1>11. \A i \in one .. M : i \in Q
  <2> HIDE DEF Q, M, one
  <2> QED BY <1>1, <1>10, ComeDown
<1>12. one \in one .. M BY <1>1
<1>13. f[one] \in V
  <2> HIDE DEF V, M
  <2> QED BY <1>11, <1>12
<1> QED BY <1>2, <1>13 DEF B

\* The boundaries of the characters of a line are finitely many.
LEMMA BoundsFinite ==
    ASSUME NEW A, NEW raw \in Seq(A)
    PROVE  Bounds(raw) \subseteq 0 .. Len(raw) /\ IsFiniteSet(Bounds(raw))
<1> DEFINE N == Len(raw)
           zero == 0
           M == N + 1
           V == SUBSET (0 .. N)
           R(g, i) == IF i >= Len(raw) THEN {Len(raw)} ELSE {i} \cup g[i + StepOf(raw, i)]
           Runs(g) == g = [i \in 0 .. Len(raw) + 1 |-> R(g, i)]
           f == CHOOSE g : Runs(g)
           stop == {i \in zero .. M : i >= N}
           base == [i \in zero .. M |-> {N}]
           step == [i \in zero .. M |-> [v \in V |-> {i} \cup v]]
           next == [i \in zero .. M |-> i + StepOf(raw, i)]
<1>1. N \in Nat /\ M \in Nat /\ zero \in Nat /\ M = N + 1 OBVIOUS
<1>2. Bounds(raw) = f[0] BY DEF Bounds
<1>3. ASSUME NEW i \in zero .. M, i \notin stop
      PROVE  i + StepOf(raw, i) \in i + 1 .. M /\ i \in 0 .. N
  <2>1. i < N /\ i \in Nat BY <1>1, <1>3
  <2>2. StepOf(raw, i) = 1 \/ (StepOf(raw, i) = 2 /\ i + 2 <= N)
    <3>1. CASE enc = "legacy" /\ raw[i + 1] = Lead /\ i + 2 <= Len(raw) /\ raw[i + 2] \in 64 .. 252
      <4>1. StepOf(raw, i) = 2
        <5>1. enc # "wide" BY <3>1
        <5> QED BY <3>1, <5>1 DEF StepOf
      <4> QED BY <3>1, <4>1
    <3>2. CASE enc = "wide" /\ i + 2 <= Len(raw)
      <4>1. StepOf(raw, i) = 2
        <5>1. enc # "legacy" BY <3>2
        <5> QED BY <3>2, <5>1 DEF StepOf
      <4> QED BY <3>2, <4>1
    <3>3. CASE /\ ~(enc = "legacy" /\ raw[i + 1] = Lead /\ i + 2 <= Len(raw) /\ raw[i + 2] \in 64 .. 252)
               /\ ~(enc = "wide" /\ i + 2 <= Len(raw))
      BY <3>3 DEF StepOf
    <3> QED BY <3>1, <3>2, <3>3
  <2> HIDE DEF N, M, zero, stop
  <2> QED BY <1>1, <2>1, <2>2
<1>4. Descending(zero, M, V, stop, base, step, next)
  <2> DEFINE join(i, v) == {i} \cup v
             to(i) == i + StepOf(raw, i)
             last == {N}
  <2>1. \A i \in zero .. M : base[i] = last /\ next[i] = to(i)
                             /\ \A v \in V : step[i][v] = join(i, v)
    OBVIOUS
  <2>2. last \in V BY <1>1
  <2>3. \A i \in zero .. M : i \notin stop => \A v \in V : join(i, v) \in V
    <3> TAKE i \in zero .. M
    <3> HAVE i \notin stop
    <3>1. i \in 0 .. N BY <1>3
    <3> HIDE DEF N, M, zero, stop
    <3> QED BY <3>1
  <2>4. \A i \in zero .. M : i \notin stop => to(i) \in i + 1 .. M BY <1>3
  <2> HIDE DEF stop, base, step, next, M, V, zero, join, to, last, N
  <2> QED BY <2>1, <2>2, <2>3, <2>4 DEF Descending
<1>5. \A i \in zero .. M : i \in stop <=> i >= Len(raw) OBVIOUS
<1> HIDE DEF R
<1>6. Runs(f)
  <2>1. PICK g : Unrolls(g, zero, M, stop, base, step, next)
    <3> HIDE DEF stop, base, step, next, V, M, f, zero
    <3> QED BY <1>1, <1>4, UnrolledExists
  <2>2. \A i \in zero .. M : g[i] \in V
    <3> HIDE DEF stop, base, step, next, V, M, f, zero
    <3> QED BY <1>1, <1>4, <2>1, UnrolledIn
  <2>3. \A i \in zero .. M : g[i] = IF i \in stop THEN base[i] ELSE step[i][g[next[i]]]
    <3> HIDE DEF stop, base, step, next
    <3> QED BY <2>1 DEF Unrolls
  <2>4. \A i \in zero .. M : g[i] = R(g, i)
    <3> TAKE i \in zero .. M
    <3>1. CASE i \in stop
      <4>1. base[i] = {N} OBVIOUS
      <4>2. g[i] = {N}
        <5> HIDE DEF stop, base, step, next, f
        <5> QED BY <2>3, <3>1, <4>1
      <4> QED BY <1>5, <3>1, <4>2 DEF R
    <3>2. CASE i \notin stop
      <4> DEFINE x == i + StepOf(raw, i)
      <4>1. x \in i + 1 .. M BY <1>3, <3>2
      <4>2. x \in zero .. M
        <5>1. \A y \in i + 1 .. M : y \in zero .. M BY <1>1
        <5> HIDE DEF x, M
        <5> QED BY <4>1, <5>1
      <4>3. g[x] \in V BY <2>2, <4>2
      <4>4. next[i] = x OBVIOUS
      <4>5. \A v \in V : step[i][v] = {i} \cup v OBVIOUS
      <4>7. ~(i >= Len(raw)) BY <1>5, <3>2
      <4> HIDE DEF stop, base, step, next, f, V, x, M
      <4>6. g[i] = {i} \cup g[x] BY <2>3, <3>2, <4>3, <4>4, <4>5
      <4> QED BY <4>6, <4>7 DEF R, x
    <3> QED BY <3>1, <3>2
  <2>5. g = [i \in zero .. M |-> g[i]]
    <3> HIDE DEF stop, base, step, next
    <3> QED BY <2>1 DEF Unrolls
  <2>6. Runs(g) BY <2>4, <2>5
  <2> QED BY <2>6
<1> HIDE DEF f
<1>7. \A i \in zero .. M : f[i] = R(f, i) BY <1>6
<1> DEFINE Q == {i \in zero .. M : f[i] \in V}
<1>8. \A i \in zero .. M : (\A t \in i + 1 .. M : t \in Q) => i \in Q
  <2> TAKE i \in zero .. M
  <2>1. CASE i \in stop
    <3>1. {N} \in V BY <1>1
    <3>2. f[i] = R(f, i) /\ i >= Len(raw) BY <1>5, <1>7, <2>1
    <3>3. R(f, i) = {N} BY <3>2 DEF R
    <3> HIDE DEF V, N, stop
    <3> QED BY <3>1, <3>2, <3>3
  <2>2. CASE i \notin stop
    <3> DEFINE x == i + StepOf(raw, i)
    <3>1. x \in i + 1 .. M /\ i \in 0 .. N BY <1>3, <2>2
    <3>2. f[i] = {i} \cup f[x] BY <1>5, <1>7, <2>2 DEF R
    <3> HIDE DEF stop, x, M, N
    <3>3. ASSUME f[x] \in V PROVE f[i] \in V BY <3>1, <3>2, <3>3
    <3> HIDE DEF V
    <3> QED BY <3>1, <3>3
  <2> QED BY <2>1, <2>2
<1>9. \A i \in zero .. M : i \in Q
  <2> HIDE DEF Q, M, zero
  <2> QED BY <1>1, <1>8, ComeDown
<1>10. zero \in zero .. M BY <1>1
<1>11. f[zero] \in V
  <2> HIDE DEF V, M
  <2> QED BY <1>9, <1>10
<1>12. Bounds(raw) \subseteq 0 .. N BY <1>2, <1>11
<1>13. IsFiniteSet(0 .. N) BY <1>1, FS_Interval
<1> HIDE DEF f, N
<1> QED BY <1>12, <1>13, FS_Subset DEF N

\* A function over the places of a list is a list of what it takes there.
LEMMA ListIs ==
    ASSUME NEW n \in Nat, NEW f, f = [k \in 1 .. n |-> f[k]]
    PROVE  f \in Seq({f[k] : k \in 1 .. n}) /\ Len(f) = n /\ DOMAIN f = 1 .. n
<1> DEFINE A == {f[k] : k \in 1 .. n}
<1>1. \A k \in 1 .. n : f[k] \in A OBVIOUS
<1> HIDE DEF A
<1> QED BY <1>1

LEMMA CharsIn ==
    ASSUME NEW A, NEW raw \in Seq(A)
    PROVE  \E C : CharsOf(Decoded(raw)) \in Seq(C)
<1> DEFINE S == Bounds(raw)
           n == Cardinality(S)
           bs == Ordered(S)
           m == Len(bs) - 1
           line == [k \in 1 .. m |-> [at |-> bs[k], bytes |-> SubSeq(raw, bs[k] + 1, bs[k + 1])]]
           chars == [k \in 1 .. m |-> line[k].bytes]
<1>1. n \in Nat BY BoundsFinite, FS_CardinalityType
<1>2. Len(bs) = n
  <2>1. bs = [k \in 1 .. n |-> bs[k]] BY DEF Ordered
  <2> HIDE DEF bs, n
  <2> QED BY <1>1, <2>1, ListIs
<1>3. Decoded(raw) = line BY OnlyOne DEF Decoded, Of
<1>4. CharsOf(line) = chars BY DEF CharsOf
<1> HIDE DEF bs, n, line
<1>5. CASE m \in Nat
  <2>1. chars = [k \in 1 .. m |-> chars[k]] OBVIOUS
  <2> HIDE DEF chars, m
  <2>2. chars \in Seq({chars[k] : k \in 1 .. m}) BY <1>5, <2>1, ListIs
  <2> QED BY <1>3, <1>4, <2>2
<1>6. CASE m \notin Nat
  <2>1. 1 .. m = {} /\ 1 .. m = 1 .. 0 BY <1>1, <1>2, <1>6
  <2>2. chars = [k \in 1 .. 0 |-> chars[k]] BY <2>1
  <2> HIDE DEF chars, m
  <2>3. chars \in Seq({chars[k] : k \in 1 .. 0}) BY <2>2, ListIs
  <2> QED BY <1>3, <1>4, <2>3
<1> QED BY <1>5, <1>6

LEMMA JoinIn ==
    ASSUME NEW A, NEW B, NEW x \in Seq(A), NEW y \in Seq(B)
    PROVE  x \o y \in Seq(A \cup B)
<1> DEFINE C == A \cup B
<1>1. A \subseteq C /\ B \subseteq C OBVIOUS
<1> HIDE DEF C
<1>2. x \in Seq(C) /\ y \in Seq(C) BY <1>1
<1>3. x \o y \in Seq(C) BY <1>2
<1> QED BY <1>3 DEF C

LEMMA CasedLineIn ==
    ASSUME NEW mode, NEW A, NEW line, line.raw \in Seq(A), line.term \in Seq(A)
    PROVE  \E B : CasedLine(mode, line) \in Seq(B)
<1> DEFINE chars == CharsOf(Decoded(line.raw))
           units == [k \in DOMAIN chars |-> Narrow(chars[k])]
           u == CasedBytes(mode, units)
           wide == FlattenSeq([k \in DOMAIN u |-> Widen(u[k])])
           body == IF enc = "wide" THEN wide ELSE CasedBytes(mode, line.raw)
<1>1. CasedLine(mode, line) = body \o line.term BY DEF CasedLine
<1>2. \E B : wide \in Seq(B)
  <2>1. PICK C : chars \in Seq(C) BY CharsIn
  <2>2. units \in Seq({Narrow(chars[k]) : k \in DOMAIN chars})
    <3> DEFINE n == Len(chars)
               E == {Narrow(chars[k]) : k \in DOMAIN chars}
    <3>1. n \in Nat /\ DOMAIN chars = 1 .. n BY <2>1
    <3> HIDE DEF chars, n
    <3>2. units = [k \in 1 .. n |-> Narrow(chars[k])] BY <3>1
    <3>3. \A k \in 1 .. n : Narrow(chars[k]) \in E BY <3>1
    <3> HIDE DEF E
    <3> QED BY <3>1, <3>2, <3>3 DEF E
  <2> DEFINE D == CaseOf({Narrow(chars[k]) : k \in DOMAIN chars})
             W == {Widen(x)[j] : x \in D, j \in 1 .. 2}
             r == [k \in DOMAIN u |-> Widen(u[k])]
  <2>3. u \in Seq(D)
    <3> HIDE DEF units, chars
    <3> QED BY <2>2, CasedBytesIn
  <2> HIDE DEF D
  <2>4. ASSUME NEW x \in D PROVE Widen(x) \in Seq(W)
    <3>1. Widen(x)[1] \in W /\ Widen(x)[2] \in W
      <4>1. 1 \in 1 .. 2 /\ 2 \in 1 .. 2 OBVIOUS
      <4> QED BY <4>1
    <3>2. Widen(x) = <<Widen(x)[1], Widen(x)[2]>> BY DEF Widen
    <3> HIDE DEF W
    <3>3. <<Widen(x)[1], Widen(x)[2]>> \in Seq(W) BY <3>1
    <3> QED BY <3>2, <3>3
  <2> HIDE DEF u, W
  <2>5. r \in Seq(Seq(W))
    <3>1. \A k \in DOMAIN u : Widen(u[k]) \in Seq(W) BY <2>3, <2>4
    <3>2. DOMAIN u = 1 .. Len(u) /\ Len(u) \in Nat BY <2>3
    <3> QED BY <3>1, <3>2
  <2> HIDE DEF r
  <2>6. FlattenSeq(r) \in Seq(W) BY <2>5, FlattenIn
  <2> QED BY <2>6 DEF r
<1>3. CasedBytes(mode, line.raw) \in Seq(CaseOf(A)) BY CasedBytesIn
<1> HIDE DEF wide
<1>4. PICK B : body \in Seq(B) BY <1>2, <1>3
<1> HIDE DEF body
<1>5. body \o line.term \in Seq(B \cup A) BY <1>4, JoinIn
<1> QED BY <1>1, <1>5

-----------------------------------------------------------------------------
(* The lines of a file.                                                    *)

\* Every number below the count is the rank of a line.
LEMMA RankOnto ==
    ASSUME NEW S, IsFiniteSet(S), S \subseteq Int
    PROVE  \A k \in 0 .. Cardinality(S) - 1 : \E x \in S : Rank(S, x) = k
<1> DEFINE n == Cardinality(S)
           D == 0 .. n - 1
           f == [x \in S |-> Rank(S, x)]
<1>1. n \in Nat BY FS_CardinalityType
<1>2. \A x \in S : Rank(S, x) \in D
  <2> TAKE x \in S
  <2>1. Rank(S, x) \in Nat /\ Rank(S, x) < n BY RankFacts
  <2> HIDE DEF n
  <2> QED BY <1>1, <2>1
<1>3. f \in Injection(S, D)
  <2>1. f \in [S -> D] BY <1>2
  <2>2. \A x, y \in S : f[x] = f[y] => x = y BY RankFacts
  <2> HIDE DEF f, D
  <2> QED BY <2>1, <2>2 DEF Injection, IsInjective
<1>4. IsFiniteSet(D) /\ Cardinality(D) = n
  <2>1. 0 \in Int /\ n - 1 \in Int BY <1>1
  <2> DEFINE a == 0
             b == n - 1
  <2>2. a \in Int /\ b \in Int /\ (a > b => n = 0) /\ (~(a > b) => b - a + 1 = n) BY <1>1
  <2> HIDE DEF a, b
  <2>3. IsFiniteSet(a .. b) /\ Cardinality(a .. b) = IF a > b THEN 0 ELSE b - a + 1 BY <2>2, FS_Interval
  <2>4. Cardinality(a .. b) = n BY <2>2, <2>3
  <2> QED BY <2>3, <2>4 DEF a, b
<1> HIDE DEF f, D
<1>5. f \in Surjection(S, D)
  <2>1. Cardinality(S) = Cardinality(D) BY <1>4 DEF n
  <2> QED BY <1>3, <1>4, <2>1, FS_Injection
<1>6. \A k \in D : \E x \in S : f[x] = k BY <1>5 DEF Surjection
<1> QED BY <1>6 DEF f, D, n

\* What is read for the line that begins at s.
LEMMA LineReads ==
    ASSUME SearchIInv, NEW s \in Table(idx.kind, buf, idx.base)
    PROVE  LET i == Rank(Table(idx.kind, buf, idx.base), s) IN
           /\ LineStart(idx, buf, i) = s
           /\ LineAt(i).raw \in Seq(Bytes) /\ LineAt(i).term \in Seq(Bytes)
<1> DEFINE T == Table(idx.kind, buf, idx.base)
           i == Rank(T, s)
           w == Width(idx.kind)
           n == Len(buf)
           nls == Newlines(idx.kind, buf, idx.base, s, n)
           end == RawEnd(idx, buf, s)
           to == TextEnd(idx, buf, s, end)
           r == [from |-> s, to |-> to]
<1>1. /\ buf \in Seq(Bytes) /\ IndexIs(idx, buf) /\ idx.base \in Nat /\ idx.len = n /\ n \in Nat
      /\ idx.count = Cardinality(T)
  BY DEF SearchIInv, IndexIs
<1>2. /\ IsFiniteSet(T) /\ T \subseteq Int /\ s \in Nat /\ idx.base <= s /\ s < n
  BY <1>1, TableBounds
<1>3. LineStart(idx, buf, i) = s
  <2>1. SameSoFar(idx, buf, buf) BY DEF SameSoFar
  <2> QED BY <1>1, <2>1, LineStartIs
<1>4. i \in 0 .. idx.count - 1
  <2>1. Rank(T, s) \in Nat /\ Rank(T, s) < Cardinality(T) BY <1>2, RankFacts
  <2>2. Cardinality(T) \in Nat BY <1>2, FS_CardinalityType
  <2> HIDE DEF T
  <2> QED BY <1>1, <2>1, <2>2
<1>5. w \in 1 .. 2 BY WidthFacts
<1>6. \A p \in nls : p \in Nat /\ s <= p /\ p + w <= n
  <2>1. nls \subseteq s .. n - w BY DEF Newlines
  <2> HIDE DEF nls, n, w
  <2> QED BY <1>1, <1>2, <1>5, <2>1
<1> HIDE DEF w, n, nls, T, i
<1>7. end \in s .. n
  <2> DEFINE nl == IF nls = {} THEN n ELSE Least(nls)
  <2>1. FindNl(idx.kind, buf, idx.base, s, idx.len) = nl BY <1>1, OnlyOne DEF FindNl, Of, nls
  <2>2. end = IF nl = n THEN nl ELSE nl + w
    <3> HIDE DEF nl
    <3> QED BY <1>1, <2>1, OnlyOne DEF RawEnd, Of, w
  <2>3. nl = n \/ (nl \in Nat /\ s <= nl /\ nl + w <= n)
    <3>1. CASE nls = {} BY <3>1
    <3>2. CASE nls # {}
      <4>1. nls \subseteq Nat BY <1>6
      <4>2. Least(nls) \in nls BY <3>2, <4>1, LeastIs
      <4> QED BY <1>6, <3>2, <4>2
    <3> QED BY <3>1, <3>2
  <2> HIDE DEF nl, end
  <2> QED BY <1>1, <1>2, <1>5, <2>2, <2>3
<1>8. to \in s .. end
  <2> DEFINE cut(e, code) == IF e >= s + w /\ UnitAt(idx.kind, buf, e - w) = code THEN e - w ELSE e
  <2>1. to = cut(cut(end, LF), CR)
    <3> HIDE DEF end
    <3> QED BY OnlyOne DEF TextEnd, Of, w
  <2> HIDE DEF end, to
  <2>2. \A code : \A e \in s .. end : cut(e, code) \in s .. end
    <3> TAKE code
    <3> TAKE e \in s .. end
    <3>1. cut(e, code) = e \/ (cut(e, code) = e - w /\ e >= s + w) OBVIOUS
    <3> HIDE DEF cut
    <3> QED BY <1>2, <1>5, <1>7, <3>1
  <2>3. end \in s .. end BY <1>1, <1>2, <1>7
  <2> HIDE DEF cut
  <2> QED BY <2>1, <2>2, <2>3
<1>9. LineRange(idx, buf, i) = r
  <2> HIDE DEF end
  <2> QED BY <1>3, <1>4, OnlyOne DEF LineRange, Of, end
<1>10. LineAt(i) = [raw |-> Raw(r), term |-> SubSeq(buf, r.to + 1, RawEnd(idx, buf, r.from))]
  <2> HIDE DEF r
  <2> QED BY <1>9, OnlyOne DEF LineAt, Of
<1>11. LineAt(i).raw = SubSeq(buf, s + 1, to) /\ LineAt(i).term = SubSeq(buf, to + 1, end)
  <2>1. r.from = s /\ r.to = to OBVIOUS
  <2>2. LineAt(i).raw = Raw(r) /\ LineAt(i).term = SubSeq(buf, r.to + 1, RawEnd(idx, buf, r.from))
    <3> HIDE DEF r, to, end, i
    <3>1. LineAt(i) = [raw |-> Raw(r), term |-> SubSeq(buf, r.to + 1, RawEnd(idx, buf, r.from))] BY <1>10
    <3> DEFINE x == Raw(r)
               y == SubSeq(buf, r.to + 1, RawEnd(idx, buf, r.from))
    <3> HIDE DEF x, y
    <3>2. LineAt(i) = [raw |-> x, term |-> y] BY <3>1 DEF x, y
    <3>3. LineAt(i).raw = x /\ LineAt(i).term = y BY <3>2
    <3> QED BY <3>3 DEF x, y
  <2> HIDE DEF to, r
  <2> QED BY <2>1, <2>2 DEF Raw
<1> HIDE DEF end, to
<1>12. SubSeq(buf, s + 1, to) \in Seq(Bytes) /\ SubSeq(buf, to + 1, end) \in Seq(Bytes)
  <2> DEFINE a == s + 1
             b == to + 1
  <2>1. a \in 1 .. n + 1 /\ to \in a - 1 .. n /\ b \in 1 .. n + 1 /\ end \in b - 1 .. n
    BY <1>1, <1>2, <1>7, <1>8
  <2> HIDE DEF a, b
  <2>2. SubSeq(buf, a, to) \in Seq(Bytes) /\ SubSeq(buf, b, end) \in Seq(Bytes)
    BY <1>1, <2>1, SubSeqProperties DEF n
  <2> QED BY <2>2 DEF a, b
<1> QED BY <1>3, <1>11, <1>12 DEF i, T

LEMMA LineTexts ==
    ASSUME SearchIInv
    PROVE  /\ idx.count \in Nat
           /\ \A i \in 0 .. idx.count - 1 : LineAt(i).raw \in Seq(Bytes) /\ LineAt(i).term \in Seq(Bytes)
<1> DEFINE T == Table(idx.kind, buf, idx.base)
<1>1. buf \in Seq(Bytes) /\ idx.base \in Nat /\ idx.count = Cardinality(T) BY DEF SearchIInv, IndexIs
<1>2. IsFiniteSet(T) /\ T \subseteq Int BY <1>1, TableBounds
<1>3. \A i \in 0 .. idx.count - 1 : \E s \in T : Rank(T, s) = i
  <2> HIDE DEF T
  <2> QED BY <1>1, <1>2, RankOnto
<1>4. idx.count \in Nat BY <1>1, <1>2, FS_CardinalityType
<1> QED BY <1>3, <1>4, LineReads

\* Whatever is written for each line, there is what is written for the first
\* of them.
LEMMA YieldsExist ==
    ASSUME SearchIInv, NEW mode
    PROVE  \E A, c : Yields(c, mode, A)
<1> DEFINE N == idx.count
           I == 0 .. N - 1
           E(i) == {CasedAt(mode, i)[k] : k \in DOMAIN CasedAt(mode, i)}
           A == UNION {E(i) : i \in I}
           r == [i \in 1 .. N |-> CasedAt(mode, i - 1)]
<1>1. N \in Nat BY LineTexts
<1>2. \A i \in I : CasedAt(mode, i) \in Seq(A)
  <2> TAKE i \in I
  <2>1. \E B : CasedAt(mode, i) \in Seq(B)
    <3> DEFINE line == LineAt(i)
    <3>1. line.raw \in Seq(Bytes) /\ line.term \in Seq(Bytes) BY LineTexts
    <3>2. CasedAt(mode, i) = CasedLine(mode, line) BY DEF CasedAt
    <3> HIDE DEF line
    <3> QED BY <3>1, <3>2, CasedLineIn
  <2> DEFINE x == CasedAt(mode, i)
  <2>2. \A k \in DOMAIN x : x[k] \in A OBVIOUS
  <2> HIDE DEF x, A
  <2>3. x \in Seq(A) BY <2>1, <2>2 DEF x
  <2> QED BY <2>3 DEF x
<1> HIDE DEF A
<1>3. r \in Seq(Seq(A)) /\ Len(r) = N
  <2>1. \A i \in 1 .. N : i - 1 \in I BY <1>1
  <2>2. \A i \in 1 .. N : CasedAt(mode, i - 1) \in Seq(A) BY <1>2, <2>1
  <2> HIDE DEF N, I
  <2> QED BY <1>1, <2>2
<1>4. \A i \in 1 .. N : r[i] = CasedAt(mode, i - 1) OBVIOUS
<1> HIDE DEF r
<1>5. PICK c : /\ c[0] = <<>>
               /\ \A k \in 0 .. Len(r) : c[k] \in Seq(A)
               /\ \A k \in 1 .. Len(r) : c[k] = c[k - 1] \o r[k]
  BY <1>3, RunsExist
<1>6. Yields(c, mode, A) BY <1>2, <1>3, <1>4, <1>5 DEF Yields
<1> QED BY <1>6

\* Two stretches of a list that meet are one.
LEMMA Stretches ==
    ASSUME NEW A, NEW file \in Seq(A), NEW p \in 0 .. Len(file), NEW q \in 0 .. Len(file), p <= q
    PROVE  /\ SubSeq(file, 1, p) \in Seq(A) /\ SubSeq(file, p + 1, q) \in Seq(A)
           /\ SubSeq(file, 1, q) = SubSeq(file, 1, p) \o SubSeq(file, p + 1, q)
<1> DEFINE x == SubSeq(file, 1, p)
           y == SubSeq(file, p + 1, q)
           z == SubSeq(file, 1, q)
<1>1. x \in Seq(A) /\ Len(x) = p /\ \A k \in 1 .. p : x[k] = file[k]
  OBVIOUS
<1>2. z \in Seq(A) /\ Len(z) = q /\ \A k \in 1 .. q : z[k] = file[k]
  OBVIOUS
<1>3. y \in Seq(A) /\ Len(y) = q - p /\ \A k \in 1 .. q - p : y[k] = file[p + k]
  OBVIOUS
<1> HIDE DEF x, y, z
<1>4. Len(x \o y) = Len(z) /\ x \o y \in Seq(A) BY <1>1, <1>2, <1>3
<1>5. \A k \in 1 .. q : (x \o y)[k] = z[k]
  <2> TAKE k \in 1 .. q
  <2>1. k \in 1 .. Len(x) + Len(y) /\ p \in Nat /\ q \in Nat /\ k \in Nat BY <1>1, <1>3
  <2>2. (x \o y)[k] = IF k <= Len(x) THEN x[k] ELSE y[k - Len(x)] BY <1>1, <1>3, <2>1
  <2>3. CASE k <= p
    <3>1. k \in 1 .. p BY <2>1, <2>3
    <3> QED BY <1>1, <1>2, <2>2, <2>3, <3>1
  <2>4. CASE ~(k <= p)
    <3> DEFINE j == k - p
    <3>1. j \in 1 .. q - p /\ p + j = k BY <2>1, <2>4
    <3> HIDE DEF j
    <3>2. y[j] = file[k] BY <1>3, <3>1
    <3>3. (x \o y)[k] = y[j] BY <1>1, <2>2, <2>4 DEF j
    <3> QED BY <1>2, <3>2, <3>3
  <2> QED BY <2>3, <2>4
<1>6. z = x \o y
  <2> DEFINE u == x \o y
  <2>1. u \in Seq(A) /\ z \in Seq(A) /\ Len(u) = Len(z) /\ \A k \in 1 .. Len(u) : u[k] = z[k]
    BY <1>2, <1>4, <1>5
  <2> HIDE DEF u
  <2>2. u = z BY ONLY <2>1, SeqEqual
  <2> QED BY <2>2 DEF u
<1> QED BY <1>1, <1>3, <1>6 DEF x, y, z

\* Where line i begins, and behind the last one the end.
OffsetOf(i) == IF i < idx.count THEN LineStart(idx, buf, i) ELSE idx.len

LEMMA OffsetFacts ==
    ASSUME SearchIInv, idx.count > 0
    PROVE  /\ OffsetOf(0) = 0 /\ OffsetOf(idx.count) = Len(buf)
           /\ \A i \in 0 .. idx.count : OffsetOf(i) \in 0 .. Len(buf)
           /\ \A i, j \in 0 .. idx.count : i < j => OffsetOf(i) < OffsetOf(j)
<1> DEFINE T == Table(idx.kind, buf, idx.base)
           N == idx.count
           n == Len(buf)
<1>1. /\ buf \in Seq(Bytes) /\ idx.base = 0 /\ idx.base \in Nat /\ idx.len = n /\ n \in Nat
      /\ N = Cardinality(T)
  BY DEF SearchIInv, IndexIs
<1>2. /\ IsFiniteSet(T) /\ T \subseteq Int /\ \A s \in T : s \in Nat /\ s < n
      /\ (0 < n => 0 \in T) /\ (0 >= n => T = {})
  BY <1>1, TableBounds
<1>3. N \in Nat BY LineTexts
<1>4. \A i \in 0 .. N - 1 : \E s \in T : Rank(T, s) = i
  <2> HIDE DEF T
  <2> QED BY <1>1, <1>2, RankOnto
<1>5. \A s \in T : LineStart(idx, buf, Rank(T, s)) = s BY LineReads
<1>6. \A x, y \in T : x < y => Rank(T, x) < Rank(T, y)
  <2> HIDE DEF T
  <2> QED BY <1>2, RankFacts
<1>7. \A x : Rank(T, x) \in Nat
  <2> HIDE DEF T
  <2> QED BY <1>2, RankFacts
<1> HIDE DEF T, N, n
<1>8. \A i \in 0 .. N - 1 : OffsetOf(i) \in T /\ Rank(T, OffsetOf(i)) = i
  <2> TAKE i \in 0 .. N - 1
  <2>1. i < N BY <1>3
  <2>2. PICK s \in T : Rank(T, s) = i BY <1>4
  <2>3. OffsetOf(i) = s BY <1>5, <2>1, <2>2 DEF OffsetOf, N
  <2> QED BY <2>2, <2>3
<1>9. OffsetOf(N) = n
  <2>1. ~(N < N) BY <1>3
  <2> QED BY <1>1, <2>1 DEF OffsetOf, N
<1>10. \A i \in 0 .. N : OffsetOf(i) \in 0 .. n
  <2> TAKE i \in 0 .. N
  <2>1. CASE i = N BY <1>1, <1>9, <2>1
  <2>2. CASE i # N
    <3>1. i \in 0 .. N - 1 BY <1>3, <2>2
    <3> DEFINE x == OffsetOf(i)
    <3>2. x \in T BY <1>8, <3>1
    <3> HIDE DEF x
    <3>3. x \in Nat /\ x < n BY <1>2, <3>2
    <3>4. x \in 0 .. n BY <1>1, <3>3
    <3> QED BY <3>4 DEF x
  <2> QED BY <2>1, <2>2
<1>11. \A i, j \in 0 .. N : i < j => OffsetOf(i) < OffsetOf(j)
  <2> TAKE i, j \in 0 .. N
  <2> HAVE i < j
  <2>1. i \in 0 .. N - 1 /\ OffsetOf(i) \in T /\ Rank(T, OffsetOf(i)) = i
    <3>1. i \in 0 .. N - 1 BY <1>3
    <3> QED BY <1>8, <3>1
  <2>2. CASE j = N BY <1>2, <1>9, <2>1, <2>2
  <2>3. CASE j # N
    <3>1. j \in 0 .. N - 1 BY <1>3, <2>3
    <3>2. OffsetOf(j) \in T /\ Rank(T, OffsetOf(j)) = j BY <1>8, <3>1
    <3> DEFINE x == OffsetOf(i)
               y == OffsetOf(j)
    <3>3. x \in T /\ y \in T /\ Rank(T, x) = i /\ Rank(T, y) = j BY <2>1, <3>2
    <3> HIDE DEF x, y
    <3>4. x \in Nat /\ y \in Nat BY <1>2, <3>3
    <3>5. ~(y < x) /\ y # x BY <1>6, <1>3, <3>3
    <3>6. x < y BY <3>4, <3>5
    <3> QED BY <3>6 DEF x, y
  <2> QED BY <2>2, <2>3
<1>12. OffsetOf(0) = 0
  <2>1. N > 0 /\ 0 \in 0 .. N - 1 BY <1>3 DEF N
  <2>2. OffsetOf(0) \in T /\ Rank(T, OffsetOf(0)) = 0 BY <1>8, <2>1
  <2> DEFINE x == OffsetOf(0)
  <2>3. x \in T /\ Rank(T, x) = 0 /\ x \in Nat BY <1>2, <2>2
  <2> HIDE DEF x
  <2>4. 0 \in T BY <1>1, <1>2, <2>3
  <2>5. ~(0 < x)
    <3>1. 0 < x => Rank(T, 0) < Rank(T, x) BY <1>6, <2>3, <2>4
    <3>2. Rank(T, 0) \in Nat BY <1>7
    <3> QED BY <2>3, <3>1, <3>2
  <2>6. x = 0 BY <2>3, <2>5
  <2> QED BY <2>6 DEF x
<1> QED BY <1>9, <1>10, <1>11, <1>12 DEF N, n

LEMMA PartsJoin ==
    ASSUME SearchIInv, idx.count > 0, NEW lines \in 1 .. 3
    PROVE  FlattenSeq(Parts(lines)) = buf
<1> DEFINE N == idx.count
           K == Pieces(N, lines)
           cut(k) == OffsetOf(Cut(N, lines, k))
           r == [k \in 1 .. K |-> Part(k, lines)]
           d == [k \in 0 .. K |-> SubSeq(buf, 1, cut(k))]
<1>1. buf \in Seq(Bytes) /\ idx.len = Len(buf) BY DEF SearchIInv, IndexIs
<1>2. N \in Nat BY LineTexts
<1>3. /\ K \in Nat /\ Cut(N, lines, 0) = 0 /\ Cut(N, lines, K) = N
      /\ \A k \in 0 .. K : Cut(N, lines, k) \in 0 .. N
      /\ \A k \in 1 .. K :
                 /\ (k - 1) * lines < N /\ (k - 1) * lines \in Nat
                 /\ Cut(N, lines, k - 1) = (k - 1) * lines
                 /\ (k - 1) * lines < Cut(N, lines, k)
  BY <1>2, CutFacts
<1>4. Parts(lines) = r BY DEF Parts, Pieces
<1>5. ASSUME NEW k \in 1 .. K
      PROVE  /\ cut(k - 1) \in 0 .. Len(buf) /\ cut(k) \in 0 .. Len(buf) /\ cut(k - 1) <= cut(k)
             /\ Part(k, lines) = SubSeq(buf, cut(k - 1) + 1, cut(k))
  <2> DEFINE s == (k - 1) * lines
             e == Cut(N, lines, k)
  <2>1. k \in 0 .. K BY <1>3
  <2>2. s < N /\ s \in Nat /\ e \in 0 .. N /\ s < e /\ Cut(N, lines, k - 1) = s BY <1>3, <2>1
  <2>3. Part(k, lines) = SubSeq(buf, OffsetOf(s) + 1, OffsetOf(e))
    <3>1. OffsetOf(s) = LineStart(idx, buf, s) BY <2>2 DEF OffsetOf
    <3>2. OffsetOf(e) = IF k * lines < idx.count THEN LineStart(idx, buf, k * lines) ELSE idx.len
      <4>1. CASE k * lines < idx.count BY <4>1 DEF Cut, OffsetOf
      <4>2. CASE ~(k * lines < idx.count)
        <5>1. e = N /\ ~(N < N) BY <1>2, <4>2 DEF Cut
        <5> QED BY <4>2, <5>1 DEF OffsetOf
      <4> QED BY <4>1, <4>2
    <3> QED BY <3>1, <3>2 DEF Part
  <2> HIDE DEF s, e, N, K
  <2>4. s \in 0 .. N BY <1>2, <2>2
  <2>5. OffsetOf(s) \in 0 .. Len(buf) /\ OffsetOf(e) \in 0 .. Len(buf) /\ OffsetOf(s) < OffsetOf(e)
    BY <2>2, <2>4, OffsetFacts DEF N
  <2>6. OffsetOf(s) <= OffsetOf(e)
    <3> DEFINE x == OffsetOf(s)
               y == OffsetOf(e)
    <3>1. x \in 0 .. Len(buf) /\ y \in 0 .. Len(buf) /\ x < y /\ Len(buf) \in Nat BY <1>1, <2>5
    <3> HIDE DEF x, y
    <3>2. x <= y BY <3>1
    <3> QED BY <3>2 DEF x, y
  <2>7. cut(k - 1) = OffsetOf(s) /\ cut(k) = OffsetOf(e) BY <2>2 DEF e
  <2> HIDE DEF cut
  <2> QED BY <2>3, <2>5, <2>6, <2>7
<1>6. cut(0) = 0 /\ cut(K) = Len(buf) BY <1>3, OffsetFacts
<1> HIDE DEF N, K, cut
<1>7. ASSUME NEW k \in 1 .. K
      PROVE  /\ Part(k, lines) \in Seq(Bytes)
             /\ SubSeq(buf, 1, cut(k)) = SubSeq(buf, 1, cut(k - 1)) \o Part(k, lines)
  <2> DEFINE p == cut(k - 1)
             q == cut(k)
  <2>1. p \in 0 .. Len(buf) /\ q \in 0 .. Len(buf) /\ p <= q BY <1>5
  <2>2. Part(k, lines) = SubSeq(buf, p + 1, q) BY <1>5
  <2> HIDE DEF p, q
  <2>3. /\ SubSeq(buf, p + 1, q) \in Seq(Bytes)
        /\ SubSeq(buf, 1, q) = SubSeq(buf, 1, p) \o SubSeq(buf, p + 1, q)
    BY <1>1, <2>1, Stretches
  <2> QED BY <2>2, <2>3 DEF p, q
<1>8. r \in Seq(Seq(Bytes)) /\ Len(r) = K BY <1>3, <1>7
<1>9. d[0] = <<>> /\ d[K] = buf
  <2>1. 0 \in 0 .. K /\ K \in 0 .. K BY <1>3
  <2>2. SubSeq(buf, 1, 0) = <<>> /\ SubSeq(buf, 1, Len(buf)) = buf BY <1>1
  <2> QED BY <1>6, <2>1, <2>2
<1>10. \A k \in 1 .. K : d[k] = d[k - 1] \o r[k]
  <2> TAKE k \in 1 .. K
  <2>1. k \in 0 .. K /\ k - 1 \in 0 .. K BY <1>3
  <2>2. d[k] = SubSeq(buf, 1, cut(k)) /\ d[k - 1] = SubSeq(buf, 1, cut(k - 1)) BY <2>1
  <2>3. r[k] = Part(k, lines) OBVIOUS
  <2> HIDE DEF d, r
  <2> QED BY <1>7, <2>2, <2>3
<1>11. \A k \in 0 .. K : d[k] \in Seq(Bytes)
  <2> DEFINE Q == {k \in 0 .. K : d[k] \in Seq(Bytes)}
  <2>1. 0 \in Q
    <3>1. <<>> \in Seq(Bytes) /\ 0 \in 0 .. K BY <1>3
    <3> HIDE DEF d
    <3> QED BY <1>9, <3>1
  <2>2. \A k \in 1 .. K : k - 1 \in Q => k \in Q
    <3> TAKE k \in 1 .. K
    <3> HAVE k - 1 \in Q
    <3>1. r[k] \in Seq(Bytes) BY <1>7
    <3>2. k \in 0 .. K /\ d[k - 1] \in Seq(Bytes) BY <1>3
    <3>3. d[k] = d[k - 1] \o r[k] BY <1>10
    <3> HIDE DEF d, r
    <3>4. d[k - 1] \o r[k] \in Seq(Bytes) BY <3>1, <3>2, ConcatProperties
    <3> QED BY <3>2, <3>3, <3>4
  <2>3. \A k \in 0 .. K : k \in Q
    <3> HIDE DEF Q
    <3> QED BY <1>3, <2>1, <2>2, Climb
  <2> QED BY <2>3
<1> HIDE DEF r, d
<1>12. FlattenSeq(r) \in Seq(Bytes) /\ d[0] \o FlattenSeq(r) = d[Len(r)] BY <1>8, <1>10, <1>11, FlattenRuns
<1>13. <<>> \o FlattenSeq(r) = FlattenSeq(r) BY <1>12, ConcatEmptySeq
<1> QED BY <1>4, <1>8, <1>9, <1>12, <1>13

\* However a file is cut, by chunks of lines for parallel writers or into
\* parts of lines, the pieces in order are the whole (stream_chunks_parallel,
\* split_by_lines), for any file, however it grew, and any batches.
THEOREM PiecesAreTheWhole == SearchSpec => []PiecesMakeWhole
<1>1. SearchIInv => PiecesMakeWhole
  <2> SUFFICES ASSUME SearchIInv, NEW lines \in 1 .. 3
               PROVE  /\ \A mode \in {"upper", "camel"} :
                           Chunked(LAMBDA line : CasedLine(mode, line), lines)
                           = Streamed(LAMBDA line : CasedLine(mode, line))
                      /\ idx.count > 0 => FlattenSeq(Parts(lines)) = buf
    BY DEF PiecesMakeWhole
  <2>1. ASSUME NEW mode \in {"upper", "camel"}
        PROVE  Chunked(LAMBDA line : CasedLine(mode, line), lines)
               = Streamed(LAMBDA line : CasedLine(mode, line))
    <3>1. \E A, c : Yields(c, mode, A) BY YieldsExist
    <3>2. PICK A, c : Yields(c, mode, A) BY <3>1
    <3>3. idx.count \in Nat BY LineTexts
    <3>4. Streamed(LAMBDA line : CasedLine(mode, line)) = c[idx.count]
      BY <3>2, <3>3, BatchAssumption, StreamRuns
    <3>5. Chunked(LAMBDA line : CasedLine(mode, line), lines) = c[idx.count]
      BY <3>2, <3>3, BatchAssumption, ChunkedRuns
    <3> QED BY <3>4, <3>5
  <2>2. idx.count > 0 => FlattenSeq(Parts(lines)) = buf BY PartsJoin
  <2> QED BY <2>1, <2>2
<1> QED BY <1>1, SearchInitIInv, SearchStepIInv, PTL DEF SearchSpec

-----------------------------------------------------------------------------
(* An analysis and the growth of its file.                                 *)

LEMMA DivIs ==
    ASSUME NEW x \in Nat, NEW w \in Nat \ {0}
    PROVE  LET d == x \div w IN d \in Nat /\ d * w <= x /\ x < (d + 1) * w
OBVIOUS

LEMMA DivUnique ==
    ASSUME NEW x \in Nat, NEW w \in Nat \ {0}, NEW d \in Nat, d * w <= x, x < (d + 1) * w
    PROVE  x \div w = d
OBVIOUS

\* Dividing twice is dividing by the product.
LEMMA DivDiv ==
    ASSUME NEW x \in Nat, NEW w \in Nat \ {0}, NEW r \in Nat \ {0}
    PROVE  (x \div w) \div r = x \div (w * r)
<1> DEFINE a == x \div w
           b == a \div r
<1>1. a \in Nat /\ a * w <= x /\ x < (a + 1) * w BY DivIs
<1>2. b \in Nat /\ b * r <= a /\ a < (b + 1) * r
  <2> HIDE DEF a
  <2> QED BY <1>1, DivIs
<1> HIDE DEF a, b
<1>3. b * (w * r) <= x
  <2>1. (b * r) * w <= a * w BY <1>1, <1>2
  <2>2. b * (w * r) = (b * r) * w BY <1>2
  <2> QED BY <1>1, <1>2, <2>1, <2>2
<1>4. x < (b + 1) * (w * r)
  <2>1. (a + 1) * w <= ((b + 1) * r) * w BY <1>1, <1>2
  <2>2. (b + 1) * (w * r) = ((b + 1) * r) * w BY <1>2
  <2> QED BY <1>1, <1>2, <2>1, <2>2
<1>5. w * r \in Nat \ {0} OBVIOUS
<1> DEFINE c == w * r
<1> HIDE DEF c
<1>6. x \div c = b BY <1>2, <1>3, <1>4, <1>5, DivUnique DEF c
<1> QED BY <1>6 DEF a, b, c

-----------------------------------------------------------------------------
(* The width of the bins.                                                  *)

\* expanded_histogram_width as a function of the width it starts from.
Wider(bytes) ==
    CHOOSE g : g = [w \in Nat \ {0} |-> IF bytes <= w * Bins THEN w ELSE g[2 * w]]

LEMMA WiderIs ==
    ASSUME NEW bytes \in Nat
    PROVE  \A w \in Nat \ {0} :
              Wider(bytes)[w] = IF bytes <= w * Bins THEN w ELSE Wider(bytes)[2 * w]
<1> DEFINE R(g, w) == IF bytes <= w * Bins THEN w ELSE g[2 * w]
           Runs(g) == g = [w \in Nat \ {0} |-> IF bytes <= w * Bins THEN w ELSE g[2 * w]]
           one == 1
           N == 2 * bytes + 2
           V == Nat
           stop == {w \in one .. N : bytes <= w * Bins}
           base == [w \in one .. N |-> w]
           step == [w \in one .. N |-> [v \in V |-> v]]
           next == [w \in one .. N |-> 2 * w]
<1>1. one \in Nat /\ N \in Nat /\ one = 1 /\ Bins \in Nat \ {0} BY BinsAssumption
<1>2. \A w \in Nat : bytes <= w => bytes <= w * Bins BY <1>1
<1>3. \A w \in one .. N : w \notin stop => 2 * w \in w + 1 .. N
  <2> TAKE w \in one .. N
  <2> HAVE w \notin stop
  <2>1. w \in Nat /\ w >= 1 /\ ~(bytes <= w) BY <1>2
  <2> QED BY <2>1
<1>4. Descending(one, N, V, stop, base, step, next)
  <2> DEFINE two(w) == 2 * w
  <2>1. \A w \in one .. N : base[w] = w /\ next[w] = two(w) /\ \A v \in V : step[w][v] = v OBVIOUS
  <2>2. \A w \in one .. N : w \in V OBVIOUS
  <2>3. \A w \in one .. N : w \notin stop => two(w) \in w + 1 .. N BY <1>3
  <2> HIDE DEF stop, base, step, next, N, V, one, two
  <2> QED BY <2>1, <2>2, <2>3 DEF Descending
<1>5. PICK f : Unrolls(f, one, N, stop, base, step, next)
  <2> HIDE DEF stop, base, step, next, N, V, one
  <2> QED BY <1>1, <1>4, UnrolledExists
<1>6. \A w \in one .. N : f[w] \in V
  <2> HIDE DEF stop, base, step, next, N, V, one
  <2> QED BY <1>1, <1>4, <1>5, UnrolledIn
<1>7. \A w \in one .. N : f[w] = IF w \in stop THEN base[w] ELSE step[w][f[next[w]]]
  <2> HIDE DEF stop, base, step, next
  <2> QED BY <1>5 DEF Unrolls
<1> DEFINE g == [w \in Nat \ {0} |-> IF w <= N THEN f[w] ELSE w]
<1>8. \A w \in Nat \ {0} : g[w] = R(g, w)
  <2> TAKE w \in Nat \ {0}
  <2>1. CASE w > N
    <3>1. ~(w <= N) /\ bytes <= w * Bins BY <1>2, <2>1
    <3> HIDE DEF N
    <3> QED BY <3>1
  <2>2. CASE w <= N /\ bytes <= w * Bins
    <3>1. w \in one .. N /\ w \in stop BY <2>2
    <3>2. base[w] = w BY <3>1
    <3>3. f[w] = w
      <4> HIDE DEF stop, base, step, next
      <4> QED BY <1>7, <3>1, <3>2
    <3> HIDE DEF N
    <3> QED BY <2>2, <3>3
  <2>3. CASE w <= N /\ ~(bytes <= w * Bins)
    <3>1. w \in one .. N /\ w \notin stop BY <2>3
    <3> DEFINE x == 2 * w
    <3>2. x \in one .. N /\ x <= N /\ x \in Nat \ {0}
      <4>1. x \in w + 1 .. N BY <1>3, <3>1
      <4> QED BY <1>1, <3>1, <4>1
    <3>3. next[w] = x /\ \A v \in V : step[w][v] = v BY <3>1
    <3>4. f[w] = f[x]
      <4>1. f[x] \in V BY <1>6, <3>2
      <4> HIDE DEF stop, base, step, next, x, V, N
      <4> QED BY <1>7, <3>1, <3>3, <4>1
    <3> HIDE DEF N, x
    <3>5. g[w] = f[w] BY <2>3
    <3>6. g[x] = f[x] BY <3>2
    <3>7. R(g, w) = g[x] BY <2>3 DEF x
    <3> QED BY <3>4, <3>5, <3>6, <3>7
  <2> QED BY <1>1, <2>1, <2>2, <2>3
<1>9. Runs(g)
  <2>1. g = [w \in Nat \ {0} |-> g[w]] OBVIOUS
  <2> HIDE DEF g
  <2> QED BY <1>8, <2>1
<1>10. Wider(bytes) = CHOOSE runs : Runs(runs) BY DEF Wider
<1>11. Runs(Wider(bytes))
  <2> HIDE DEF Runs, g
  <2> QED BY <1>9, <1>10
<1> QED BY <1>11

LEMMA ExpandedIs == ASSUME NEW w, NEW bytes PROVE Expanded(w, bytes) = Wider(bytes)[w]
BY DEF Expanded, Wider

\* It widens by doubling, until the bins hold all bytes; to go on from there
\* for more bytes is to have gone on from the start.
LEMMA Widens ==
    ASSUME NEW bytes \in Nat, NEW more \in Nat, bytes <= more, NEW width \in Nat \ {0}
    PROVE  /\ bytes <= Expanded(width, bytes) * Bins
           /\ \E r \in Nat \ {0} : Expanded(width, bytes) = width * r
           /\ Expanded(Expanded(width, bytes), more) = Expanded(width, more)
<1> DEFINE one == 1
           N == width + bytes + 2
           F == Wider(bytes)
           G == Wider(more)
           Q == {w \in Nat \ {0} : /\ F[w] \in Nat \ {0} /\ bytes <= F[w] * Bins
                                   /\ \E r \in Nat \ {0} : F[w] = w * r
                                   /\ G[F[w]] = G[w]}
<1>1. one \in Nat /\ N \in Nat /\ one = 1 /\ Bins \in Nat \ {0} BY BinsAssumption
<1>2. /\ \A w \in Nat \ {0} : F[w] = IF bytes <= w * Bins THEN w ELSE F[2 * w]
      /\ \A w \in Nat \ {0} : G[w] = IF more <= w * Bins THEN w ELSE G[2 * w]
  BY WiderIs
<1>3. \A w \in Nat : bytes <= w => bytes <= w * Bins BY <1>1
<1> HIDE DEF F, G
<1>4. ASSUME NEW w \in Nat \ {0}, bytes <= w * Bins PROVE w \in Q
  <2>1. F[w] = w BY <1>2, <1>4
  <2>2. w = w * 1 /\ 1 \in Nat \ {0} OBVIOUS
  <2> QED BY <1>4, <2>1, <2>2
<1>5. ASSUME NEW w \in Nat \ {0}, ~(bytes <= w * Bins), 2 * w \in Q PROVE w \in Q
  <2>1. F[w] = F[2 * w] BY <1>2, <1>5
  <2>2. ~(more <= w * Bins) BY <1>1, <1>5
  <2>3. G[w] = G[2 * w] BY <1>2, <2>2
  <2>4. PICK r \in Nat \ {0} : F[2 * w] = (2 * w) * r BY <1>5
  <2>5. (2 * w) * r = w * (2 * r) /\ 2 * r \in Nat \ {0} BY <2>4
  <2>6. \E s \in Nat \ {0} : F[w] = w * s BY <2>1, <2>4, <2>5
  <2> QED BY <1>5, <2>1, <2>3, <2>6
<1>6. \A s \in one .. N : (\A t \in s + 1 .. N : t \in Q) => s \in Q
  <2> TAKE s \in one .. N
  <2> HAVE \A t \in s + 1 .. N : t \in Q
  <2>1. s \in Nat \ {0} OBVIOUS
  <2>2. CASE bytes <= s * Bins BY <1>4, <2>1, <2>2
  <2>3. CASE ~(bytes <= s * Bins)
    <3>1. ~(bytes <= s) BY <1>3, <2>1, <2>3
    <3>2. CASE 2 * s \in s + 1 .. N
      <4> HIDE DEF Q
      <4> QED BY <1>5, <2>1, <2>3, <3>2
    <3>3. CASE ~(2 * s \in s + 1 .. N)
      <4>1. 2 * s \in Nat \ {0} /\ 2 * s > N BY <2>1, <3>3
      <4>2. bytes <= (2 * s) BY <4>1
      <4>3. bytes <= (2 * s) * Bins BY <1>3, <4>1, <4>2
      <4>4. 2 * s \in Q
        <5> HIDE DEF Q
        <5> QED BY <1>4, <4>1, <4>3
      <4> HIDE DEF Q
      <4> QED BY <1>5, <2>1, <2>3, <4>4
    <3> QED BY <3>2, <3>3
  <2> QED BY <2>2, <2>3
<1>7. \A s \in one .. N : s \in Q
  <2> HIDE DEF Q, N, one
  <2> QED BY <1>1, <1>6, ComeDown
<1>8. width \in Q
  <2>1. width \in one .. N OBVIOUS
  <2> HIDE DEF Q, N, one
  <2> QED BY <1>7, <2>1
<1>9. Expanded(width, bytes) = F[width] BY ExpandedIs DEF F
<1>10. Expanded(Expanded(width, bytes), more) = G[F[width]] /\ Expanded(width, more) = G[width]
  BY <1>9, ExpandedIs DEF G
<1> QED BY <1>8, <1>9, <1>10

-----------------------------------------------------------------------------
(* The hits of a line.                                                     *)

\* The needle of a query has a character and every character a byte.
LEMMA NeedleIs ==
    ASSUME NEW q \in Queries
    PROVE  /\ q.needle \in Seq(Seq(Bytes)) /\ Len(q.needle) >= 1
           /\ NeedleBytes(q) \in Seq(Bytes) /\ Len(NeedleBytes(q)) >= 1
<1> DEFINE E == Seq(0 .. 255) \ {<<>>}
           r == q.needle
           L == Len(r)
<1>1. r \in Seq(E) /\ r # <<>> BY QueriesAssumption
<1> HIDE DEF r
<1>2. L \in Nat /\ L >= 1 /\ r \in Seq(Seq(Bytes))
  <2>1. E \subseteq Seq(Bytes) BY DEF Bytes
  <2>2. r \in Seq(Seq(Bytes))
    <3> HIDE DEF E
    <3> QED BY <1>1, <2>1
  <2> HIDE DEF E
  <2> QED BY <1>1, <2>2
<1>3. PICK c : /\ c[0] = <<>>
               /\ \A k \in 0 .. Len(r) : c[k] \in Seq(Bytes)
               /\ \A k \in 1 .. Len(r) : c[k] = c[k - 1] \o r[k]
  BY <1>2, RunsExist
<1>4. FlattenSeq(r) \in Seq(Bytes) /\ c[0] \o FlattenSeq(r) = c[Len(r)] BY <1>2, <1>3, FlattenRuns
<1> DEFINE x == c[L - 1]
           y == r[L]
           z == FlattenSeq(r)
<1>5. x \in Seq(Bytes) /\ c[L] = x \o y
  <2>1. L - 1 \in 0 .. L /\ L \in 1 .. L BY <1>2
  <2> QED BY <1>3, <2>1
<1>6. y \in Seq(Bytes) /\ y # <<>>
  <2>1. L \in 1 .. L BY <1>2
  <2>2. y \in E
    <3> HIDE DEF E
    <3> QED BY <1>1, <2>1
  <2> QED BY <2>2 DEF Bytes
<1> HIDE DEF x, y, z
<1>7. z = x \o y
  <2>1. <<>> \o z = z BY <1>4 DEF z
  <2> QED BY <1>3, <1>4, <1>5, <2>1 DEF z
<1>8. Len(z) >= 1 BY <1>5, <1>6, <1>7
<1> QED BY <1>2, <1>4, <1>8 DEF NeedleBytes, z, r

\* find_iter finds only where the needle fits.
LEMMA FindIterIn ==
    ASSUME NEW A, NEW hay \in Seq(A), NEW B, NEW needle \in Seq(B), Len(needle) >= 1
    PROVE  FindIter(hay, needle) \subseteq {i \in Nat : i + Len(needle) <= Len(hay)}
<1> DEFINE n == Len(needle)
           N == Len(hay)
           zero == 0
           M == N + n
           W == {i \in Nat : i + n <= N}
           V == SUBSET W
           at(i) == i + n <= Len(hay) /\ SubSeq(hay, i + 1, i + n) = needle
           R(g, i) == IF i + n > Len(hay) THEN {} ELSE IF at(i) THEN {i} \cup g[i + n] ELSE g[i + 1]
           Runs(g) == g = [i \in 0 .. Len(hay) + n |-> R(g, i)]
           f == CHOOSE g : Runs(g)
           stop == {i \in zero .. M : i + n > N}
           base == [i \in zero .. M |-> {}]
           step == [i \in zero .. M |-> [v \in V |-> IF at(i) THEN {i} \cup v ELSE v]]
           next == [i \in zero .. M |-> IF at(i) THEN i + n ELSE i + 1]
<1>1. N \in Nat /\ M \in Nat /\ zero \in Nat /\ zero = 0 /\ M = N + n /\ n \in Nat /\ n >= 1 OBVIOUS
<1>2. FindIter(hay, needle) = f[0] BY OnlyOne DEF FindIter, Of, ScanLeft
<1> HIDE DEF at
<1>3. ASSUME NEW i \in zero .. M, i \notin stop
      PROVE  /\ (IF at(i) THEN i + n ELSE i + 1) \in i + 1 .. M
             /\ i \in W /\ ~(i + n > N)
  <2>1. i + n <= N /\ i \in Nat BY <1>1, <1>3
  <2>2. i + n \in i + 1 .. M /\ i + 1 \in i + 1 .. M BY <1>1, <2>1
  <2> HIDE DEF N, M, n
  <2> QED BY <1>1, <2>1, <2>2
<1>4. Descending(zero, M, V, stop, base, step, next)
  <2> DEFINE join(i, v) == IF at(i) THEN {i} \cup v ELSE v
             to(i) == IF at(i) THEN i + n ELSE i + 1
  <2>1. \A i \in zero .. M : base[i] = {} /\ next[i] = to(i)
                             /\ \A v \in V : step[i][v] = join(i, v)
    OBVIOUS
  <2>2. {} \in V OBVIOUS
  <2>3. \A i \in zero .. M : i \notin stop => \A v \in V : join(i, v) \in V
    <3> TAKE i \in zero .. M
    <3> HAVE i \notin stop
    <3>1. i \in W BY <1>3
    <3> HIDE DEF W
    <3> QED BY <3>1
  <2>4. \A i \in zero .. M : i \notin stop => to(i) \in i + 1 .. M BY <1>3
  <2> HIDE DEF stop, base, step, next, M, V, zero, join, to
  <2> QED BY <2>1, <2>2, <2>3, <2>4 DEF Descending
<1>5. \A i \in zero .. M : i \in stop <=> i + n > Len(hay) OBVIOUS
<1> HIDE DEF R
<1>6. Runs(f)
  <2>1. PICK g : Unrolls(g, zero, M, stop, base, step, next)
    <3> HIDE DEF stop, base, step, next, V, M, f, zero
    <3> QED BY <1>1, <1>4, UnrolledExists
  <2>2. \A i \in zero .. M : g[i] \in V
    <3> HIDE DEF stop, base, step, next, V, M, f, zero
    <3> QED BY <1>1, <1>4, <2>1, UnrolledIn
  <2>3. \A i \in zero .. M : g[i] = IF i \in stop THEN base[i] ELSE step[i][g[next[i]]]
    <3> HIDE DEF stop, base, step, next
    <3> QED BY <2>1 DEF Unrolls
  <2>4. \A i \in zero .. M : g[i] = R(g, i)
    <3> TAKE i \in zero .. M
    <3>1. CASE i \in stop
      <4>1. base[i] = {} OBVIOUS
      <4>2. g[i] = {}
        <5> HIDE DEF stop, base, step, next, f
        <5> QED BY <2>3, <3>1, <4>1
      <4> QED BY <1>5, <3>1, <4>2 DEF R
    <3>2. CASE i \notin stop
      <4> DEFINE x == IF at(i) THEN i + n ELSE i + 1
      <4>1. x \in i + 1 .. M BY <1>3, <3>2
      <4>2. x \in zero .. M
        <5>1. \A y \in i + 1 .. M : y \in zero .. M BY <1>1
        <5> HIDE DEF x, M
        <5> QED BY <4>1, <5>1
      <4>3. g[x] \in V BY <2>2, <4>2
      <4>4. next[i] = x OBVIOUS
      <4>5. \A v \in V : step[i][v] = IF at(i) THEN {i} \cup v ELSE v OBVIOUS
      <4>7. ~(i + n > Len(hay)) BY <1>5, <3>2
      <4> HIDE DEF stop, base, step, next, f, V, x, M
      <4>6. g[i] = IF at(i) THEN {i} \cup g[x] ELSE g[x] BY <2>3, <3>2, <4>3, <4>4, <4>5
      <4> QED BY <4>6, <4>7 DEF R, x
    <3> QED BY <3>1, <3>2
  <2>5. g = [i \in zero .. M |-> g[i]]
    <3> HIDE DEF stop, base, step, next
    <3> QED BY <2>1 DEF Unrolls
  <2>6. Runs(g) BY <2>4, <2>5
  <2> QED BY <2>6
<1> HIDE DEF f
<1>7. \A i \in zero .. M : f[i] = R(f, i) BY <1>6
<1> DEFINE Q == {i \in zero .. M : f[i] \in V}
<1>8. \A i \in zero .. M : (\A t \in i + 1 .. M : t \in Q) => i \in Q
  <2> TAKE i \in zero .. M
  <2>1. CASE i \in stop
    <3>1. i + n > Len(hay) BY <1>5, <2>1
    <3>2. f[i] = R(f, i) BY <1>7
    <3>3. R(f, i) = {} BY <3>1 DEF R
    <3>4. {} \in V OBVIOUS
    <3> HIDE DEF V, N, stop
    <3> QED BY <3>2, <3>3, <3>4
  <2>2. CASE i \notin stop
    <3> DEFINE x == IF at(i) THEN i + n ELSE i + 1
    <3>1. x \in i + 1 .. M /\ i \in W BY <1>3, <2>2
    <3>2. ~(i + n > Len(hay)) BY <1>5, <2>2
    <3>3. f[i] = IF at(i) THEN {i} \cup f[x] ELSE f[x] BY <1>7, <3>2 DEF R
    <3> HIDE DEF stop, x, M, W
    <3>4. ASSUME f[x] \in V PROVE f[i] \in V BY <3>1, <3>3, <3>4
    <3> HIDE DEF V
    <3> QED BY <3>1, <3>4
  <2> QED BY <2>1, <2>2
<1>9. \A i \in zero .. M : i \in Q
  <2> HIDE DEF Q, M, zero
  <2> QED BY <1>1, <1>8, ComeDown
<1>10. zero \in zero .. M BY <1>1
<1>11. f[zero] \in V
  <2> HIDE DEF V, M
  <2> QED BY <1>9, <1>10
<1> QED BY <1>2, <1>11

\* decode_line: a character begins where a boundary has another one behind it.
LEMMA DecodedIs ==
    ASSUME NEW A, NEW raw \in Seq(A)
    PROVE  LET line == Decoded(raw) IN
           /\ \E C : line \in Seq(C)
           /\ CharsOf(line) \in Seq({line[k].bytes : k \in 1 .. Len(line)})
           /\ Len(CharsOf(line)) = Len(line)
           /\ \A k \in 1 .. Len(line) : line[k].at \in Nat /\ line[k].at < Len(raw)
           /\ \A j, k \in 1 .. Len(line) : line[j].at = line[k].at => j = k
<1> DEFINE S == Bounds(raw)
           n == Cardinality(S)
           bs == Ordered(S)
           m == Len(bs) - 1
           part(k) == [at |-> bs[k], bytes |-> SubSeq(raw, bs[k] + 1, bs[k + 1])]
           line == [k \in 1 .. m |-> part(k)]
           L == IF n = 0 THEN 0 ELSE n - 1
           chars == [k \in 1 .. L |-> line[k].bytes]
<1>1. S \subseteq 0 .. Len(raw) /\ IsFiniteSet(S) BY BoundsFinite
<1>2. n \in Nat BY <1>1, FS_CardinalityType
<1>3. \A k \in 0 .. n - 1 : \E x \in S : Rank(S, x) = k
  <2>1. S \subseteq Int BY <1>1
  <2> HIDE DEF S
  <2> QED BY <1>1, <2>1, RankOnto
<1>4. \A k \in 1 .. n : bs[k] \in S /\ Rank(S, bs[k]) = k - 1
  <2> TAKE k \in 1 .. n
  <2>1. bs[k] = CHOOSE x \in S : Rank(S, x) = k - 1 BY DEF Ordered
  <2>2. k - 1 \in 0 .. n - 1 BY <1>2
  <2>3. \E x \in S : Rank(S, x) = k - 1 BY <1>3, <2>2
  <2> HIDE DEF S, bs, n
  <2> QED BY <2>1, <2>3
<1>5. Len(bs) = n
  <2>1. bs = [k \in 1 .. n |-> bs[k]] BY DEF Ordered
  <2> HIDE DEF bs, n
  <2> QED BY <1>2, <2>1, ListIs
<1>6. Decoded(raw) = line BY OnlyOne DEF Decoded, Of
<1>7. \A x, y \in S : x < y => Rank(S, x) < Rank(S, y)
  <2>1. S \subseteq Int BY <1>1
  <2> HIDE DEF S
  <2> QED BY <1>1, <2>1, RankFacts
<1> HIDE DEF bs, n, S
<1>8. L \in Nat /\ 1 .. m = 1 .. L /\ (\A k \in 1 .. L : k \in 1 .. n /\ k + 1 \in 1 .. n)
  BY <1>2, <1>5
<1> HIDE DEF L, m
<1>9. line = [k \in 1 .. L |-> line[k]] BY <1>8
<1>10. \A k \in 1 .. L : line[k] = part(k) BY <1>8
<1>11. \A k \in 1 .. L : line[k].at = bs[k]
  <2> HIDE DEF line
  <2> TAKE k \in 1 .. L
  <2> DEFINE y == SubSeq(raw, bs[k] + 1, bs[k + 1])
  <2>1. line[k] = [at |-> bs[k], bytes |-> y] BY <1>10
  <2> HIDE DEF y
  <2> QED BY <2>1
<1> HIDE DEF line
<1>12. line \in Seq({line[k] : k \in 1 .. L}) /\ Len(line) = L /\ DOMAIN line = 1 .. L
  BY <1>8, <1>9, ListIs
<1>13. CharsOf(line) = chars BY <1>12 DEF CharsOf
<1>14. chars \in Seq({line[k].bytes : k \in 1 .. L}) /\ Len(chars) = L
  <2>1. chars = [k \in 1 .. L |-> chars[k]] BY <1>8
  <2>2. \A k \in 1 .. L : chars[k] = line[k].bytes OBVIOUS
  <2> DEFINE X == {chars[k] : k \in 1 .. L}
             Y == {line[k].bytes : k \in 1 .. L}
  <2>3. X = Y OBVIOUS
  <2>4. chars \in Seq(X) /\ Len(chars) = L
    <3> HIDE DEF chars
    <3> QED BY <1>8, <2>1, ListIs
  <2> HIDE DEF chars, X, Y
  <2>5. chars \in Seq(Y) BY <2>3, <2>4
  <2> QED BY <2>4, <2>5 DEF Y
<1>15. \A k \in 1 .. L : line[k].at \in Nat /\ line[k].at < Len(raw)
  <2> TAKE k \in 1 .. L
  <2> DEFINE x == bs[k]
             y == bs[k + 1]
  <2>1. x \in S /\ y \in S /\ Rank(S, x) = k - 1 /\ Rank(S, y) = k
    <3>1. k \in 1 .. n /\ k + 1 \in 1 .. n BY <1>8
    <3> DEFINE j == k + 1
    <3>2. j \in 1 .. n /\ j - 1 = k BY <3>1
    <3> HIDE DEF j
    <3>3. bs[j] \in S /\ Rank(S, bs[j]) = j - 1 BY <1>4, <3>2
    <3>4. bs[k] \in S /\ Rank(S, bs[k]) = k - 1 BY <1>4, <3>1
    <3> QED BY <3>2, <3>3, <3>4 DEF j
  <2>2. line[k].at = x BY <1>11
  <2> HIDE DEF x, y
  <2>3. x \in Nat /\ y \in Nat /\ x <= Len(raw) /\ y <= Len(raw) BY <1>1, <2>1
  <2>4. ~(y < x) /\ y # x BY <1>7, <1>8, <2>1
  <2>5. x < y BY <2>3, <2>4
  <2> QED BY <2>2, <2>3, <2>5
<1>16. \A j, k \in 1 .. L : line[j].at = line[k].at => j = k
  <2> TAKE j, k \in 1 .. L
  <2> HAVE line[j].at = line[k].at
  <2>1. bs[j] = bs[k] BY <1>11
  <2>2. j \in 1 .. n /\ k \in 1 .. n BY <1>8
  <2>3. Rank(S, bs[j]) = j - 1 /\ Rank(S, bs[k]) = k - 1 BY <1>4, <2>2
  <2>4. j - 1 = k - 1 BY <2>1, <2>3
  <2> QED BY <2>4
<1>17. \E C : line \in Seq(C) BY <1>12
<1> HIDE DEF chars
<1> QED BY <1>6, <1>12, <1>13, <1>14, <1>15, <1>16, <1>17

\* Where it begins tells a hit from the others.
Apart(hits) == \A x, y \in hits : x.at = y.at => x = y
Within(hits, from, to) == \A x \in hits : x.at \in Int /\ from <= x.at /\ x.at < to
IsHits(hits) == \A x \in hits : x = [at |-> x.at, len |-> x.len]

\* The hits of a decoded line lie in it, each at a place of its own.
LEMMA DecodedHitsAre ==
    ASSUME NEW q \in Queries, NEW A, NEW raw \in Seq(A)
    PROVE  LET hits == DecodedHits(q, raw) IN
           Apart(hits) /\ Within(hits, 0, Len(raw)) /\ IsHits(hits)
<1> DEFINE line == Decoded(raw)
           n == Len(q.needle)
           hay == FoldedChars(q, CharsOf(line))
           sought == FoldedChars(q, q.needle)
           found == FindIter(hay, sought)
           span(k) == IF k + n + 1 > Len(line) THEN Len(raw) ELSE line[k + n + 1].at
           hit(k) == [at |-> line[k + 1].at, len |-> span(k) - line[k + 1].at]
           K == {i \in found : q.word => WholeText(line, i + 1, n)}
           hits == {hit(k) : k \in K}
<1>1. DecodedHits(q, raw) = hits BY OnlyOne DEF DecodedHits, Of, HitsIn
<1>2. /\ \E C : line \in Seq(C)
      /\ CharsOf(line) \in Seq({line[k].bytes : k \in 1 .. Len(line)})
      /\ Len(CharsOf(line)) = Len(line)
      /\ \A k \in 1 .. Len(line) : line[k].at \in Nat /\ line[k].at < Len(raw)
      /\ \A j, k \in 1 .. Len(line) : line[j].at = line[k].at => j = k
  BY DecodedIs
<1>3. Len(line) \in Nat BY <1>2
<1> HIDE DEF line
<1>4. ASSUME NEW C, NEW s \in Seq(C)
      PROVE  FoldedChars(q, s) \in Seq(C \cup {FoldChar(s[i]) : i \in DOMAIN s})
             /\ Len(FoldedChars(q, s)) = Len(s)
  <2> DEFINE D == C \cup {FoldChar(s[i]) : i \in DOMAIN s}
             g == [i \in DOMAIN s |-> FoldChar(s[i])]
  <2>1. s \in Seq(D)
    <3>1. C \subseteq D OBVIOUS
    <3> HIDE DEF D
    <3> QED BY <3>1
  <2>2. g \in Seq(D) /\ Len(g) = Len(s)
    <3>1. \A i \in DOMAIN s : g[i] \in D OBVIOUS
    <3>2. DOMAIN s = 1 .. Len(s) /\ Len(s) \in Nat OBVIOUS
    <3>3. g = [i \in 1 .. Len(s) |-> g[i]] BY <3>2
    <3> HIDE DEF g, D
    <3> QED BY <3>1, <3>2, <3>3
  <2>3. FoldedChars(q, s) = IF q.fold THEN g ELSE s BY DEF FoldedChars
  <2> HIDE DEF g, D
  <2> QED BY <2>1, <2>2, <2>3 DEF D
<1>5. \E C : hay \in Seq(C)
  <2> DEFINE s == CharsOf(line)
             C == {line[k].bytes : k \in 1 .. Len(line)}
  <2>1. s \in Seq(C) BY <1>2
  <2> HIDE DEF s, C
  <2>2. FoldedChars(q, s) \in Seq(C \cup {FoldChar(s[i]) : i \in DOMAIN s}) BY <1>4, <2>1
  <2> QED BY <2>2 DEF s
<1>6. Len(hay) = Len(line)
  <2> DEFINE s == CharsOf(line)
             C == {line[k].bytes : k \in 1 .. Len(line)}
  <2>1. s \in Seq(C) /\ Len(s) = Len(line) BY <1>2
  <2> HIDE DEF s, C
  <2>2. Len(FoldedChars(q, s)) = Len(s) BY <1>4, <2>1
  <2> QED BY <2>1, <2>2 DEF s
<1>7. (\E C : sought \in Seq(C)) /\ Len(sought) = n /\ n >= 1 /\ n \in Nat
  <2> DEFINE s == q.needle
  <2>1. s \in Seq(Seq(Bytes)) /\ Len(s) >= 1 BY NeedleIs
  <2> HIDE DEF s
  <2>2. /\ FoldedChars(q, s) \in Seq(Seq(Bytes) \cup {FoldChar(s[i]) : i \in DOMAIN s})
        /\ Len(FoldedChars(q, s)) = Len(s)
    BY <1>4, <2>1
  <2> QED BY <2>1, <2>2 DEF s
<1> HIDE DEF hay, sought, n
<1>8. found \subseteq {i \in Nat : i + n <= Len(line)}
  <2>1. PICK C : hay \in Seq(C) BY <1>5
  <2>2. PICK D : sought \in Seq(D) BY <1>7
  <2>3. FindIter(hay, sought) \subseteq {i \in Nat : i + Len(sought) <= Len(hay)}
    BY <1>7, <2>1, <2>2, FindIterIn
  <2> QED BY <1>6, <1>7, <2>3
<1>9. \A k \in K : k + 1 \in 1 .. Len(line) /\ k \in Nat
  <2>1. \A k \in K : k \in Nat /\ k + n <= Len(line)
    <3> HIDE DEF found
    <3> QED BY <1>8
  <2> HIDE DEF K
  <2> QED BY <1>3, <1>7, <2>1
<1> HIDE DEF K, span
<1>10. \A k \in K : hit(k).at = line[k + 1].at OBVIOUS
<1>11. Apart(hits)
  <2> SUFFICES ASSUME NEW j \in K, NEW k \in K, hit(j).at = hit(k).at PROVE hit(j) = hit(k)
    BY DEF Apart
  <2> DEFINE a == j + 1
             b == k + 1
  <2>1. a \in 1 .. Len(line) /\ b \in 1 .. Len(line) /\ j \in Nat /\ k \in Nat BY <1>9
  <2>2. line[a].at = line[b].at BY <1>10
  <2> HIDE DEF a, b
  <2>3. a = b BY <1>2, <2>1, <2>2
  <2>4. j = k BY <2>1, <2>3 DEF a, b
  <2> QED BY <2>4
<1>12. Within(hits, 0, Len(raw))
  <2> SUFFICES ASSUME NEW k \in K
               PROVE  hit(k).at \in Int /\ 0 <= hit(k).at /\ hit(k).at < Len(raw)
    BY DEF Within
  <2> DEFINE a == k + 1
  <2>1. a \in 1 .. Len(line) BY <1>9
  <2>2. hit(k).at = line[a].at BY <1>10
  <2> HIDE DEF a, hit
  <2>3. line[a].at \in Nat /\ line[a].at < Len(raw) BY <1>2, <2>1
  <2> QED BY <2>2, <2>3
<1>13. IsHits(hits) BY DEF IsHits
<1> HIDE DEF hits
<1> QED BY <1>1, <1>11, <1>12, <1>13

\* So do the hits of a line, however it is scanned.
LEMMA LineHitsAre ==
    ASSUME NEW q \in Queries, NEW raw \in Seq(Bytes)
    PROVE  LET hits == LineHits(q, raw) IN
           Apart(hits) /\ Within(hits, 0, Len(raw)) /\ IsHits(hits)
<1> DEFINE needle == NeedleBytes(q)
           n == Len(needle)
           hay == Folded(q, raw)
           sought == Folded(q, needle)
           K == {i \in FindIter(hay, sought) : Accepts(q, raw, i, n)}
           hits == {[at |-> p, len |-> n] : p \in K}
<1>1. LineHits(q, raw) = IF MatchPlan(q) = "decode" THEN DecodedHits(q, raw) ELSE hits
  BY OnlyOne DEF LineHits, Of
<1>2. CASE MatchPlan(q) = "decode"
  <2> HIDE DEF hits
  <2> QED BY <1>1, <1>2, DecodedHitsAre
<1>3. CASE MatchPlan(q) # "decode"
  <2>1. needle \in Seq(Bytes) /\ n >= 1 /\ n \in Nat BY NeedleIs
  <2>2. ASSUME NEW s \in Seq(Bytes)
        PROVE  (\E C : Folded(q, s) \in Seq(C)) /\ Len(Folded(q, s)) = Len(s)
    <3> DEFINE g == [i \in DOMAIN s |-> FoldByte(s[i])]
    <3>1. DOMAIN s = 1 .. Len(s) /\ Len(s) \in Nat OBVIOUS
    <3>2. g = [i \in 1 .. Len(s) |-> g[i]] BY <3>1
    <3>3. Folded(q, s) = IF q.fold THEN g ELSE s BY DEF Folded
    <3> HIDE DEF g
    <3>4. g \in Seq({g[i] : i \in 1 .. Len(s)}) /\ Len(g) = Len(s) BY <3>1, <3>2, ListIs
    <3> QED BY <3>3, <3>4
  <2> HIDE DEF needle
  <2>3. PICK C : hay \in Seq(C) BY <2>2
  <2>4. PICK D : sought \in Seq(D) BY <2>1, <2>2
  <2>5. Len(hay) = Len(raw) /\ Len(sought) = n BY <2>1, <2>2
  <2> HIDE DEF hay, sought
  <2>6. FindIter(hay, sought) \subseteq {i \in Nat : i + Len(sought) <= Len(hay)}
    BY <2>1, <2>3, <2>4, <2>5, FindIterIn
  <2>7. \A p \in K : p \in Nat /\ p < Len(raw)
    <3>1. \A p \in K : p \in Nat /\ p + n <= Len(raw) BY <2>5, <2>6
    <3> HIDE DEF K, n
    <3> QED BY <2>1, <3>1
  <2> HIDE DEF K, n
  <2>8. Apart(hits) /\ IsHits(hits) BY DEF Apart, IsHits
  <2>9. Within(hits, 0, Len(raw))
    <3>1. \A p \in K : [at |-> p, len |-> n].at = p OBVIOUS
    <3> QED BY <2>7, <3>1 DEF Within
  <2> HIDE DEF hits
  <2> QED BY <1>1, <1>3, <2>8, <2>9
<1> QED BY <1>2, <1>3

\* What a line holds does not depend on the rest of the file.
LEMMA SameBounds ==
    ASSUME enc' = enc, NEW raw
    PROVE  Bounds(raw)' = Bounds(raw)
<1> DEFINE R(g) == g = [i \in 0 .. Len(raw) + 1 |->
                         IF i >= Len(raw) THEN {Len(raw)} ELSE {i} \cup g[i + StepOf(raw, i)]]
           P(g) == g = [i \in 0 .. Len(raw) + 1 |->
                         IF i >= Len(raw) THEN {Len(raw)} ELSE {i} \cup g[i + StepOf(raw, i)']]
<1>1. \A i : StepOf(raw, i)' = StepOf(raw, i) BY DEF StepOf
<1>2. Bounds(raw) = (CHOOSE g : R(g))[0] BY DEF Bounds
<1>3. Bounds(raw)' = (CHOOSE g : P(g))[0] BY DEF Bounds
<1>4. \A g : R(g) <=> P(g) BY <1>1
<1> HIDE DEF R, P
<1>5. (CHOOSE g : R(g)) = (CHOOSE g : P(g)) BY <1>4
<1> QED BY <1>2, <1>3, <1>5

LEMMA SameDecoded ==
    ASSUME enc' = enc, NEW raw
    PROVE  Decoded(raw)' = Decoded(raw)
<1> DEFINE line(bs) == [k \in 1 .. Len(bs) - 1 |->
                         [at |-> bs[k], bytes |-> SubSeq(raw, bs[k] + 1, bs[k + 1])]]
           list == CHOOSE y \in {Ordered(v) : v \in {Bounds(raw)'}} : TRUE
<1>1. Decoded(raw) = line(Ordered(Bounds(raw))) BY OnlyOne DEF Decoded, Of
<1>2. Decoded(raw)' = (CHOOSE y \in {line(v) : v \in {list}} : TRUE) BY DEF Decoded, Of
<1> HIDE DEF line
<1>3. list = Ordered(Bounds(raw))
  <2>1. {Ordered(v) : v \in {Bounds(raw)'}} = {Ordered(Bounds(raw))} BY SameBounds
  <2> QED BY <2>1, OnlyOne
<1> HIDE DEF list
<1>4. {line(v) : v \in {list}} = {line(list)} OBVIOUS
<1>5. Decoded(raw)' = line(list) BY <1>2, <1>4, OnlyOne
<1> QED BY <1>1, <1>3, <1>5

LEMMA SameDecodedHits ==
    ASSUME enc' = enc, NEW q, NEW raw
    PROVE  DecodedHits(q, raw)' = DecodedHits(q, raw)
<1> DEFINE n == Len(q.needle)
           len == Len(raw)
           found(line) == FindIter(FoldedChars(q, CharsOf(line)), FoldedChars(q, q.needle))
           span(line, k) == IF k + n + 1 > Len(line) THEN len ELSE line[k + n + 1].at
           hits(line) == {[at |-> line[k + 1].at, len |-> span(line, k) - line[k + 1].at] :
                            k \in {i \in found(line) : q.word => WholeText(line, i + 1, n)}}
           hitsThen(line) == {[at |-> line[k + 1].at, len |-> span(line, k) - line[k + 1].at] :
                            k \in {i \in found(line) : q.word => WholeText(line, i + 1, n)'}}
<1>1. \A c : WordChar(c)' <=> WordChar(c) BY DEF WordChar
<1>2. \A line, k : WholeText(line, k, n)' <=> WholeText(line, k, n) BY <1>1 DEF WholeText
<1>3. \A line : HitsIn(q, line, len)' = hitsThen(line) BY DEF HitsIn
<1>4. \A line : HitsIn(q, line, len) = hits(line) BY DEF HitsIn
<1> HIDE DEF n, found, span
<1>5. \A line : hitsThen(line) = hits(line) BY <1>2
<1> HIDE DEF hits, hitsThen
<1>6. \A line : HitsIn(q, line, len)' = HitsIn(q, line, len) BY <1>3, <1>4, <1>5
<1>7. DecodedHits(q, raw) = HitsIn(q, Decoded(raw), len) BY OnlyOne DEF DecodedHits, Of
<1>8. DecodedHits(q, raw)' = (CHOOSE y \in {HitsIn(q, v, len)' : v \in {Decoded(raw)'}} : TRUE)
  BY DEF DecodedHits, Of
<1>9. {HitsIn(q, v, len)' : v \in {Decoded(raw)'}} = {HitsIn(q, Decoded(raw), len)}
  BY <1>6, SameDecoded
<1> QED BY <1>7, <1>8, <1>9, OnlyOne

\* What a line holds depends on the encoding alone.
LEMMA SameHits ==
    ASSUME enc' = enc, NEW q, NEW raw
    PROVE  LineHits(q, raw)' = LineHits(q, raw)
<1> DEFINE n == Len(NeedleBytes(q))
           found == FindIter(Folded(q, raw), Folded(q, NeedleBytes(q)))
           hits == {[at |-> p, len |-> n] : p \in {i \in found : Accepts(q, raw, i, n)}}
           hitsThen == {[at |-> p, len |-> n] : p \in {i \in found : Accepts(q, raw, i, n)'}}
<1>1. LineHits(q, raw) = IF MatchPlan(q) = "decode" THEN DecodedHits(q, raw) ELSE hits
  BY OnlyOne DEF LineHits, Of
<1>2. LineHits(q, raw)' = IF MatchPlan(q) = "decode" THEN DecodedHits(q, raw)' ELSE hitsThen
  BY OnlyOne DEF LineHits, Of
<1>3. \A at : WholeBytes(raw, at, n)' <=> WholeBytes(raw, at, n)
  <2> TAKE at
  <2> DEFINE pre(bs) == CHOOSE b \in bs : b < at /\ \A c \in bs : c < at => c <= b
             near == Of(LAMBDA bs : CHOOSE b \in bs : b < at /\ \A c \in bs : c < at => c <= b,
                        Bounds(raw))
             whole(before) == /\ at > 0 => ~IsWord(raw[before + 1])
                              /\ at + n < Len(raw) => ~IsWord(raw[at + n + 1])
  <2>1. WholeBytes(raw, at, n) <=> whole(IF enc = "legacy" THEN near ELSE at - 1)
    BY DEF WholeBytes
  <2>2. WholeBytes(raw, at, n)' <=> whole(IF enc' = "legacy" THEN near' ELSE at - 1)
    BY DEF WholeBytes
  <2>3. near = pre(Bounds(raw)) BY OnlyOne DEF Of
  <2>4. near' = (CHOOSE y \in {pre(v) : v \in {Bounds(raw)'}} : TRUE) BY DEF Of
  <2> HIDE DEF pre
  <2>5. {pre(v) : v \in {Bounds(raw)'}} = {pre(Bounds(raw))} BY SameBounds
  <2>6. near' = pre(Bounds(raw)) BY <2>4, <2>5, OnlyOne
  <2> HIDE DEF whole, n, near
  <2> QED BY <2>1, <2>2, <2>3, <2>6
<1>4. \A at : Accepts(q, raw, at, n)' <=> Accepts(q, raw, at, n)
  BY <1>3, SameBounds DEF Accepts
<1> HIDE DEF n, found
<1>5. hitsThen = hits BY <1>4
<1> HIDE DEF hits, hitsThen
<1> QED BY <1>1, <1>2, <1>5, SameDecodedHits

-----------------------------------------------------------------------------
(* The lines of a file that grows.                                         *)

EndsIn(kind, file, base, off, limit) ==
    {p \in Ends(kind, file, base) : off <= p /\ p + Width(kind) <= limit}

LEMMA EndsFrom ==
    ASSUME NEW kind, NEW file \in Seq(Bytes), NEW base \in Nat,
           NEW off \in Nat, base <= off, NEW limit \in Nat, limit <= Len(file)
    PROVE  Newlines(kind, file, base, off, limit) = EndsIn(kind, file, base, off, limit)
BY EndsFacts DEF EndsIn

\* A line ends before the next one begins.
LEMMA LineIs ==
    ASSUME NEW i, NEW file \in Seq(Bytes), IndexIs(i, file), NEW s \in Table(i.kind, file, i.base)
    PROVE  LET T == Table(i.kind, file, i.base)
               e == RawEnd(i, file, s)
               to == TextEnd(i, file, s, e)
           IN /\ e \in s .. Len(file) /\ to \in s .. e /\ s \in Nat
              /\ \A t \in T : s < t => e <= t
              /\ Rank(T, s) \in 0 .. i.count - 1
              /\ LineRange(i, file, Rank(T, s)) = [from |-> s, to |-> to]
<1> DEFINE T == Table(i.kind, file, i.base)
           E == Ends(i.kind, file, i.base)
           k == Rank(T, s)
           w == Width(i.kind)
           n == Len(file)
           nls == Newlines(i.kind, file, i.base, s, n)
           end == RawEnd(i, file, s)
           to == TextEnd(i, file, s, end)
<1>1. i.base \in Nat /\ i.len = n /\ n \in Nat /\ i.count = Cardinality(T)
  BY DEF IndexIs
<1>2. IsFiniteSet(T) /\ T \subseteq Int /\ s \in Nat /\ i.base <= s /\ s < n
  BY <1>1, TableBounds
<1>3. LineStart(i, file, k) = s
  <2>1. SameSoFar(i, file, file) BY DEF SameSoFar
  <2> QED BY <2>1, LineStartIs
<1>4. k \in 0 .. i.count - 1
  <2>1. Rank(T, s) \in Nat /\ Rank(T, s) < Cardinality(T) BY <1>2, RankFacts
  <2>2. Cardinality(T) \in Nat BY <1>2, FS_CardinalityType
  <2> HIDE DEF T
  <2> QED BY <1>1, <2>1, <2>2
<1>5. w \in 1 .. 2 BY WidthFacts
<1>6. nls = {p \in E : s <= p /\ p + w <= n}
  <2>1. n <= Len(file) BY <1>1
  <2> HIDE DEF n
  <2>2. nls = EndsIn(i.kind, file, i.base, s, n) BY <1>1, <1>2, <2>1, EndsFrom
  <2> QED BY <2>2 DEF EndsIn
<1>7. \A p \in E : p \in Nat BY <1>1, EndsFacts
<1>8. \A t \in T : s < t => t - w \in nls
  <2> TAKE t \in T
  <2> HAVE s < t
  <2> DEFINE p == t - w
  <2>1. t \in Int /\ t < n BY <1>1, TableBounds
  <2>2. p \in E
    <3>1. \A x \in T : x # i.base => x - w \in E BY <1>1, TableFacts
    <3>2. t # i.base BY <1>1, <1>2, <2>1
    <3> QED BY <3>1, <3>2
  <2>3. p + w = t BY <1>5, <2>1
  <2>4. s < p + Width(i.kind) BY <2>3
  <2> HIDE DEF p
  <2>5. s <= p BY <1>1, <2>2, <2>4, Grid
  <2> HIDE DEF T, E, w, n, nls
  <2>6. p + w <= n BY <1>1, <2>1, <2>3
  <2> QED BY <1>6, <2>2, <2>5, <2>6 DEF p
<1> HIDE DEF w, n, nls, T, E, k
<1> DEFINE nl == IF nls = {} THEN n ELSE Least(nls)
<1>9. /\ nls # {} => nl \in nls /\ \A p \in nls : nl <= p
      /\ nls = {} => nl = n
  <2>1. nls \subseteq Nat BY <1>6, <1>7
  <2> QED BY <2>1, LeastIs
<1>10. end = IF nl = n THEN nl ELSE nl + w
  <2>1. FindNl(i.kind, file, i.base, s, i.len) = nl BY <1>1, OnlyOne DEF FindNl, Of, nls
  <2> HIDE DEF nl
  <2> QED BY <1>1, <2>1, OnlyOne DEF RawEnd, Of, w
<1> HIDE DEF nl, end
<1>11. nl \in nls => nl \in Nat /\ s <= nl /\ nl + w <= n BY <1>6, <1>7
<1>12. end \in s .. n BY <1>1, <1>2, <1>5, <1>9, <1>10, <1>11
<1>13. \A t \in T : s < t => end <= t
  <2> TAKE t \in T
  <2> HAVE s < t
  <2> DEFINE p == t - w
  <2>1. p \in nls BY <1>8
  <2>2. nl <= p /\ nl \in nls BY <1>9, <2>1
  <2>3. t \in Int BY <1>2
  <2>4. nl # n /\ nl + w <= t BY <1>1, <1>5, <1>11, <2>2, <2>3
  <2> QED BY <1>10, <2>4
<1>14. to \in s .. end
  <2> DEFINE cut(x, code) == IF x >= s + w /\ UnitAt(i.kind, file, x - w) = code THEN x - w ELSE x
  <2>1. to = cut(cut(end, LF), CR)
    <3> HIDE DEF end
    <3> QED BY OnlyOne DEF TextEnd, Of, w
  <2> HIDE DEF end, to
  <2>2. \A code : \A x \in s .. end : cut(x, code) \in s .. end
    <3> TAKE code
    <3> TAKE x \in s .. end
    <3>1. cut(x, code) = x \/ (cut(x, code) = x - w /\ x >= s + w) OBVIOUS
    <3> HIDE DEF cut
    <3> QED BY <1>2, <1>5, <1>12, <3>1
  <2>3. end \in s .. end BY <1>1, <1>2, <1>12
  <2> HIDE DEF cut
  <2> QED BY <2>1, <2>2, <2>3
<1>15. LineRange(i, file, k) = [from |-> s, to |-> to]
  BY <1>3, <1>4, OnlyOne DEF LineRange, Of, end
<1> HIDE DEF to
<1> QED BY <1>2, <1>4, <1>12, <1>13, <1>14, <1>15 DEF n, T, k, end, to

\* What is appended does not change a line that has another one behind it.
LEMMA LineStays ==
    ASSUME NEW i, NEW file \in Seq(Bytes), IndexIs(i, file), NEW bytes \in Seq(Bytes),
           NEW j, IndexIs(j, file \o bytes), j.kind = i.kind, j.base = i.base,
           NEW s \in Table(i.kind, file, i.base), NEW t \in Table(i.kind, file, i.base), s < t
    PROVE  LET T == Table(i.kind, file, i.base)
               r == LineRange(i, file, Rank(T, s))
           IN /\ LineRange(j, file \o bytes, Rank(T, s)) = r
              /\ SubSeq(file \o bytes, r.from + 1, r.to) = SubSeq(file, r.from + 1, r.to)
<1> DEFINE more == file \o bytes
           T == Table(i.kind, file, i.base)
           U == Table(j.kind, more, j.base)
           k == Rank(T, s)
           w == Width(i.kind)
           n == Len(file)
           m == Len(more)
           nls == Newlines(i.kind, file, i.base, s, n)
           far == Newlines(j.kind, more, j.base, s, m)
           end == RawEnd(i, file, s)
           to == TextEnd(i, file, s, end)
<1>1. /\ i.base \in Nat /\ i.len = n /\ n \in Nat /\ i.kind \in Kinds /\ j.len = m
      /\ more \in Seq(Bytes) /\ m \in Nat /\ n <= m /\ m = n + Len(bytes)
  BY DEF IndexIs
<1>2. /\ end \in s .. n /\ to \in s .. end /\ s \in Nat /\ end <= t
      /\ LineRange(i, file, k) = [from |-> s, to |-> to]
  BY LineIs
<1>3. /\ IsFiniteSet(T) /\ T \subseteq Int /\ s < n /\ t < n /\ i.base <= s
      /\ s \in T /\ t \in T /\ t \in Int
  BY <1>1, TableBounds
<1>4. T = {x \in U : x < n}
  <2>1. i.base < n BY <1>1, <1>2, <1>3
  <2> QED BY <1>1, <2>1, TableGrows
<1>5. s \in U /\ t \in U BY <1>4
<1>6. Rank(U, s) = k
  <2>1. U \subseteq Int
    <3> DEFINE kind == i.kind
               base == i.base
               grown == more
               V == Table(kind, grown, base)
    <3>1. grown \in Seq(Bytes) /\ base \in Nat /\ U = V BY <1>1
    <3> HIDE DEF kind, base, grown
    <3>2. V \subseteq Int BY ONLY <3>1, TableBounds
    <3> QED BY <3>1, <3>2
  <2> HIDE DEF T, U, n
  <2>2. \A y : y \in U /\ y < s <=> y \in T /\ y < s
    <3> TAKE y
    <3>1. CASE y \in U
      <4>1. y \in Int BY <2>1, <3>1
      <4>2. y < s => y < n BY <1>1, <1>2, <1>3, <4>1
      <4> QED BY <1>4, <3>1, <4>2
    <3>2. CASE y \notin U BY <1>4, <3>2
    <3> QED BY <3>1, <3>2
  <2>3. {y \in U : y < s} = {y \in T : y < s} BY <2>2
  <2> QED BY <2>3 DEF Rank
<1> DEFINE endThen == RawEnd(j, more, s)
           toThen == TextEnd(j, more, s, endThen)
<1>7. LineRange(j, more, k) = [from |-> s, to |-> toThen] /\ endThen <= t
  <2> DEFINE x == Rank(U, s)
  <2>1. LineRange(j, more, x) = [from |-> s, to |-> toThen] BY <1>1, <1>5, LineIs
  <2>2. endThen <= t BY <1>1, <1>5, LineIs
  <2> QED BY <1>6, <2>1, <2>2
<1>8. w \in 1 .. 2 BY WidthFacts
<1>9. /\ Newlines(i.kind, more, i.base, s, n) = nls
      /\ far = {p \in Ends(i.kind, more, i.base) : s <= p /\ p + w <= m}
      /\ Newlines(i.kind, more, i.base, s, n) =
           {p \in Ends(i.kind, more, i.base) : s <= p /\ p + w <= n}
      /\ \A p \in Ends(i.kind, more, i.base) : p \in Nat
  <2>1. \A off \in Nat : Newlines(i.kind, more, i.base, off, n) = Newlines(i.kind, file, i.base, off, n)
    BY <1>1, EndsGrow
  <2>2. m <= Len(more) /\ n <= Len(more) BY <1>1
  <2> HIDE DEF n, m, more
  <2>3. far = {p \in Ends(i.kind, more, i.base) : s <= p /\ p + w <= m}
    <3>1. far = EndsIn(i.kind, more, i.base, s, m) BY <1>1, <1>2, <1>3, <2>2, EndsFrom
    <3> QED BY <3>1 DEF EndsIn
  <2>4. Newlines(i.kind, more, i.base, s, n) =
           {p \in Ends(i.kind, more, i.base) : s <= p /\ p + w <= n}
    <3>1. Newlines(i.kind, more, i.base, s, n) = EndsIn(i.kind, more, i.base, s, n)
      BY <1>1, <1>2, <1>3, <2>2, EndsFrom
    <3> QED BY <3>1 DEF EndsIn
  <2>5. \A p \in Ends(i.kind, more, i.base) : p \in Nat BY <1>1, EndsFacts
  <2> QED BY <1>2, <2>1, <2>3, <2>4, <2>5
<1>10. nls = {p \in far : p + w <= n} /\ far \subseteq Nat
  <2> DEFINE E == Ends(i.kind, more, i.base)
  <2>1. far = {p \in E : s <= p /\ p + w <= m}
    <3> HIDE DEF m, w, more, far
    <3> QED BY <1>9
  <2>2. nls = {p \in E : s <= p /\ p + w <= n}
    <3> HIDE DEF n, w, more, nls
    <3> QED BY <1>9
  <2>3. E \subseteq Nat BY <1>9
  <2> HIDE DEF E, far, nls, n, m, w
  <2>4. \A p \in E : p + w <= n => p + w <= m BY <1>1, <1>8, <2>3
  <2> QED BY <2>1, <2>2, <2>3, <2>4
<1> DEFINE nl == IF nls = {} THEN n ELSE Least(nls)
           nlThen == IF far = {} THEN m ELSE Least(far)
<1>11. end = (IF nl = n THEN nl ELSE nl + w) /\ endThen = IF nlThen = m THEN nlThen ELSE nlThen + w
  <2>1. FindNl(i.kind, file, i.base, s, i.len) = nl BY <1>1, OnlyOne DEF FindNl, Of, nls
  <2>2. FindNl(j.kind, more, j.base, s, j.len) = nlThen
    <3> HIDE DEF m, more
    <3> QED BY <1>1, OnlyOne DEF FindNl, Of, far
  <2> HIDE DEF nl, nlThen, more
  <2> QED BY <1>1, <2>1, <2>2, OnlyOne DEF RawEnd, Of, w
<1> HIDE DEF endThen, nls, far, more, T, U, k, w, n, m, to
<1>12. far # {} => nlThen \in far /\ nlThen \in Nat /\ \A p \in far : nlThen <= p
  BY <1>10, LeastIs
<1>13. far # {} /\ nlThen \in nls /\ nlThen + w <= n
  <2> HIDE DEF nlThen
  <2>1. endThen < m
    <3>1. endThen \in Int /\ t \in Int
      <4>1. nlThen \in Int
        <5>1. CASE far = {} BY <1>1, <5>1 DEF nlThen
        <5>2. CASE far # {} BY <1>10, <1>12, <5>2
        <5> QED BY <5>1, <5>2
      <4> QED BY <1>3, <1>8, <1>11, <4>1
    <3> QED BY <1>1, <1>3, <1>7, <3>1
  <2>2. far # {}
    <3>1. CASE far = {}
      <4>1. nlThen = m BY <3>1 DEF nlThen
      <4> QED BY <1>1, <1>11, <2>1, <4>1
    <3> QED BY <3>1
  <2>3. nlThen \in far /\ nlThen \in Nat BY <1>10, <1>12, <2>2
  <2>4. nlThen # m BY <1>1, <1>11, <2>1
  <2>5. nlThen + w <= n
    <3>1. nlThen + w <= t BY <1>7, <1>11, <2>4
    <3> QED BY <1>1, <1>3, <1>8, <2>3, <3>1
  <2> QED BY <1>10, <2>2, <2>3, <2>5
<1>14. nl = nlThen /\ end = nlThen + w /\ endThen = nlThen + w
  <2>1. nls # {} /\ nls \subseteq Nat BY <1>10, <1>13
  <2>2. nl \in nls /\ \A p \in nls : nl <= p BY <2>1, LeastIs
  <2> HIDE DEF nl, nlThen
  <2>3. nl \in Nat /\ nlThen \in Nat BY <1>13, <2>1, <2>2
  <2>4. nl <= nlThen /\ nlThen <= nl BY <1>10, <1>12, <1>13, <2>2
  <2>5. nl = nlThen BY <2>3, <2>4
  <2>6. nlThen # n /\ nlThen # m BY <1>1, <1>8, <1>13, <2>3
  <2> QED BY <1>11, <2>5, <2>6
<1> HIDE DEF nl, nlThen, end
<1>15. toThen = to
  <2> DEFINE cut(file0, x, code) ==
               IF x >= s + w /\ UnitAt(i.kind, file0, x - w) = code THEN x - w ELSE x
  <2>1. to = cut(file, cut(file, end, LF), CR) BY OnlyOne DEF TextEnd, Of, w, to
  <2>2. toThen = cut(more, cut(more, end, LF), CR) BY <1>14, OnlyOne DEF TextEnd, Of, w
  <2>3. \A code : \A x \in s .. end : cut(more, x, code) = cut(file, x, code) /\ cut(file, x, code) \in s .. end
    <3> TAKE code
    <3> TAKE x \in s .. end
    <3>1. CASE x >= s + w
      <4>1. x - w \in s .. end /\ x - w \in Nat /\ x - w + w <= n /\ x \in Nat BY <1>1, <1>2, <1>8, <3>1
      <4>2. UnitAt(i.kind, more, x - w) = UnitAt(i.kind, file, x - w)
        <5> DEFINE o == x - w
                   a == o + 1
                   b == o + 2
        <5>1. a \in 1 .. n BY <1>1, <1>8, <4>1
        <5>2. i.kind = "wide" => b \in 1 .. n
          <6>1. i.kind = "wide" => w = 2 BY DEF w, Width
          <6> QED BY <1>1, <1>8, <4>1, <6>1
        <5>3. \A z \in 1 .. n : more[z] = file[z] BY DEF more, n
        <5> HIDE DEF a, b
        <5>4. more[a] = file[a] BY <5>1, <5>3
        <5>5. i.kind = "wide" => more[b] = file[b] BY <5>2, <5>3
        <5> QED BY <5>4, <5>5 DEF UnitAt, a, b
      <4> QED BY <4>1, <4>2
    <3>2. CASE ~(x >= s + w) BY <3>2
    <3> QED BY <3>1, <3>2
  <2>4. end \in s .. end BY <1>1, <1>2
  <2> HIDE DEF cut
  <2>5. cut(more, end, LF) = cut(file, end, LF) /\ cut(file, end, LF) \in s .. end BY <2>3, <2>4
  <2>6. cut(more, cut(file, end, LF), CR) = cut(file, cut(file, end, LF), CR) BY <2>3, <2>5
  <2> QED BY <2>1, <2>2, <2>5, <2>6
<1>16. SubSeq(more, s + 1, to) = SubSeq(file, s + 1, to)
  <2>1. \A z \in s + 1 .. to : z \in 1 .. n BY <1>1, <1>2
  <2>2. \A z \in 1 .. n : more[z] = file[z] BY DEF more, n
  <2>3. s + 1 \in 1 .. n + 1 /\ to \in s .. n /\ n <= m BY <1>1, <1>2, <1>3
  <2> DEFINE a == s + 1
  <2>4. a \in 1 .. n + 1 /\ to \in a - 1 .. n /\ n <= m BY <1>1, <1>2, <2>3
  <2> HIDE DEF a
  <2>5. to \in a - 1 .. m /\ a \in 1 .. m + 1 BY <1>1, <2>4
  <2>6. SubSeq(file, a, to) = [z \in 1 .. to - a + 1 |-> file[a + z - 1]]
    BY <2>4 DEF n
  <2>7. SubSeq(more, a, to) = [z \in 1 .. to - a + 1 |-> more[a + z - 1]]
    BY <1>1, <2>5 DEF m
  <2>8. \A z \in 1 .. to - a + 1 : more[a + z - 1] = file[a + z - 1]
    <3> TAKE z \in 1 .. to - a + 1
    <3> DEFINE y == a + z - 1
    <3>1. y \in 1 .. n BY <1>1, <2>4
    <3> HIDE DEF y
    <3>2. more[y] = file[y] BY <2>2, <3>1
    <3> QED BY <3>2 DEF y
  <2> HIDE DEF n, m
  <2>9. SubSeq(more, a, to) = SubSeq(file, a, to) BY <2>6, <2>7, <2>8
  <2> QED BY <2>9 DEF a
<1> DEFINE r == LineRange(i, file, k)
<1>17. r.from = s /\ r.to = to BY <1>2
<1>18. LineRange(j, more, k) = r BY <1>2, <1>7, <1>15
<1> HIDE DEF r, toThen
<1> QED BY <1>16, <1>17, <1>18 DEF r, more, T, k

-----------------------------------------------------------------------------
(* The hits of a file, line by line.                                       *)

\* The lines are the offsets of the table in their order.
LEMMA LinesAre ==
    ASSUME NEW i, NEW file \in Seq(Bytes), IndexIs(i, file)
    PROVE  LET T == Table(i.kind, file, i.base) IN
           /\ i.count \in Nat
           /\ \A k \in 0 .. i.count - 1 :
                LineStart(i, file, k) \in T /\ Rank(T, LineStart(i, file, k)) = k
           /\ \A j, k \in 0 .. i.count - 1 : j < k => LineStart(i, file, j) < LineStart(i, file, k)
<1> DEFINE T == Table(i.kind, file, i.base)
           N == i.count
           start(k) == LineStart(i, file, k)
<1>1. i.base \in Nat /\ N = Cardinality(T) BY DEF IndexIs
<1>2. IsFiniteSet(T) /\ T \subseteq Int BY <1>1, TableBounds
<1>3. N \in Nat BY <1>1, <1>2, FS_CardinalityType
<1>4. \A s \in T : start(Rank(T, s)) = s
  <2>1. SameSoFar(i, file, file) BY DEF SameSoFar
  <2> QED BY <2>1, LineStartIs
<1> HIDE DEF T, start
<1>5. \A k \in 0 .. N - 1 : \E s \in T : Rank(T, s) = k BY <1>1, <1>2, RankOnto
<1>6. \A x, y \in T : x < y => Rank(T, x) < Rank(T, y) BY <1>2, RankFacts
<1> HIDE DEF N
<1>7. \A k \in 0 .. N - 1 : start(k) \in T /\ Rank(T, start(k)) = k BY <1>4, <1>5
<1>8. \A j, k \in 0 .. N - 1 : j < k => start(j) < start(k)
  <2> TAKE j, k \in 0 .. N - 1
  <2> HAVE j < k
  <2> DEFINE x == start(j)
             y == start(k)
  <2>1. x \in T /\ y \in T /\ Rank(T, x) = j /\ Rank(T, y) = k BY <1>7
  <2> HIDE DEF x, y
  <2>2. x \in Int /\ y \in Int /\ ~(y < x) /\ y # x BY <1>2, <1>3, <1>6, <2>1
  <2>3. x < y BY <2>2
  <2> QED BY <2>3 DEF x, y
<1> QED BY <1>3, <1>7, <1>8 DEF T, N, start

\* The hits of line k, and those of the lines from a on and before b, where
\* found[raw] are the hits within a line that reads raw.
HitsOf(found, i, file, k) ==
    LET r == LineRange(i, file, k) IN Shift(found[SubSeq(file, r.from + 1, r.to)], r.from)
Between(found, i, file, a, b) == UNION {HitsOf(found, i, file, k) : k \in a .. b - 1}

Finds(found) ==
    \A raw \in Seq(Bytes) : Apart(found[raw]) /\ Within(found[raw], 0, Len(raw)) /\ IsHits(found[raw])

LEMMA Shifted ==
    ASSUME NEW hits, NEW len \in Nat, Apart(hits), Within(hits, 0, len), IsHits(hits), NEW off \in Nat
    PROVE  Apart(Shift(hits, off)) /\ Within(Shift(hits, off), off, off + len)
<1>1. \A x \in hits : [x EXCEPT !.at = @ + off] = [at |-> x.at + off, len |-> x.len] BY DEF IsHits
<1> DEFINE moved == {[at |-> x.at + off, len |-> x.len] : x \in hits}
<1>2. Shift(hits, off) = moved BY <1>1 DEF Shift
<1>3. \A x \in hits : x.at \in Int /\ 0 <= x.at /\ x.at < len BY DEF Within
<1>4. Apart(moved)
  <2> SUFFICES ASSUME NEW x \in hits, NEW y \in hits, x.at + off = y.at + off
               PROVE  [at |-> x.at + off, len |-> x.len] = [at |-> y.at + off, len |-> y.len]
    BY DEF Apart
  <2> DEFINE a == x.at
             b == y.at
  <2>1. a \in Int /\ b \in Int /\ a + off = b + off BY <1>3
  <2> HIDE DEF a, b
  <2>2. a = b BY <2>1
  <2>3. x = y BY <2>2 DEF Apart, a, b
  <2> QED BY <2>3
<1>5. Within(moved, off, off + len)
  <2> SUFFICES ASSUME NEW x \in hits
               PROVE  x.at + off \in Int /\ off <= x.at + off /\ x.at + off < off + len
    BY DEF Within
  <2> QED BY <1>3
<1> HIDE DEF moved
<1> QED BY <1>2, <1>4, <1>5

\* The hits of a line lie between its start and that of a later line.
LEMMA HitsOfIs ==
    ASSUME NEW found, Finds(found), NEW i, NEW file \in Seq(Bytes), IndexIs(i, file),
           NEW k \in 0 .. i.count - 1
    PROVE  LET hits == HitsOf(found, i, file, k) s == LineStart(i, file, k) IN
           /\ Apart(hits) /\ s \in Nat
           /\ Within(hits, s, Len(file))
           /\ \A m \in 0 .. i.count - 1 : k < m => Within(hits, s, LineStart(i, file, m))
<1> DEFINE T == Table(i.kind, file, i.base)
           s == LineStart(i, file, k)
           e == RawEnd(i, file, s)
           to == TextEnd(i, file, s, e)
           r == LineRange(i, file, k)
           raw == SubSeq(file, s + 1, to)
           hits == HitsOf(found, i, file, k)
<1>1. /\ s \in T /\ Rank(T, s) = k
      /\ \A m \in 0 .. i.count - 1 : k < m => s < LineStart(i, file, m) /\ LineStart(i, file, m) \in T
  BY LinesAre
<1>2. /\ e \in s .. Len(file) /\ to \in s .. e /\ s \in Nat
      /\ \A t \in T : s < t => e <= t
      /\ r = [from |-> s, to |-> to]
  <2> HIDE DEF s
  <2> QED BY <1>1, LineIs
<1>3. r.from = s /\ r.to = to
  <2> HIDE DEF r, s, to
  <2> QED BY <1>2
<1>4. hits = Shift(found[raw], s)
  <2> HIDE DEF r
  <2>1. hits = Shift(found[SubSeq(file, r.from + 1, r.to)], r.from) BY DEF HitsOf, r
  <2> QED BY <1>3, <2>1
<1> HIDE DEF s, e, to, r, T
<1>5. raw \in Seq(Bytes) /\ Len(raw) = to - s
  <2> DEFINE a == s + 1
  <2>1. a \in 1 .. Len(file) + 1 /\ to \in a - 1 .. Len(file) /\ to - a + 1 = to - s BY <1>2
  <2> HIDE DEF a
  <2>2. SubSeq(file, a, to) \in Seq(Bytes) /\ Len(SubSeq(file, a, to)) = to - a + 1
    BY <2>1, SubSeqProperties
  <2> QED BY <2>1, <2>2 DEF a
<1> HIDE DEF raw, hits
<1>6. Apart(hits) /\ Within(hits, s, s + Len(raw))
  <2> DEFINE inner == found[raw]
             n == Len(raw)
  <2>1. Apart(inner) /\ Within(inner, 0, n) /\ IsHits(inner) /\ n \in Nat BY <1>5 DEF Finds
  <2> HIDE DEF inner, n
  <2>2. Apart(Shift(inner, s)) /\ Within(Shift(inner, s), s, s + n) BY <1>2, <2>1, Shifted
  <2> QED BY <1>4, <2>2 DEF inner, n
<1>7. ASSUME NEW m \in Int, e <= m PROVE Within(hits, s, m)
  <2> DEFINE n == Len(raw)
  <2>1. n \in Nat /\ s + n <= m BY <1>2, <1>5, <1>7
  <2> HIDE DEF n
  <2>2. \A x \in hits : x.at \in Int /\ s <= x.at /\ x.at < s + n BY <1>6 DEF Within, n
  <2>3. \A x \in hits : x.at < m
    <3> TAKE x \in hits
    <3> DEFINE a == x.at
    <3>1. a \in Int /\ a < s + n BY <2>2
    <3> HIDE DEF a
    <3>2. a < m BY <1>2, <1>7, <2>1, <3>1
    <3> QED BY <3>2 DEF a
  <2> QED BY <2>2, <2>3 DEF Within
<1>8. Within(hits, s, Len(file))
  <2> DEFINE m == Len(file)
  <2>1. m \in Int /\ e <= m BY <1>2
  <2> HIDE DEF m
  <2>2. Within(hits, s, m) BY <1>7, <2>1
  <2> QED BY <2>2 DEF m
<1>9. \A m \in 0 .. i.count - 1 : k < m => Within(hits, s, LineStart(i, file, m))
  <2> TAKE m \in 0 .. i.count - 1
  <2> HAVE k < m
  <2> DEFINE t == LineStart(i, file, m)
  <2>1. s < t /\ t \in T BY <1>1
  <2> HIDE DEF t
  <2>2. t \in Int
    <3>1. T \subseteq Int BY TableBounds DEF IndexIs, T
    <3> QED BY <2>1, <3>1
  <2>3. e <= t BY <1>2, <2>1
  <2>4. Within(hits, s, t) BY <1>7, <2>2, <2>3
  <2> QED BY <2>4 DEF t
<1> QED BY <1>2, <1>6, <1>8, <1>9 DEF s, hits

\* Hits apart within bounds are finitely many.
LEMMA ApartFinite ==
    ASSUME NEW hits, NEW a \in Int, NEW b \in Int, Apart(hits), Within(hits, a, b)
    PROVE  IsFiniteSet(hits)
<1> DEFINE f == [x \in hits |-> x.at]
           D == a .. b
<1>1. \A x \in hits : x.at \in D BY DEF Within
<1>2. f \in Injection(hits, D)
  <2>1. f \in [hits -> D] BY <1>1
  <2>2. \A x, y \in hits : f[x] = f[y] => x = y BY DEF Apart
  <2> HIDE DEF f, D
  <2> QED BY <2>1, <2>2 DEF Injection, IsInjective
<1>3. IsFiniteSet(D) BY FS_Interval
<1> HIDE DEF f, D
<1> QED BY <1>2, <1>3, FS_Injection

\* The hits of some lines lie between the starts of the lines around them.
LEMMA BetweenIs ==
    ASSUME NEW found, Finds(found), NEW i, NEW file \in Seq(Bytes), IndexIs(i, file),
           NEW a \in Nat, NEW b \in Nat, b <= i.count
    PROVE  LET hits == Between(found, i, file, a, b) IN
           /\ Apart(hits) /\ IsFiniteSet(hits)
           /\ Within(hits, 0, Len(file))
           /\ a < i.count => Within(hits, LineStart(i, file, a), Len(file))
           /\ b < i.count => Within(hits, 0, LineStart(i, file, b))
<1> DEFINE N == i.count
           n == Len(file)
           start(k) == LineStart(i, file, k)
           of(k) == HitsOf(found, i, file, k)
           hits == Between(found, i, file, a, b)
<1>1. N \in Nat /\ \A j, k \in 0 .. N - 1 : j < k => start(j) < start(k) BY LinesAre
<1>2. n \in Nat OBVIOUS
<1>3. ASSUME NEW k \in 0 .. N - 1
      PROVE  /\ Apart(of(k)) /\ start(k) \in Nat /\ Within(of(k), start(k), n)
             /\ \A m \in 0 .. N - 1 : k < m => Within(of(k), start(k), start(m))
  BY HitsOfIs
<1>4. \A x \in hits : \E k \in a .. b - 1 : x \in of(k) BY DEF Between
<1>5. \A k \in a .. b - 1 : k \in 0 .. N - 1 BY <1>1
<1> HIDE DEF N, n, start, of, hits
<1>6. ASSUME NEW j \in a .. b - 1, NEW k \in a .. b - 1, NEW x \in of(j), NEW y \in of(k), j < k
      PROVE  x.at < y.at
  <2>1. j \in 0 .. N - 1 /\ k \in 0 .. N - 1 BY <1>5
  <2>2. Within(of(j), start(j), start(k)) /\ Within(of(k), start(k), n) /\ start(k) \in Nat
    BY <1>3, <1>6, <2>1
  <2>3. x.at \in Int /\ x.at < start(k) /\ y.at \in Int /\ start(k) <= y.at BY <2>2 DEF Within
  <2> DEFINE c == x.at
             d == y.at
             s == start(k)
  <2>4. c \in Int /\ d \in Int /\ s \in Nat /\ c < s /\ s <= d BY <2>2, <2>3
  <2> HIDE DEF c, d, s
  <2>5. c < d BY <2>4
  <2> QED BY <2>5 DEF c, d
<1>7. ASSUME NEW x \in hits
      PROVE  /\ x.at \in Int /\ 0 <= x.at /\ x.at < n
             /\ a < N => start(a) <= x.at
             /\ b < N => x.at < start(b)
  <2>1. PICK k \in a .. b - 1 : x \in of(k) BY <1>4
  <2>2. k \in 0 .. N - 1 BY <1>5
  <2> DEFINE s == start(k)
             c == x.at
  <2>3. c \in Int /\ s \in Nat /\ s <= c /\ c < n BY <1>3, <2>1, <2>2 DEF Within
  <2>4. a < N => start(a) <= s
    <3> SUFFICES ASSUME a < N PROVE start(a) <= s OBVIOUS
    <3>1. a \in 0 .. N - 1 BY <1>1
    <3>2. CASE k = a
      <4>1. s = start(a) BY <3>2
      <4>2. s <= s BY <2>3
      <4> HIDE DEF s
      <4> QED BY <4>1, <4>2
    <3>3. CASE k # a
      <4>1. a < k BY <3>3
      <4> DEFINE t == start(a)
      <4>2. t < s /\ t \in Nat BY <1>1, <1>3, <2>2, <3>1, <4>1
      <4> HIDE DEF t, s
      <4>3. t <= s BY <2>3, <4>2
      <4> QED BY <4>3 DEF t
    <3> QED BY <3>2, <3>3
  <2>5. b < N => c < start(b)
    <3> SUFFICES ASSUME b < N PROVE c < start(b) OBVIOUS
    <3>1. b \in 0 .. N - 1 /\ k < b BY <1>1
    <3>2. Within(of(k), start(k), start(b)) BY <1>3, <2>2, <3>1
    <3> QED BY <2>1, <3>2 DEF Within
  <2>6. 0 <= c BY <2>3
  <2>7. a < N => start(a) <= c
    <3> SUFFICES ASSUME a < N PROVE start(a) <= c OBVIOUS
    <3>1. a \in 0 .. N - 1 BY <1>1
    <3> DEFINE t == start(a)
    <3>2. t \in Nat /\ t <= s BY <1>3, <2>4, <3>1
    <3> HIDE DEF t, s, c
    <3>3. t <= c BY <2>3, <3>2
    <3> QED BY <3>3 DEF t
  <2> HIDE DEF c
  <2> QED BY <2>3, <2>5, <2>6, <2>7 DEF c
<1>8. Apart(hits)
  <2> SUFFICES ASSUME NEW x \in hits, NEW y \in hits, x.at = y.at PROVE x = y BY DEF Apart
  <2>1. PICK j \in a .. b - 1 : x \in of(j) BY <1>4
  <2>2. PICK k \in a .. b - 1 : y \in of(k) BY <1>4
  <2>3. x.at \in Int /\ y.at \in Int BY <1>7
  <2>4. ~(x.at < y.at) /\ ~(y.at < x.at)
    <3> DEFINE c == x.at
               d == y.at
    <3>1. c = d /\ c \in Int BY <2>3
    <3> HIDE DEF c, d
    <3>2. ~(c < d) /\ ~(d < c) BY <3>1
    <3> QED BY <3>2 DEF c, d
  <2>5. ~(j < k) BY <1>6, <2>1, <2>2, <2>4
  <2>6. ~(k < j) BY <1>6, <2>1, <2>2, <2>4
  <2>7. j = k BY <2>5, <2>6
  <2>8. j \in 0 .. N - 1 BY <1>5
  <2> QED BY <1>3, <2>1, <2>2, <2>7, <2>8 DEF Apart
<1>9. Within(hits, 0, n) BY <1>7 DEF Within
<1>10. a < N => Within(hits, start(a), n) BY <1>7 DEF Within
<1>11. b < N => Within(hits, 0, start(b)) BY <1>7 DEF Within
<1>12. IsFiniteSet(hits)
  <2> DEFINE z == 0
  <2>1. z \in Int /\ n \in Int /\ Within(hits, z, n) BY <1>2, <1>9
  <2> HIDE DEF z
  <2> QED BY <1>8, <2>1, ApartFinite
<1> QED BY <1>8, <1>9, <1>10, <1>11, <1>12 DEF N, n, start, hits

LastOf0(i) == IF i.count = 0 THEN 0 ELSE i.count - 1
LastStart(i, file) == IF i.count = 0 THEN i.base ELSE LineStart(i, file, i.count - 1)

\* A file that grows keeps its lines but the last one.
LEMMA LinesGrow ==
    ASSUME NEW found, NEW i, NEW file \in Seq(Bytes), IndexIs(i, file), i.base = 0,
           NEW bytes \in Seq(Bytes), NEW j, IndexIs(j, file \o bytes), j.kind = i.kind, j.base = i.base
    PROVE  LET more == file \o bytes last == LastOf0(i) IN
           /\ last \in Nat /\ last <= i.count /\ i.count \in Nat /\ j.count \in Nat /\ i.count <= j.count
           /\ last < j.count => LineStart(j, more, last) = LastStart(i, file)
           /\ Between(found, j, more, 0, last) = Between(found, i, file, 0, last)
<1> DEFINE more == file \o bytes
           T == Table(i.kind, file, i.base)
           U == Table(j.kind, more, j.base)
           n == Len(file)
           N == i.count
           last == LastOf0(i)
           start(k) == LineStart(i, file, k)
<1>1. /\ more \in Seq(Bytes) /\ n \in Nat /\ i.kind \in Kinds /\ i.base \in Nat
      /\ N = Cardinality(T) /\ j.count = Cardinality(U) /\ IndexIs(j, more)
  BY DEF IndexIs
<1>2. /\ IsFiniteSet(T) /\ IsFiniteSet(U) /\ T \subseteq Int /\ U \subseteq Int
      /\ \A s \in T : s < n
      /\ (i.base < n => i.base \in T)
      /\ (i.base >= n => T = {})
      /\ \A s \in U : s \in Nat /\ i.base <= s
      /\ (U # {} => i.base \in U)
  <2>1. U # {} => i.base \in U
    <3>1. more \in Seq(Bytes) /\ i.base \in Nat /\ Len(more) \in Nat BY <1>1
    <3> DEFINE kind == i.kind
               base == i.base
               grown == more
               V == Table(kind, grown, base)
    <3>3. grown \in Seq(Bytes) /\ base \in Nat /\ grown = more /\ base = i.base /\ U = V BY <3>1
    <3> HIDE DEF kind, base, grown
    <3>2. (base >= Len(grown) => V = {}) /\ (base < Len(grown) => base \in V)
      BY ONLY <3>3, TableBounds
    <3> HIDE DEF U, V, more
    <3> QED BY <3>1, <3>2, <3>3
  <2>2. IsFiniteSet(T) /\ T \subseteq Int /\ (\A s \in T : s < n) /\ (i.base < n => i.base \in T)
        /\ (i.base >= n => T = {})
    BY <1>1, TableBounds
  <2>3. IsFiniteSet(U) /\ U \subseteq Int /\ \A s \in U : s \in Nat /\ i.base <= s
    <3> HIDE DEF more
    <3> QED BY <1>1, TableBounds
  <2> HIDE DEF T, U, n
  <2> QED BY <2>1, <2>2, <2>3
<1>3. N \in Nat /\ j.count \in Nat BY <1>1, <1>2, FS_CardinalityType
<1>4. T = {x \in U : x < n}
  <2>1. CASE i.base < n BY <1>1, <2>1, TableGrows
  <2>2. CASE ~(i.base < n)
    <3>1. T = {} BY <1>1, <1>2, <2>2
    <3>2. \A x \in U : ~(x < n) BY <1>1, <1>2, <2>2
    <3> HIDE DEF T, U, n
    <3> QED BY <3>1, <3>2
  <2> QED BY <2>1, <2>2
<1>5. \A s \in T : s \in U /\ Rank(U, s) = Rank(T, s)
  <2> TAKE s \in T
  <2>1. s \in U /\ s < n /\ s \in Int BY <1>2, <1>4
  <2> HIDE DEF T, U, n
  <2>2. \A y : y \in U /\ y < s <=> y \in T /\ y < s
    <3> TAKE y
    <3>1. CASE y \in U
      <4>1. y \in Int BY <1>2, <3>1
      <4>2. y < s => y < n BY <1>1, <2>1, <4>1
      <4> QED BY <1>4, <3>1, <4>2
    <3>2. CASE y \notin U BY <1>4, <3>2
    <3> QED BY <3>1, <3>2
  <2>3. {y \in U : y < s} = {y \in T : y < s} BY <2>2
  <2> QED BY <2>1, <2>3 DEF Rank
<1>6. \A s \in U : LineStart(j, more, Rank(U, s)) = s
  <2>1. SameSoFar(j, more, more) BY DEF SameSoFar
  <2> HIDE DEF more
  <2> QED BY <1>1, <2>1, LineStartIs
<1>7. /\ \A k \in 0 .. N - 1 : start(k) \in T /\ Rank(T, start(k)) = k
      /\ \A l, k \in 0 .. N - 1 : l < k => start(l) < start(k)
  BY LinesAre
<1>8. N <= j.count
  <2>1. T \in SUBSET U BY <1>4
  <2> HIDE DEF T, U
  <2>2. Cardinality(T) <= Cardinality(U) BY <1>2, <2>1, FS_Subset
  <2> QED BY <1>1, <2>2
<1>9. last \in Nat /\ last <= N /\ (N # 0 => last = N - 1 /\ last \in 0 .. N - 1) /\ (N = 0 => last = 0)
  BY <1>3 DEF LastOf0
<1>10. ASSUME last < j.count PROVE LineStart(j, more, last) = LastStart(i, file)
  <2>1. CASE N # 0
    <3> DEFINE s == start(last)
    <3>1. LastStart(i, file) = s BY <1>9, <2>1 DEF LastStart
    <3>2. s \in T /\ Rank(T, s) = last BY <1>7, <1>9, <2>1
    <3> HIDE DEF s
    <3>3. s \in U /\ Rank(U, s) = last BY <1>5, <3>2
    <3>4. LineStart(j, more, Rank(U, s)) = s BY <1>6, <3>3
    <3> HIDE DEF last, U, more
    <3> QED BY <3>1, <3>3, <3>4
  <2>2. CASE N = 0
    <3>1. LastStart(i, file) = i.base /\ last = 0 BY <1>9, <2>2 DEF LastStart
    <3>2. U # {}
      <4>1. Cardinality({}) = 0 BY FS_EmptySet
      <4>2. 0 < j.count BY <1>10, <3>1
      <4> HIDE DEF U
      <4>3. ~(0 < 0) OBVIOUS
      <4> QED BY <1>1, <4>1, <4>2, <4>3
    <3>3. i.base \in U BY <1>2, <3>2
    <3> DEFINE b == i.base
    <3>4. b \in Int /\ \A t \in U : t \in Int /\ b <= t BY <1>1, <1>2
    <3> HIDE DEF b, U
    <3>5. Rank(U, b) = 0 BY <3>4, RankOfBase
    <3>6. LineStart(j, more, Rank(U, b)) = b BY <1>6, <3>3 DEF b
    <3> HIDE DEF last, more
    <3> QED BY <3>1, <3>5, <3>6 DEF b
  <2> QED BY <2>1, <2>2
<1>11. \A k \in 0 .. last - 1 : HitsOf(found, j, more, k) = HitsOf(found, i, file, k)
  <2> TAKE k \in 0 .. last - 1
  <2>1. N # 0 BY <1>9
  <2>2. k \in 0 .. N - 1 /\ N - 1 \in 0 .. N - 1 /\ k < N - 1 BY <1>3, <1>9, <2>1
  <2> DEFINE m == N - 1
             s == start(k)
             t == start(m)
             r == LineRange(i, file, k)
  <2>3. s \in T /\ t \in T /\ Rank(T, s) = k /\ s < t
    <3>1. m \in 0 .. N - 1 /\ k < m BY <2>2
    <3> HIDE DEF m
    <3> QED BY <1>7, <2>2, <3>1
  <2> HIDE DEF s, t
  <2>4. /\ LineRange(j, more, Rank(T, s)) = LineRange(i, file, Rank(T, s))
        /\ SubSeq(more, LineRange(i, file, Rank(T, s)).from + 1, LineRange(i, file, Rank(T, s)).to)
            = SubSeq(file, LineRange(i, file, Rank(T, s)).from + 1, LineRange(i, file, Rank(T, s)).to)
    BY <2>3, LineStays
  <2>5. LineRange(j, more, k) = r /\ SubSeq(more, r.from + 1, r.to) = SubSeq(file, r.from + 1, r.to)
    <3> HIDE DEF T, more
    <3> QED BY <2>3, <2>4
  <2> HIDE DEF r, more
  <2> QED BY <2>5 DEF HitsOf, r
<1>12. Between(found, j, more, 0, last) = Between(found, i, file, 0, last)
  <2> HIDE DEF more, last
  <2> QED BY <1>11 DEF Between
<1> HIDE DEF more, T, U, last
<1> QED BY <1>3, <1>8, <1>9, <1>10, <1>12 DEF more, last

-----------------------------------------------------------------------------
(* The first hits, of two parts of a file.                                 *)

Before(hits, x) == {y \in hits : y.at < x.at}
Numbered(hits) == \A x \in hits : x.at \in Int

LEMMA FirstIs ==
    ASSUME NEW hits, NEW max
    PROVE  FirstHits(hits, max) = {x \in hits : Cardinality(Before(hits, x)) < max}
BY OnlyOne DEF FirstHits, Of, Before

\* The hits before a hit are finitely many, and as many or more for a later one.
LEMMA BeforeIs ==
    ASSUME NEW hits, IsFiniteSet(hits), Numbered(hits)
    PROVE  /\ \A x \in hits : IsFiniteSet(Before(hits, x)) /\ Cardinality(Before(hits, x)) \in Nat
           /\ \A x, y \in hits : y.at < x.at =>
                 Cardinality(Before(hits, y)) <= Cardinality(Before(hits, x))
<1>1. ASSUME NEW x \in hits
      PROVE  IsFiniteSet(Before(hits, x)) /\ Cardinality(Before(hits, x)) \in Nat
  <2>1. Before(hits, x) \in SUBSET hits BY DEF Before
  <2> QED BY <2>1, FS_Subset, FS_CardinalityType
<1>2. ASSUME NEW x \in hits, NEW y \in hits, y.at < x.at
      PROVE  Cardinality(Before(hits, y)) <= Cardinality(Before(hits, x))
  <2>1. \A z \in hits : z.at < y.at => z.at < x.at
    <3> TAKE z \in hits
    <3> HAVE z.at < y.at
    <3> DEFINE a == z.at
               b == y.at
               c == x.at
    <3>1. a \in Int /\ b \in Int /\ c \in Int /\ a < b /\ b < c BY <1>2 DEF Numbered
    <3> HIDE DEF a, b, c
    <3>2. a < c BY <3>1
    <3> QED BY <3>2 DEF a, c
  <2>2. Before(hits, y) \in SUBSET Before(hits, x) BY <2>1 DEF Before
  <2> QED BY <1>1, <2>2, FS_Subset
<1> QED BY <1>1, <1>2

\* There are as many first hits as are asked for, if there are as many hits.
LEMMA FirstCount ==
    ASSUME NEW hits, IsFiniteSet(hits), Numbered(hits), Apart(hits), NEW max \in Nat
    PROVE  /\ IsFiniteSet(FirstHits(hits, max))
           /\ Cardinality(FirstHits(hits, max)) =
                 IF Cardinality(hits) < max THEN Cardinality(hits) ELSE max
<1> DEFINE n == Cardinality(hits)
           P == {x.at : x \in hits}
           f == [x \in hits |-> x.at]
           first == FirstHits(hits, max)
           m == IF n < max THEN n ELSE max
           D == 0 .. m - 1
           g == [x \in first |-> Rank(P, x.at)]
<1>1. n \in Nat BY FS_CardinalityType
<1>2. P \subseteq Int BY DEF Numbered
<1>3. IsFiniteSet(P) /\ Cardinality(P) = n
  <2>1. f \in [hits -> P] OBVIOUS
  <2>2. \A x, y \in hits : f[x] = f[y] => x = y BY DEF Apart
  <2>3. \A p \in P : \E x \in hits : f[x] = p OBVIOUS
  <2> HIDE DEF f, P
  <2>4. f \in Bijection(hits, P)
    BY <2>1, <2>2, <2>3 DEF Bijection, Injection, Surjection, IsInjective
  <2>5. ExistsBijection(hits, P) BY <2>4 DEF ExistsBijection
  <2> QED BY <2>5, FS_Bijection
<1>4. ASSUME NEW x \in hits PROVE Cardinality(Before(hits, x)) = Rank(P, x.at)
  <2> DEFINE A == Before(hits, x)
             B == {p \in P : p < x.at}
             e == [y \in A |-> y.at]
  <2>1. e \in [A -> B] BY DEF Before
  <2>2. \A y, z \in A : e[y] = e[z] => y = z BY DEF Apart, Before
  <2>3. \A p \in B : \E y \in A : e[y] = p BY DEF Before
  <2>4. IsFiniteSet(A) BY BeforeIs
  <2>5. Rank(P, x.at) = Cardinality(B) BY DEF Rank
  <2> HIDE DEF e, A, B
  <2>6. e \in Bijection(A, B)
    BY <2>1, <2>2, <2>3 DEF Bijection, Injection, Surjection, IsInjective
  <2>7. ExistsBijection(A, B) BY <2>6 DEF ExistsBijection
  <2>8. Cardinality(B) = Cardinality(A) BY <2>4, <2>7, FS_Bijection
  <2> QED BY <2>5, <2>8 DEF A
<1>5. /\ \A x : Rank(P, x) \in Nat
      /\ \A p, r \in P : Rank(P, p) = Rank(P, r) => p = r
      /\ \A p \in P : Rank(P, p) < n
  <2> HIDE DEF P, n
  <2> QED BY <1>2, <1>3, RankFacts
<1>6. \A k \in 0 .. n - 1 : \E p \in P : Rank(P, p) = k
  <2> HIDE DEF P, n
  <2> QED BY <1>2, <1>3, RankOnto
<1>7. \A x : x \in first <=> x \in hits /\ Rank(P, x.at) < max BY <1>4, FirstIs
<1>8. \A x \in hits : x.at \in P OBVIOUS
<1>9. \A p \in P : \E x \in hits : x.at = p OBVIOUS
<1> HIDE DEF P, n, first
<1>10. m \in Nat /\ \A k \in Nat : k < m <=> k < n /\ k < max BY <1>1
<1> HIDE DEF m
<1>11. \A x \in first : x \in hits /\ Rank(P, x.at) \in D
  <2> TAKE x \in first
  <2> DEFINE k == Rank(P, x.at)
  <2>1. x \in hits /\ k < max /\ k \in Nat /\ k < n BY <1>5, <1>7, <1>8
  <2> HIDE DEF k
  <2>2. k \in D BY <1>10, <2>1
  <2> QED BY <2>1, <2>2 DEF k
<1>12. g \in [first -> D] BY <1>11
<1>13. \A x, y \in first : g[x] = g[y] => x = y
  <2> TAKE x, y \in first
  <2> HAVE g[x] = g[y]
  <2>1. x \in hits /\ y \in hits BY <1>11
  <2>2. x.at = y.at BY <1>5, <1>8, <2>1
  <2> QED BY <2>1, <2>2 DEF Apart
<1>14. \A k \in D : \E x \in first : g[x] = k
  <2> TAKE k \in D
  <2>1. k \in Nat /\ k < n /\ k < max /\ k \in 0 .. n - 1 BY <1>1, <1>10
  <2>2. PICK p \in P : Rank(P, p) = k BY <1>6, <2>1
  <2>3. PICK x \in hits : x.at = p BY <1>9
  <2>4. x \in first BY <1>7, <2>1, <2>2, <2>3
  <2>5. g[x] = k BY <2>2, <2>3, <2>4
  <2> QED BY <2>4, <2>5
<1>15. IsFiniteSet(D) /\ Cardinality(D) = m
  <2> DEFINE a == 0
             b == m - 1
  <2>1. a \in Int /\ b \in Int /\ (a > b => m = 0) /\ (~(a > b) => b - a + 1 = m) BY <1>10
  <2> HIDE DEF a, b
  <2>2. IsFiniteSet(a .. b) /\ Cardinality(a .. b) = IF a > b THEN 0 ELSE b - a + 1 BY <2>1, FS_Interval
  <2>3. Cardinality(a .. b) = m BY <2>1, <2>2
  <2> QED BY <2>2, <2>3 DEF a, b
<1>16. IsFiniteSet(first)
  <2>1. first \in SUBSET hits BY <1>7
  <2> QED BY <2>1, FS_Subset
<1> HIDE DEF D, g
<1>17. g \in Bijection(first, D)
  BY <1>12, <1>13, <1>14 DEF Bijection, Injection, Surjection, IsInjective
<1>18. ExistsBijection(first, D) BY <1>17 DEF ExistsBijection
<1>19. Cardinality(D) = Cardinality(first) BY <1>16, <1>18, FS_Bijection
<1> QED BY <1>15, <1>16, <1>19 DEF first, m, n

Under(hits, at) == \A x \in hits : x.at < at
Above(hits, at) == \A x \in hits : at <= x.at

\* The first hits of all that lie before a byte are the first of those before it.
LEMMA FirstOfFront ==
    ASSUME NEW K, NEW N, NEW at \in Int, Numbered(K), Numbered(N), Under(K, at), Above(N, at), NEW max
    PROVE  {x \in FirstHits(K \cup N, max) : x.at < at} = FirstHits(K, max)
<1>1. ASSUME NEW x \in K PROVE Before(K \cup N, x) = Before(K, x)
  <2>1. \A y \in N : ~(y.at < x.at)
    <3> TAKE y \in N
    <3> DEFINE a == x.at
               b == y.at
    <3>1. a \in Int /\ b \in Int /\ a < at /\ at <= b BY DEF Numbered, Under, Above
    <3> HIDE DEF a, b
    <3>2. ~(b < a) BY <3>1
    <3> QED BY <3>2 DEF a, b
  <2> QED BY <2>1 DEF Before
<1>2. \A x \in K : x.at < at BY DEF Under
<1>3. \A x \in N : ~(x.at < at)
  <2> TAKE x \in N
  <2> DEFINE a == x.at
  <2>1. a \in Int /\ at <= a BY DEF Numbered, Above
  <2> HIDE DEF a
  <2>2. ~(a < at) BY <2>1
  <2> QED BY <2>2 DEF a
<1>4. \A x : x \in FirstHits(K \cup N, max) <=> x \in K \cup N /\ Cardinality(Before(K \cup N, x)) < max
  BY FirstIs
<1>5. \A x : x \in FirstHits(K, max) <=> x \in K /\ Cardinality(Before(K, x)) < max BY FirstIs
<1>6. \A x : x \in FirstHits(K \cup N, max) /\ x.at < at <=> x \in FirstHits(K, max)
  BY <1>1, <1>2, <1>3, <1>4, <1>5
<1> QED BY <1>6

LEMMA FirstOfFirst ==
    ASSUME NEW N, IsFiniteSet(N), Numbered(N), NEW max \in Nat, NEW m \in Nat, m <= max
    PROVE  FirstHits(FirstHits(N, max), m) = FirstHits(N, m)
<1> DEFINE F == FirstHits(N, max)
           c(x) == Cardinality(Before(N, x))
<1>1. /\ \A x \in N : IsFiniteSet(Before(N, x)) /\ c(x) \in Nat
      /\ \A x, y \in N : y.at < x.at => c(y) <= c(x)
  BY BeforeIs
<1>2. \A x : x \in F <=> x \in N /\ c(x) < max BY FirstIs
<1>3. \A x : x \in FirstHits(F, m) <=> x \in F /\ Cardinality(Before(F, x)) < m BY FirstIs
<1>4. \A x : x \in FirstHits(N, m) <=> x \in N /\ c(x) < m BY FirstIs
<1> HIDE DEF F
<1>5. ASSUME NEW x \in F PROVE Before(F, x) = Before(N, x)
  <2>1. \A y \in N : y.at < x.at => y \in F
    <3> TAKE y \in N
    <3> HAVE y.at < x.at
    <3> DEFINE a == c(x)
               b == c(y)
    <3>1. a \in Nat /\ b \in Nat /\ b <= a /\ a < max BY <1>1, <1>2
    <3> HIDE DEF a, b
    <3>2. b < max BY <3>1
    <3> QED BY <1>2, <3>2 DEF b
  <2>2. \A y \in F : y \in N BY <1>2
  <2> QED BY <2>1, <2>2 DEF Before
<1>6. \A x \in N : c(x) < m => c(x) < max
  <2> TAKE x \in N
  <2> DEFINE a == c(x)
  <2>1. a \in Nat BY <1>1
  <2> HIDE DEF a
  <2>2. a < m => a < max BY <2>1
  <2> QED BY <2>2 DEF a
<1>7. \A x \in F : Cardinality(Before(F, x)) = c(x) BY <1>5
<1> HIDE DEF c
<1>8. \A x : x \in FirstHits(F, m) <=> x \in FirstHits(N, m) BY <1>2, <1>3, <1>4, <1>6, <1>7
<1> QED BY <1>8 DEF F

\* merge_tail_result's list: what is kept, and from the tail what is left to
\* the limit.
LEMMA FirstJoin ==
    ASSUME NEW K, NEW N, NEW at \in Int, Numbered(K), Numbered(N), Under(K, at), Above(N, at),
           IsFiniteSet(K), IsFiniteSet(N), Apart(K), NEW max \in Nat
    PROVE  LET kept == FirstHits(K, max) IN
           FirstHits(K \cup N, max)
              = kept \cup FirstHits(FirstHits(N, max), max - Cardinality(kept))
<1> DEFINE kept == FirstHits(K, max)
           k == Cardinality(K)
           m == max - Cardinality(kept)
           c(x) == Cardinality(Before(N, x))
           both == FirstHits(K \cup N, max)
<1>1. k \in Nat /\ m = IF k < max THEN max - k ELSE 0
  <2>1. k \in Nat BY FS_CardinalityType
  <2>2. Cardinality(kept) = IF k < max THEN k ELSE max BY FirstCount
  <2> HIDE DEF k, kept
  <2> QED BY <2>1, <2>2
<1> HIDE DEF k, m
<1>2. m \in Nat /\ m <= max /\ \A z \in Nat : k + z < max <=> z < m BY <1>1
<1>3. \A x \in N : IsFiniteSet(Before(N, x)) /\ c(x) \in Nat BY BeforeIs
<1>4. \A x \in K, y \in N : x.at < y.at
  <2> TAKE x \in K, y \in N
  <2> DEFINE a == x.at
             b == y.at
  <2>1. a \in Int /\ b \in Int /\ a < at /\ at <= b BY DEF Numbered, Under, Above
  <2> HIDE DEF a, b
  <2>2. a < b BY <2>1
  <2> QED BY <2>2 DEF a, b
<1>5. ASSUME NEW x \in N PROVE Cardinality(Before(K \cup N, x)) = k + c(x)
  <2> DEFINE B == Before(N, x)
  <2>1. Before(K \cup N, x) = K \cup B BY <1>4 DEF Before
  <2>2. K \cap B = {}
    <3>1. \A y \in K : y \notin N
      <4> TAKE y \in K
      <4> DEFINE a == y.at
      <4>1. a \in Int BY DEF Numbered
      <4>2. y \in N => a < a BY <1>4
      <4> HIDE DEF a
      <4> QED BY <4>1, <4>2
    <3> QED BY <3>1 DEF Before
  <2>3. IsFiniteSet(B) BY <1>3
  <2> HIDE DEF B
  <2>4. Cardinality(K \cup B) = Cardinality(K) + Cardinality(B) BY <2>2, <2>3, CountBoth
  <2> QED BY <2>1, <2>4 DEF k, B
<1>6. \A x : x \in both <=> x \in K \cup N /\ Cardinality(Before(K \cup N, x)) < max BY FirstIs
<1>7. \A x : x \in FirstHits(N, m) <=> x \in N /\ c(x) < m BY FirstIs
<1>8. FirstHits(FirstHits(N, max), m) = FirstHits(N, m) BY <1>2, FirstOfFirst
<1>9. {x \in both : x.at < at} = kept BY FirstOfFront
<1>10. \A x \in K : x.at < at BY DEF Under
<1>11. \A x \in N : ~(x.at < at)
  <2> TAKE x \in N
  <2> DEFINE a == x.at
  <2>1. a \in Int /\ at <= a BY DEF Numbered, Above
  <2> HIDE DEF a
  <2>2. ~(a < at) BY <2>1
  <2> QED BY <2>2 DEF a
<1> HIDE DEF both, kept, c
<1>12. \A x \in N : x \in both <=> x \in FirstHits(N, m)
  <2> TAKE x \in N
  <2> DEFINE z == c(x)
  <2>1. z \in Nat BY <1>3
  <2>2. x \in both <=> k + z < max BY <1>5, <1>6
  <2>3. x \in FirstHits(N, m) <=> z < m BY <1>7
  <2> HIDE DEF z
  <2> QED BY <1>2, <2>1, <2>2, <2>3
<1>13. \A x : x \in both <=> x \in kept \cup FirstHits(N, m) BY <1>6, <1>7, <1>9, <1>10, <1>11, <1>12
<1>14. both = kept \cup FirstHits(N, m) BY <1>13
<1> QED BY <1>8, <1>14 DEF both, kept, m

-----------------------------------------------------------------------------
(* Histograms.                                                             *)

\* Where the hits of each bin are counted, they are counted by the sum over
\* the bins.
Tally(hits, bin, S) == Cardinality({x \in hits : bin[x] \in S})

\* The sum of a histogram over some bins counts the hits in these bins.
LEMMA SumIs ==
    ASSUME NEW hits, IsFiniteSet(hits), NEW bin, NEW S, IsFiniteSet(S), NEW bins,
           \A c \in S : bins[c] = Tally(hits, bin, {c})
    PROVE  FoldFunctionOnSet(+, 0, bins, S) = Tally(hits, bin, S)
<1> DEFINE R(g, s) == IF s = {} THEN 0
                      ELSE bins[CHOOSE x \in s : TRUE] + g[s \ {CHOOSE x \in s : TRUE}]
           Runs(g) == g = [s \in SUBSET S |-> R(g, s)]
           t == [s \in SUBSET S |-> Tally(hits, bin, s)]
           f == CHOOSE g : Runs(g)
           n == Cardinality(S)
<1>1. FoldFunctionOnSet(+, 0, bins, S) = f[S] BY DEF FoldFunctionOnSet, MapThenFoldSet
<1>2. \A s : Tally(hits, bin, s) \in Nat /\ IsFiniteSet({x \in hits : bin[x] \in s})
  <2> TAKE s
  <2> DEFINE A == {x \in hits : bin[x] \in s}
  <2>1. A \in SUBSET hits OBVIOUS
  <2> HIDE DEF A
  <2>2. IsFiniteSet(A) /\ Cardinality(A) \in Nat BY <2>1, FS_Subset, FS_CardinalityType
  <2> QED BY <2>2 DEF A, Tally
<1>3. ASSUME NEW s \in SUBSET S, s # {} PROVE t[s] = R(t, s)
  <2> DEFINE c == CHOOSE x \in s : TRUE
             r == s \ {c}
             A == {x \in hits : bin[x] \in {c}}
             B == {x \in hits : bin[x] \in r}
             C == {x \in hits : bin[x] \in s}
  <2>1. c \in s BY <1>3
  <2>2. r \in SUBSET S /\ c \in S BY <2>1
  <2> HIDE DEF c
  <2>3. C = A \cup B /\ A \cap B = {} BY <2>1
  <2>4. IsFiniteSet(A) /\ IsFiniteSet(B) BY <1>2
  <2>5. /\ Tally(hits, bin, s) = Cardinality(C) /\ Tally(hits, bin, {c}) = Cardinality(A)
        /\ Tally(hits, bin, r) = Cardinality(B)
    BY DEF Tally
  <2> HIDE DEF A, B, C
  <2>6. Cardinality(A \cup B) = Cardinality(A) + Cardinality(B) BY <2>3, <2>4, CountBoth
  <2>7. Tally(hits, bin, s) = bins[c] + Tally(hits, bin, r) BY <2>2, <2>3, <2>5, <2>6
  <2>8. t[s] = Tally(hits, bin, s) /\ t[r] = Tally(hits, bin, r) BY <2>2
  <2>9. R(t, s) = bins[c] + t[r]
    <3> HIDE DEF t
    <3> QED BY <1>3 DEF c
  <2> QED BY <2>7, <2>8, <2>9
<1>4. t[{}] = R(t, {})
  <2>1. {x \in hits : bin[x] \in {}} = {} OBVIOUS
  <2>2. Tally(hits, bin, {}) = 0 BY <2>1, FS_EmptySet DEF Tally
  <2> QED BY <2>2
<1>5. Runs(t)
  <2>1. \A s \in SUBSET S : t[s] = R(t, s)
    <3> HIDE DEF t, R
    <3> QED BY <1>3, <1>4
  <2>2. t = [s \in SUBSET S |-> t[s]] OBVIOUS
  <2> HIDE DEF t, R
  <2> QED BY <2>1, <2>2
<1>6. Runs(f)
  <2> HIDE DEF Runs, t
  <2> QED BY <1>5
<1> HIDE DEF f
<1>7. \A s \in SUBSET S : f[s] = R(f, s)
  <2> HIDE DEF R
  <2> QED BY <1>6
<1> DEFINE Q == {k \in 0 .. n : \A s \in SUBSET S : Cardinality(s) = k => f[s] = t[s]}
<1>8. n \in Nat BY FS_CardinalityType
<1>9. \A s \in SUBSET S : IsFiniteSet(s) /\ Cardinality(s) \in Nat /\ Cardinality(s) <= n
  BY FS_Subset, FS_CardinalityType
<1> HIDE DEF n, t
<1>10. 0 \in Q
  <2> SUFFICES ASSUME NEW s \in SUBSET S, Cardinality(s) = 0 PROVE f[s] = t[s] BY <1>8
  <2>1. s = {} BY <1>9, FS_EmptySet
  <2>2. R(f, {}) = 0 /\ R(t, {}) = 0 OBVIOUS
  <2> HIDE DEF R
  <2> QED BY <1>4, <1>7, <2>1, <2>2
<1>11. \A k \in 1 .. n : k - 1 \in Q => k \in Q
  <2> SUFFICES ASSUME NEW k \in 1 .. n, k - 1 \in Q, NEW s \in SUBSET S, Cardinality(s) = k
               PROVE  f[s] = t[s]
    BY <1>8
  <2> DEFINE c == CHOOSE x \in s : TRUE
             r == s \ {c}
  <2>1. s # {}
    <3>1. Cardinality({}) = 0 BY FS_EmptySet
    <3> QED BY <1>8, <3>1
  <2>2. c \in s BY <2>1
  <2>3. R(f, s) = bins[c] + f[r] /\ R(t, s) = bins[c] + t[r] BY <2>1
  <2> HIDE DEF c, R
  <2>4. Cardinality(r) = k - 1 /\ r \in SUBSET S BY <1>9, <2>2, FS_RemoveElement
  <2> HIDE DEF r
  <2>5. f[r] = t[r] BY <2>4
  <2> QED BY <1>3, <1>7, <2>1, <2>3, <2>5
<1>12. \A k \in 0 .. n : k \in Q
  <2> HIDE DEF Q
  <2> QED BY <1>8, <1>10, <1>11, Climb
<1>13. n \in Q
  <2>1. n \in 0 .. n BY <1>8
  <2> HIDE DEF Q
  <2> QED BY <1>12, <2>1
<1>14. f[S] = t[S] BY <1>13 DEF n
<1> QED BY <1>1, <1>14 DEF t

LEMMA BinIs ==
    ASSUME NEW byte \in Nat, NEW w \in Nat \ {0}
    PROVE  BinOf(byte, w) \in 0 .. Bins - 1
<1> DEFINE d == byte \div w
           b == Bins - 1
<1>1. d \in Nat BY DivIs
<1>2. b \in Nat BY BinsAssumption
<1>3. BinOf(byte, w) = IF d > b THEN b ELSE d BY DEF BinOf
<1> HIDE DEF d, b
<1>4. BinOf(byte, w) \in 0 .. b BY <1>1, <1>2, <1>3
<1> QED BY <1>4 DEF b

\* What lies within the bins lies in the same bin whether it is binned at
\* once or bins are joined.
LEMMA BinOfBin ==
    ASSUME NEW byte \in Nat, NEW w \in Nat \ {0}, NEW r \in Nat \ {0}, byte < w * Bins
    PROVE  BinOf(BinOf(byte, w), r) = BinOf(byte, w * r)
<1> DEFINE d == byte \div w
           b == Bins - 1
           e == d \div r
           v == w * r
<1>1. d \in Nat /\ d * w <= byte BY DivIs
<1>2. b \in Nat /\ Bins \in Nat \ {0} /\ Bins = b + 1 BY BinsAssumption
<1>3. BinOf(byte, w) = IF d > b THEN b ELSE d BY DEF BinOf
<1>4. e = byte \div v BY DivDiv
<1>5. BinOf(d, r) = (IF e > b THEN b ELSE e) /\ BinOf(byte, v) = IF byte \div v > b THEN b ELSE byte \div v
  BY DEF BinOf
<1>6. ~(d > b)
  <2> HIDE DEF d, b
  <2>1. ASSUME d > b PROVE FALSE
    <3>1. d >= Bins BY <1>1, <1>2, <2>1
    <3>2. d * w >= Bins * w BY <1>1, <1>2, <3>1
    <3>3. Bins * w = w * Bins BY <1>2
    <3> DEFINE x == d * w
               y == w * Bins
    <3>4. x \in Int /\ y \in Int /\ x >= y /\ x <= byte /\ byte < y BY <1>1, <1>2, <3>2, <3>3
    <3> HIDE DEF x, y
    <3> QED BY <3>4
  <2> QED BY <2>1
<1> HIDE DEF d, b, e, v
<1>7. BinOf(byte, w) = d BY <1>3, <1>6
<1> QED BY <1>4, <1>5, <1>7 DEF v

InBins(hits, limit) == \A x \in hits : x.at \in Nat /\ x.at < limit

\* Widening the bins of a histogram gives that of the wider bins.
LEMMA RebinIs ==
    ASSUME NEW hits, IsFiniteSet(hits), NEW w \in Nat \ {0}, NEW r \in Nat \ {0},
           InBins(hits, w * Bins), NEW b \in 0 .. Bins - 1
    PROVE  Rebinned(Histogram(hits, w), r)[b] = Histogram(hits, w * r)[b]
<1> DEFINE D == 0 .. Bins - 1
           bins == Histogram(hits, w)
           bin == [x \in hits |-> BinOf(x.at, w)]
           S == {c \in D : BinOf(c, r) = b}
           v == w * r
           limit == w * Bins
<1>1. \A x \in hits : x.at \in Nat /\ x.at < limit BY DEF InBins
<1>2. \A x \in hits : bin[x] \in D
  <2> TAKE x \in hits
  <2> DEFINE a == x.at
  <2>1. a \in Nat BY <1>1
  <2> HIDE DEF a
  <2>2. BinOf(a, w) \in 0 .. Bins - 1 BY <2>1, BinIs
  <2> QED BY <2>2 DEF a
<1>3. \A x \in hits : BinOf(bin[x], r) = BinOf(x.at, v)
  <2> TAKE x \in hits
  <2> DEFINE a == x.at
  <2>1. a \in Nat /\ a < w * Bins BY <1>1
  <2>2. bin[x] = BinOf(a, w) OBVIOUS
  <2> HIDE DEF a, bin
  <2>3. BinOf(BinOf(a, w), r) = BinOf(a, w * r) BY <2>1, BinOfBin
  <2> QED BY <2>2, <2>3 DEF a
<1>4. \A c \in D : bins[c] = Tally(hits, bin, {c})
  <2> TAKE c \in D
  <2>1. bins[c] = Cardinality({x \in hits : BinOf(x.at, w) = c}) BY DEF Histogram
  <2>2. {x \in hits : BinOf(x.at, w) = c} = {x \in hits : bin[x] \in {c}} OBVIOUS
  <2> HIDE DEF bin, bins
  <2> QED BY <2>1, <2>2 DEF Tally
<1>5. IsFiniteSet(S)
  <2> DEFINE z == 0
             y == Bins - 1
  <2>1. z \in Int /\ y \in Int BY BinsAssumption
  <2> HIDE DEF z, y
  <2>2. IsFiniteSet(z .. y) BY <2>1, FS_Interval
  <2>3. IsFiniteSet(D) BY <2>2 DEF z, y
  <2>4. S \in SUBSET D OBVIOUS
  <2> HIDE DEF S, D
  <2> QED BY <2>3, <2>4, FS_Subset
<1>6. Rebinned(bins, r)[b] = FoldFunctionOnSet(+, 0, bins, S)
  <2> HIDE DEF bins
  <2> QED BY DEF Rebinned, FoldFunctionOnSet, MapThenFoldSet
<1>7. \A c \in S : bins[c] = Tally(hits, bin, {c})
  <2> HIDE DEF bins, bin
  <2> QED BY <1>4
<1>8. FoldFunctionOnSet(+, 0, bins, S) = Tally(hits, bin, S)
  <2> HIDE DEF bins, bin, S
  <2> QED BY <1>5, <1>7, SumIs
<1>9. Tally(hits, bin, S) = Cardinality({x \in hits : BinOf(x.at, v) = b})
  <2>1. \A x \in hits : bin[x] \in S <=> BinOf(x.at, v) = b
    <3> HIDE DEF bin, v
    <3> QED BY <1>2, <1>3
  <2> HIDE DEF bin, S, v
  <2>2. {x \in hits : bin[x] \in S} = {x \in hits : BinOf(x.at, v) = b} BY <2>1
  <2> QED BY <2>2 DEF Tally
<1>10. Histogram(hits, v)[b] = Cardinality({x \in hits : BinOf(x.at, v) = b})
  <2> HIDE DEF v
  <2> QED BY DEF Histogram
<1> HIDE DEF bins, bin, S
<1> QED BY <1>6, <1>8, <1>9, <1>10 DEF bins

LEMMA BinCount ==
    ASSUME NEW hits, IsFiniteSet(hits), NEW w, NEW b \in 0 .. Bins - 1
    PROVE  Histogram(hits, w)[b] \in Nat
<1> DEFINE P == {x \in hits : BinOf(x.at, w) = b}
<1>1. Histogram(hits, w)[b] = Cardinality(P) BY DEF Histogram
<1>2. P \in SUBSET hits OBVIOUS
<1> HIDE DEF P
<1>3. Cardinality(P) \in Nat BY <1>2, FS_Subset, FS_CardinalityType
<1> QED BY <1>1, <1>3

\* The histogram of two sets of hits apart is the sum of theirs.
LEMMA BinsJoin ==
    ASSUME NEW A, NEW B, IsFiniteSet(A), IsFiniteSet(B), A \cap B = {}, NEW w, NEW b \in 0 .. Bins - 1
    PROVE  Histogram(A \cup B, w)[b] = Histogram(A, w)[b] + Histogram(B, w)[b]
<1> DEFINE P == {x \in A : BinOf(x.at, w) = b}
           Q == {x \in B : BinOf(x.at, w) = b}
           R == {x \in A \cup B : BinOf(x.at, w) = b}
<1>1. /\ Histogram(A, w)[b] = Cardinality(P) /\ Histogram(B, w)[b] = Cardinality(Q)
      /\ Histogram(A \cup B, w)[b] = Cardinality(R)
  BY DEF Histogram
<1>2. R = P \cup Q /\ P \cap Q = {} /\ P \in SUBSET A /\ Q \in SUBSET B OBVIOUS
<1> HIDE DEF P, Q, R
<1>3. IsFiniteSet(P) /\ IsFiniteSet(Q) BY <1>2, FS_Subset
<1>4. Cardinality(P) \in Nat /\ Cardinality(Q) \in Nat BY <1>3, FS_CardinalityType
<1>5. Cardinality(P \cup Q) = Cardinality(P) + Cardinality(Q) BY <1>2, <1>3, CountBoth
<1> QED BY <1>1, <1>2, <1>4, <1>5

-----------------------------------------------------------------------------
(* The merge.                                                              *)

\* What analyze_rules makes of the hits it finds, and of those in the last
\* line.
Summary(all, tail, line, start, w) ==
    [count |-> Cardinality(all), hits |-> FirstHits(all, MaxHits), bins |-> Histogram(all, w),
     lastCount |-> Cardinality(tail), lastBins |-> Histogram(tail, w),
     lastLine |-> line, lastStart |-> start, width |-> w]

\* The hits before the last line, those in it, and those that are found from
\* its start on after the file has grown.
LEMMA MergeIs ==
    ASSUME NEW K, NEW T, NEW N, NEW at \in Int, Under(K, at), Above(T, at), Above(N, at),
           IsFiniteSet(K), IsFiniteSet(T), IsFiniteSet(N), Numbered(K), Numbered(T), Numbered(N),
           Apart(K), NEW w \in Nat \ {0}, NEW r \in Nat \ {0}, InBins(K \cup T, w * Bins),
           NEW l, NEW M, NEW line, NEW start
    PROVE  Merged(Summary(K \cup T, T, l, at, w), Summary(N, M, line, start, w * r))
              = Summary(K \cup N, M, line, start, w * r)
<1> DEFINE v == w * r
           old == Summary(K \cup T, T, l, at, w)
           tail == Summary(N, M, line, start, v)
           whole == Summary(K \cup N, M, line, start, v)
           kept == {x \in old.hits : x.at < old.lastStart}
           D == 0 .. Bins - 1
           ratio == tail.width \div old.width
           was == Rebinned(old.bins, ratio)
           last == Rebinned(old.lastBins, ratio)
           bins == [b \in D |-> was[b] - last[b] + tail.bins[b]]
           merged == [count |-> old.count - old.lastCount + tail.count,
                      hits |-> kept \cup FirstHits(tail.hits, MaxHits - Cardinality(kept)),
                      bins |-> bins,
                      lastCount |-> tail.lastCount, lastBins |-> tail.lastBins,
                      lastLine |-> line, lastStart |-> start, width |-> v]
<1>1. /\ old.count = Cardinality(K \cup T) /\ old.lastCount = Cardinality(T)
      /\ old.hits = FirstHits(K \cup T, MaxHits) /\ old.lastStart = at /\ old.width = w
      /\ old.bins = Histogram(K \cup T, w) /\ old.lastBins = Histogram(T, w)
  BY DEF Summary
<1>2. /\ tail.count = Cardinality(N) /\ tail.hits = FirstHits(N, MaxHits) /\ tail.width = v
      /\ tail.bins = Histogram(N, v)
  BY DEF Summary
<1>3. tail = [count |-> tail.count, hits |-> tail.hits, bins |-> tail.bins,
              lastCount |-> tail.lastCount, lastBins |-> tail.lastBins,
              lastLine |-> line, lastStart |-> start, width |-> v]
  BY DEF Summary
<1>4. \A x \in K : x \notin T /\ x \notin N
  <2> TAKE x \in K
  <2> DEFINE a == x.at
  <2>1. a \in Int /\ a < at BY DEF Numbered, Under
  <2>2. (x \in T \/ x \in N) => at <= a BY DEF Above
  <2> HIDE DEF a
  <2> QED BY <2>1, <2>2
<1>5. K \cap T = {} /\ K \cap N = {} BY <1>4
<1>6. MaxHits \in Nat BY BinsAssumption
<1>7. Merged(old, tail) = merged
  <2>1. DOMAIN tail.bins = D
    <3> HIDE DEF tail
    <3> QED BY <1>2 DEF Histogram
  <2> DEFINE m == Merged(old, tail)
  <2>2. m = [tail EXCEPT !.count = old.count - old.lastCount + @,
                         !.bins = [b \in DOMAIN @ |-> was[b] - last[b] + @[b]],
                         !.hits = kept \cup FirstHits(@, MaxHits - Cardinality(kept))]
    <3> HIDE DEF old, tail
    <3> QED BY DEF Merged
  <2> HIDE DEF old, tail, was, last, kept, m
  <2>3. m = [count |-> old.count - old.lastCount + tail.count,
             hits |-> kept \cup FirstHits(tail.hits, MaxHits - Cardinality(kept)),
             bins |-> [b \in DOMAIN tail.bins |-> was[b] - last[b] + tail.bins[b]],
             lastCount |-> tail.lastCount, lastBins |-> tail.lastBins,
             lastLine |-> line, lastStart |-> start, width |-> v]
    <3> DEFINE c == old.count - old.lastCount + tail.count
               hh == kept \cup FirstHits(tail.hits, MaxHits - Cardinality(kept))
               g == [b \in DOMAIN tail.bins |-> was[b] - last[b] + tail.bins[b]]
    <3>1. m = [tail EXCEPT !.count = c, !.bins = g, !.hits = hh] BY <2>2
    <3> DEFINE t1 == tail.count
               t2 == tail.hits
               t3 == tail.bins
               t4 == tail.lastCount
               t5 == tail.lastBins
    <3>3. tail = [count |-> t1, hits |-> t2, bins |-> t3, lastCount |-> t4, lastBins |-> t5,
                  lastLine |-> line, lastStart |-> start, width |-> v]
      BY <1>3
    <3> HIDE DEF c, hh, g, v, t1, t2, t3, t4, t5
    <3>4. [tail EXCEPT !.count = c, !.bins = g, !.hits = hh]
            = [count |-> c, hits |-> hh, bins |-> g, lastCount |-> t4, lastBins |-> t5,
               lastLine |-> line, lastStart |-> start, width |-> v]
      <4> DEFINE x == [tail EXCEPT !.count = c]
                 y == [x EXCEPT !.bins = g]
                 z == [y EXCEPT !.hits = hh]
      <4>1. z = [tail EXCEPT !.count = c, !.bins = g, !.hits = hh] OBVIOUS
      <4>2. x = [count |-> c, hits |-> t2, bins |-> t3, lastCount |-> t4, lastBins |-> t5,
                 lastLine |-> line, lastStart |-> start, width |-> v]
        BY <3>3
      <4> HIDE DEF x
      <4>3. y = [count |-> c, hits |-> t2, bins |-> g, lastCount |-> t4, lastBins |-> t5,
                 lastLine |-> line, lastStart |-> start, width |-> v]
        BY <4>2
      <4> HIDE DEF y
      <4>4. z = [count |-> c, hits |-> hh, bins |-> g, lastCount |-> t4, lastBins |-> t5,
                 lastLine |-> line, lastStart |-> start, width |-> v]
        BY <4>3
      <4> HIDE DEF z
      <4> QED BY <4>1, <4>4
    <3>2. m = [count |-> c, hits |-> hh, bins |-> g,
               lastCount |-> tail.lastCount, lastBins |-> tail.lastBins,
               lastLine |-> line, lastStart |-> start, width |-> v]
      BY <3>1, <3>4 DEF t4, t5
    <3> QED BY <3>2 DEF c, hh, g, v
  <2> QED BY <2>1, <2>3 DEF m
<1>8. old.count - old.lastCount + tail.count = Cardinality(K \cup N)
  <2>1. Cardinality(K \cup T) = Cardinality(K) + Cardinality(T) BY <1>5, CountBoth
  <2>2. Cardinality(K \cup N) = Cardinality(K) + Cardinality(N) BY <1>5, CountBoth
  <2>3. Cardinality(K) \in Nat /\ Cardinality(T) \in Nat /\ Cardinality(N) \in Nat
    BY FS_CardinalityType
  <2> HIDE DEF old, tail
  <2> QED BY <1>1, <1>2, <2>1, <2>2, <2>3
<1>9. kept \cup FirstHits(tail.hits, MaxHits - Cardinality(kept)) = FirstHits(K \cup N, MaxHits)
  <2>1. {x \in FirstHits(K \cup T, MaxHits) : x.at < at} = FirstHits(K, MaxHits) BY FirstOfFront
  <2>2. FirstHits(K \cup N, MaxHits)
          = FirstHits(K, MaxHits) \cup FirstHits(FirstHits(N, MaxHits), MaxHits - Cardinality(FirstHits(K, MaxHits)))
    BY <1>6, FirstJoin
  <2> HIDE DEF old, tail
  <2>3. kept = FirstHits(K, MaxHits) BY <1>1, <2>1
  <2> HIDE DEF kept
  <2> QED BY <1>2, <2>2, <2>3
<1>10. ratio = r
  <2>1. v \div w = r
    <3>1. v \in Nat /\ r * w <= v /\ v < (r + 1) * w
      <4>1. r * w = w * r /\ (r + 1) * w = w * r + w /\ w * r \in Nat OBVIOUS
      <4> QED BY <4>1
    <3> HIDE DEF v
    <3> QED BY <3>1, DivUnique
  <2> HIDE DEF old, tail, v
  <2> QED BY <1>1, <1>2, <2>1
<1>11. bins = Histogram(K \cup N, v)
  <2>1. IsFiniteSet(K \cup T) BY FS_Union
  <2>2. InBins(T, w * Bins) BY DEF InBins
  <2>3. was = Rebinned(Histogram(K \cup T, w), r) /\ last = Rebinned(Histogram(T, w), r)
    <3> HIDE DEF old, tail, ratio
    <3> QED BY <1>1, <1>10
  <2>4. \A b \in D : bins[b] = Histogram(K \cup N, v)[b]
    <3> TAKE b \in D
    <3>1. was[b] = Histogram(K \cup T, v)[b]
      <4> HIDE DEF was, old, tail
      <4> QED BY <2>1, <2>3, RebinIs
    <3>2. last[b] = Histogram(T, v)[b]
      <4> HIDE DEF last, old, tail
      <4> QED BY <2>2, <2>3, RebinIs
    <3> HIDE DEF was, last, old, tail, v
    <3>3. bins[b] = was[b] - last[b] + tail.bins[b] OBVIOUS
    <3>9. Histogram(K, v)[b] \in Nat /\ Histogram(T, v)[b] \in Nat /\ Histogram(N, v)[b] \in Nat
      BY BinCount
    <3>4. Histogram(K \cup T, v)[b] = Histogram(K, v)[b] + Histogram(T, v)[b]
      <4>1. b \in 0 .. Bins - 1 OBVIOUS
      <4> HIDE DEF D, bins, ratio, kept, whole, merged
      <4>2. IsFiniteSet(K) /\ IsFiniteSet(T) /\ K \cap T = {} BY <1>5
      <4> QED BY ONLY <4>1, <4>2, BinsJoin
    <3>5. Histogram(K \cup N, v)[b] = Histogram(K, v)[b] + Histogram(N, v)[b]
      <4>1. b \in 0 .. Bins - 1 OBVIOUS
      <4> HIDE DEF D, bins, ratio, kept, whole, merged
      <4>2. IsFiniteSet(K) /\ IsFiniteSet(N) /\ K \cap N = {} BY <1>5
      <4> QED BY ONLY <4>1, <4>2, BinsJoin
    <3> HIDE DEF bins
    <3> DEFINE x == Histogram(K, v)[b]
               y == Histogram(T, v)[b]
               z == Histogram(N, v)[b]
    <3>6. /\ x \in Nat /\ y \in Nat /\ z \in Nat /\ was[b] = x + y /\ last[b] = y
          /\ tail.bins[b] = z /\ Histogram(K \cup N, v)[b] = x + z
      BY <1>2, <3>1, <3>2, <3>4, <3>5, <3>9
    <3> HIDE DEF x, y, z
    <3>7. bins[b] = (x + y) - y + z BY <3>3, <3>6
    <3>8. (x + y) - y + z = x + z BY <3>6
    <3> QED BY <3>6, <3>7, <3>8
  <2>5. bins = [b \in D |-> bins[b]] OBVIOUS
  <2>6. Histogram(K \cup N, v) = [b \in D |-> Histogram(K \cup N, v)[b]] BY DEF Histogram
  <2> HIDE DEF bins, v
  <2> QED BY <2>4, <2>5, <2>6
<1>12. /\ whole = [count |-> Cardinality(K \cup N), hits |-> FirstHits(K \cup N, MaxHits),
                   bins |-> Histogram(K \cup N, v), lastCount |-> tail.lastCount,
                   lastBins |-> tail.lastBins, lastLine |-> line, lastStart |-> start, width |-> v]
  BY DEF Summary
<1> HIDE DEF old, tail, whole, bins, kept
<1>13. Merged(old, tail) = whole BY <1>7, <1>8, <1>9, <1>11, <1>12
<1> QED BY <1>13 DEF old, tail, whole, v

-----------------------------------------------------------------------------
(* The merge of a tail.                                                    *)

\* A line reads as bytes.
LEMMA LineRead ==
    ASSUME NEW i, NEW file \in Seq(Bytes), IndexIs(i, file), NEW k \in 0 .. i.count - 1
    PROVE  SubSeq(file, LineRange(i, file, k).from + 1, LineRange(i, file, k).to) \in Seq(Bytes)
<1> DEFINE T == Table(i.kind, file, i.base)
           s == LineStart(i, file, k)
           e == RawEnd(i, file, s)
           to == TextEnd(i, file, s, e)
           r == LineRange(i, file, k)
<1>1. s \in T /\ Rank(T, s) = k BY LinesAre
<1>2. e \in s .. Len(file) /\ to \in s .. e /\ s \in Nat /\ r = [from |-> s, to |-> to]
  <2> HIDE DEF s
  <2> QED BY <1>1, LineIs
<1>3. r.from = s /\ r.to = to
  <2> HIDE DEF r, s, to
  <2> QED BY <1>2
<1> HIDE DEF s, e, to, r, T
<1> DEFINE a == s + 1
<1>4. a \in 1 .. Len(file) + 1 /\ to \in a - 1 .. Len(file) BY <1>2
<1> HIDE DEF a
<1>5. SubSeq(file, a, to) \in Seq(Bytes) BY <1>4, SubSeqProperties
<1> QED BY <1>3, <1>5 DEF a, r

\* What analyze_rules finds, and the same after the file has grown.
LEMMA AnalyzedIs ==
    ASSUME NEW q, NEW found, \A raw \in Seq(Bytes) : found[raw] = LineHits(q, raw),
           SearchIInv, NEW first \in Nat, NEW u
    PROVE  Analyzed(q, first, u)
              = Summary(Between(found, idx, buf, first, idx.count),
                        IF first < idx.count THEN HitsOf(found, idx, buf, idx.count - 1) ELSE {},
                        LastOf0(idx), LastStart(idx, buf), u)
<1> DEFINE i == idx
           file == buf
           at(k) == Of(LAMBDA r : Shift(LineHits(q, Raw(r)), r.from), LineRange(idx, buf, k))
           last == IF first < idx.count THEN at(idx.count - 1) ELSE {}
           all == UNION {at(k) : k \in first .. idx.count - 1}
           hits == Between(found, i, file, first, i.count)
           tail == IF first < i.count THEN HitsOf(found, i, file, i.count - 1) ELSE {}
<1>1. i.count \in Nat /\ file \in Seq(Bytes) BY FS_CardinalityType, LinesAre DEF SearchIInv
<1>2. ASSUME NEW k \in 0 .. i.count - 1 PROVE at(k) = HitsOf(found, i, file, k)
  <2> DEFINE r == LineRange(i, file, k)
             raw == SubSeq(file, r.from + 1, r.to)
             x == Shift(LineHits(q, raw), r.from)
  <2>1. at(k) = x
    <3>1. at(k) = CHOOSE y \in {Shift(LineHits(q, Raw(v)), v.from) : v \in {LineRange(idx, buf, k)}} : TRUE
      BY DEF Of
    <3>2. {Shift(LineHits(q, Raw(v)), v.from) : v \in {LineRange(idx, buf, k)}} = {x} BY DEF Raw
    <3> HIDE DEF x, at
    <3> QED BY <3>1, <3>2, OnlyOne
  <2>2. raw \in Seq(Bytes)
    <3> HIDE DEF r
    <3> QED BY <1>1, LineRead DEF SearchIInv, r
  <2>3. HitsOf(found, i, file, k) = Shift(found[raw], r.from) BY DEF HitsOf
  <2> HIDE DEF raw, r, at
  <2> QED BY <2>1, <2>2, <2>3
<1>3. all = hits
  <2> HIDE DEF at
  <2> QED BY <1>1, <1>2 DEF Between
<1>4. last = tail
  <2> HIDE DEF at
  <2> QED BY <1>1, <1>2
<1> DEFINE summary(a, t) ==
       [count |-> Cardinality(a), hits |-> FirstHits(a, MaxHits), bins |-> Histogram(a, u),
        lastCount |-> Cardinality(t), lastBins |-> Histogram(t, u),
        lastLine |-> IF idx.count = 0 THEN 0 ELSE idx.count - 1,
        lastStart |-> IF idx.count = 0 THEN idx.base ELSE LineStart(idx, buf, idx.count - 1),
        width |-> u]
<1>5. Analyzed(q, first, u) = Of(LAMBDA a : Of(LAMBDA t : summary(a, t), last), all)
  BY DEF Analyzed
<1>6. \A a : Of(LAMBDA t : summary(a, t), last) = summary(a, last)
  <2> TAKE a
  <2>1. Of(LAMBDA t : summary(a, t), last) = CHOOSE y \in {summary(a, t) : t \in {last}} : TRUE
    BY DEF Of
  <2>2. {summary(a, t) : t \in {last}} = {summary(a, last)}
    <3> HIDE DEF summary, last
    <3> QED OBVIOUS
  <2> HIDE DEF summary, last
  <2> QED BY <2>1, <2>2, OnlyOne
<1>7. Of(LAMBDA a : Of(LAMBDA t : summary(a, t), last), all) = summary(all, last)
  <2> DEFINE sub(a) == Of(LAMBDA t : summary(a, t), last)
  <2>1. Of(LAMBDA a : Of(LAMBDA t : summary(a, t), last), all) = CHOOSE y \in {sub(a) : a \in {all}} : TRUE
    BY DEF Of
  <2>3. sub(all) = summary(all, last)
    <3> HIDE DEF summary, last, all
    <3> QED BY <1>6
  <2> HIDE DEF sub
  <2>2. {sub(a) : a \in {all}} = {sub(all)}
    <3> HIDE DEF all
    <3> QED OBVIOUS
  <2> HIDE DEF all, summary, last
  <2> QED BY <2>1, <2>2, <2>3, OnlyOne
<1>8. summary(hits, tail) = Summary(hits, tail, LastOf0(idx), LastStart(idx, buf), u)
  <2> HIDE DEF hits, tail
  <2> QED BY DEF Summary, LastOf0, LastStart
<1> HIDE DEF summary, all, last, at
<1> QED BY <1>3, <1>4, <1>5, <1>7, <1>8

LEMMA AnalyzedNext ==
    ASSUME NEW q, NEW found, \A raw \in Seq(Bytes) : found[raw] = LineHits(q, raw), enc' = enc,
           NEW i, NEW file \in Seq(Bytes), IndexIs(i, file), idx' = i, buf' = file,
           NEW first \in Nat, NEW w
    PROVE  Analyzed(q, first, Expanded(w, Len(buf)))'
              = Summary(Between(found, i, file, first, i.count),
                        IF first < i.count THEN HitsOf(found, i, file, i.count - 1) ELSE {},
                        LastOf0(i), LastStart(i, file), Expanded(w, Len(file)))
<1> DEFINE u == Expanded(w, Len(file))
           at(k) == Of(LAMBDA r : Shift(LineHits(q, Raw(r)), r.from), LineRange(idx, buf, k))
           last == IF first < idx.count THEN at(idx.count - 1) ELSE {}
           all == UNION {at(k) : k \in first .. idx.count - 1}
           hits == Between(found, i, file, first, i.count)
           tail == IF first < i.count THEN HitsOf(found, i, file, i.count - 1) ELSE {}
<1>1. i.count \in Nat /\ file \in Seq(Bytes) BY FS_CardinalityType, LinesAre
<1>2. ASSUME NEW v
      PROVE  Shift(LineHits(q, Raw(v)), v.from)' = Shift(LineHits(q, SubSeq(file, v.from + 1, v.to)), v.from)
  <2> DEFINE n == Len(NeedleBytes(q))
             hitsIn(raw) ==
                IF MatchPlan(q) = "decode" THEN DecodedHits(q, raw)
                ELSE {[at |-> p, len |-> n] :
                       p \in {y \in FindIter(Folded(q, raw), Folded(q, NeedleBytes(q))) : Accepts(q, raw, y, n)}}
             line == SubSeq(file, v.from + 1, v.to)
  <2>1. LineHits(q, Raw(v))' = CHOOSE y \in {hitsIn(raw)' : raw \in {Raw(v)'}} : TRUE BY DEF LineHits, Of
  <2>2. LineHits(q, line)' = CHOOSE y \in {hitsIn(raw)' : raw \in {line}} : TRUE BY DEF LineHits, Of
  <2>3. Raw(v)' = line BY DEF Raw
  <2> HIDE DEF hitsIn, line
  <2>4. LineHits(q, Raw(v))' = LineHits(q, line)' BY <2>1, <2>2, <2>3
  <2>5. LineHits(q, line)' = LineHits(q, line) BY SameHits
  <2>6. Shift(LineHits(q, Raw(v)), v.from)' = Shift(LineHits(q, Raw(v))', v.from) BY DEF Shift
  <2> QED BY <2>4, <2>5, <2>6 DEF line
<1>3. ASSUME NEW k \in 0 .. i.count - 1 PROVE at(k)' = HitsOf(found, i, file, k)
  <2> DEFINE r == LineRange(i, file, k)
             raw == SubSeq(file, r.from + 1, r.to)
             x == Shift(LineHits(q, raw), r.from)
  <2> DEFINE part(v) == Shift(LineHits(q, Raw(v)), v.from)
  <2>1. at(k)' = x
    <3>1. at(k)' = CHOOSE y \in {part(v)' : v \in {r}} : TRUE BY DEF Of
    <3>2. part(r)' = x BY <1>2
    <3> HIDE DEF part, r, x, at
    <3>3. {part(v)' : v \in {r}} = {x} BY <3>2
    <3> QED BY <3>1, <3>3, OnlyOne
  <2>2. raw \in Seq(Bytes)
    <3> HIDE DEF r
    <3> QED BY <1>1, LineRead DEF r
  <2>3. HitsOf(found, i, file, k) = Shift(found[raw], r.from) BY DEF HitsOf
  <2> HIDE DEF part, raw, r, at
  <2> QED BY <2>1, <2>2, <2>3
<1>4. all' = hits
  <2> HIDE DEF at
  <2> QED BY <1>1, <1>3 DEF Between
<1>5. last' = tail
  <2> HIDE DEF at
  <2> QED BY <1>1, <1>3
<1> DEFINE v == Expanded(w, Len(buf))
           summary(a, t) ==
       [count |-> Cardinality(a), hits |-> FirstHits(a, MaxHits), bins |-> Histogram(a, v),
        lastCount |-> Cardinality(t), lastBins |-> Histogram(t, v),
        lastLine |-> IF idx.count = 0 THEN 0 ELSE idx.count - 1,
        lastStart |-> IF idx.count = 0 THEN idx.base ELSE LineStart(idx, buf, idx.count - 1),
        width |-> v]
           sub(a) == Of(LAMBDA t : summary(a, t), last)
<1>6. Analyzed(q, first, v)' = CHOOSE y \in {sub(a)' : a \in {hits}} : TRUE
  <2>1. Analyzed(q, first, v)' = CHOOSE y \in {sub(a)' : a \in {all'}} : TRUE BY DEF Analyzed, Of
  <2> HIDE DEF sub, all, hits
  <2> QED BY <1>4, <2>1
<1>7. sub(hits)' = summary(hits, tail)'
  <2>1. sub(hits)' = CHOOSE y \in {summary(hits, t)' : t \in {tail}} : TRUE
    <3>1. sub(hits)' = CHOOSE y \in {summary(hits, t)' : t \in {last'}} : TRUE
      <4> HIDE DEF summary, last
      <4> QED BY DEF Of
    <3> HIDE DEF summary, last, tail
    <3> QED BY <1>5, <3>1
  <2> HIDE DEF summary, tail, hits
  <2>2. {summary(hits, t)' : t \in {tail}} = {summary(hits, tail)'} OBVIOUS
  <2> QED BY <2>1, <2>2, OnlyOne
<1>8. Analyzed(q, first, v)' = summary(hits, tail)'
  <2> HIDE DEF sub, summary, hits, tail
  <2>1. {sub(a)' : a \in {hits}} = {sub(hits)'} OBVIOUS
  <2> QED BY <1>6, <1>7, <2>1, OnlyOne
<1>9. summary(hits, tail)' = Summary(hits, tail, LastOf0(i), LastStart(i, file), u)
  <2> HIDE DEF hits, tail
  <2> QED BY DEF Summary, LastOf0, LastStart
<1> HIDE DEF summary, v
<1> QED BY <1>8, <1>9 DEF v

\* When the file grows, a merged analysis is that of the grown file: the hits
\* K of the lines before the last one stay, those of the last line T go, and
\* the tail's N come.
LEMMA MergesStep ==
    ASSUME SearchIInv, SearchIInv', MergesExact, Grow, NEW q \in Ours
    PROVE  done'[q] = Whole(q)'
<1>1. PICK bytes \in Growths[enc], old \in {done} :
         /\ buf' = buf \o bytes /\ enc' = enc /\ idx' = Extended(idx, buf')
         /\ done' = [p \in Ours |->
               Merged(old[p], Analyzed(p, old[p].lastLine, Expanded(old[p].width, Len(buf)))')]
  BY DEF Grow
<1>2. buf \in Seq(Bytes) /\ bytes \in Seq(Bytes) /\ q \in Queries
  <2>1. Growths[enc] \subseteq Seq(Bytes) BY GrowthsAssumption DEF Bytes, SearchIInv
  <2> QED BY <1>1, <2>1 DEF SearchIInv, Ours
<1>a. PICK i : i = idx OBVIOUS
<1>b. PICK file : file = buf OBVIOUS
<1>c. PICK more : more = file \o bytes OBVIOUS
<1>d. PICK j : j = Extended(i, more) OBVIOUS
<1>3. /\ IndexIs(i, file) /\ i.base = 0 /\ IndexIs(j, more) /\ j.kind = i.kind /\ j.base = i.base
  <2>1. i.base <= Len(file) BY <1>2, <1>a, <1>b DEF SearchIInv
  <2> QED BY <1>2, <2>1, <1>a, <1>b, <1>c, <1>d, ExtendedIs DEF SearchIInv
<1>4. file \in Seq(Bytes) /\ more \in Seq(Bytes) BY <1>2, <1>b, <1>c
<1>5. idx' = j /\ buf' = more BY <1>1, <1>a, <1>b, <1>c, <1>d
<1>6. PICK found : \A raw \in Seq(Bytes) : found[raw] = LineHits(q, raw)
  <2>1. \A raw \in Seq(Bytes) : [x \in Seq(Bytes) |-> LineHits(q, x)][raw] = LineHits(q, raw) OBVIOUS
  <2> QED BY <2>1
<1>7. Finds(found) BY <1>2, <1>6, LineHitsAre DEF Finds
<1> DEFINE last == LastOf0(i)
           at == LastStart(i, file)
           K == Between(found, i, file, 0, last)
           T == IF 0 < i.count THEN HitsOf(found, i, file, i.count - 1) ELSE {}
           N == Between(found, j, more, last, j.count)
           M == IF last < j.count THEN HitsOf(found, j, more, j.count - 1) ELSE {}
           w == Expanded(1, Len(file))
           v == Expanded(w, Len(more))
           line == LastOf0(j)
           start == LastStart(j, more)
<1>8. /\ last \in Nat /\ last <= i.count /\ i.count \in Nat /\ j.count \in Nat /\ i.count <= j.count
      /\ last < j.count => LineStart(j, more, last) = at
      /\ Between(found, j, more, 0, last) = K
  <2>1. /\ file \in Seq(Bytes) /\ bytes \in Seq(Bytes) /\ IndexIs(i, file) /\ i.base = 0
        /\ IndexIs(j, file \o bytes) /\ j.kind = i.kind /\ j.base = i.base
    BY <1>2, <1>3, <1>4, <1>c
  <2>2. /\ LastOf0(i) \in Nat /\ LastOf0(i) <= i.count
        /\ i.count \in Nat /\ j.count \in Nat /\ i.count <= j.count
        /\ LastOf0(i) < j.count => LineStart(j, file \o bytes, LastOf0(i)) = LastStart(i, file)
        /\ Between(found, j, file \o bytes, 0, LastOf0(i)) = Between(found, i, file, 0, LastOf0(i))
    BY ONLY <2>1, LinesGrow
  <2> QED BY <2>2, <1>c
<1>9. done[q] = Summary(Between(found, i, file, 0, i.count), T, last, at, w)
  <2> DEFINE zero == 0
  <2>1. zero \in Nat /\ done[q] = Analyzed(q, zero, w) BY <1>b DEF MergesExact, Whole
  <2> HIDE DEF zero, w, last, at
  <2>2. Analyzed(q, zero, w) =
          Summary(Between(found, idx, buf, zero, idx.count),
                  IF zero < idx.count THEN HitsOf(found, idx, buf, idx.count - 1) ELSE {}, LastOf0(idx), LastStart(idx, buf), w)
    BY <1>6, <2>1, AnalyzedIs
  <2> QED BY <1>a, <1>b, <2>1, <2>2 DEF zero, last, at
<1>10. old[q].lastLine = last /\ old[q].width = w
  <2>1. old = done BY <1>1
  <2> HIDE DEF last, at, w
  <2> QED BY <1>9, <2>1 DEF Summary
<1> DEFINE first == old[q].lastLine
           u == old[q].width
<1>11. done'[q] = Merged(old[q], Analyzed(q, first, Expanded(u, Len(buf)))') BY <1>1
<1>12. Analyzed(q, first, Expanded(u, Len(buf)))' = Summary(N, M, line, start, v)
  <2>1. IndexIs(j, more) /\ idx' = j /\ buf' = more /\ enc' = enc BY <1>1, <1>3, <1>5
  <2>2. first \in Nat BY <1>8, <1>10
  <2> HIDE DEF last, w, first, u
  <2>3. Analyzed(q, first, Expanded(u, Len(buf)))' =
          Summary(Between(found, j, more, first, j.count),
                  IF first < j.count THEN HitsOf(found, j, more, j.count - 1) ELSE {}, LastOf0(j), LastStart(j, more),
                  Expanded(u, Len(more)))
    BY <1>4, <1>6, <2>1, <2>2, AnalyzedNext
  <2>4. first = last /\ u = w BY <1>10 DEF first, u
  <2> QED BY <2>3, <2>4
<1>13. Whole(q)' = Summary(Between(found, j, more, 0, j.count),
                     IF 0 < j.count THEN HitsOf(found, j, more, j.count - 1) ELSE {}, line, start,
                     Expanded(1, Len(more)))
  <2> DEFINE zero == 0
             one == 1
  <2>1. IndexIs(j, more) /\ idx' = j /\ buf' = more /\ enc' = enc BY <1>1, <1>3, <1>5
  <2>2. zero \in Nat /\ Whole(q)' = Analyzed(q, zero, Expanded(one, Len(buf)))' BY DEF Whole
  <2> HIDE DEF zero, one
  <2>3. Analyzed(q, zero, Expanded(one, Len(buf)))' =
          Summary(Between(found, j, more, zero, j.count),
                  IF zero < j.count THEN HitsOf(found, j, more, j.count - 1) ELSE {}, LastOf0(j), LastStart(j, more),
                  Expanded(one, Len(more)))
    BY <1>4, <1>6, <2>1, <2>2, AnalyzedNext
  <2> QED BY <2>2, <2>3 DEF zero, one
<1> DEFINE ic == i.count
           jc == j.count
           zero == 0
<1>14. Between(found, i, file, zero, ic) = K \cup T
  <2>1. CASE ic = 0
    <3>1. last = 0 BY <2>1 DEF LastOf0
    <3> QED BY <2>1, <3>1 DEF Between
  <2>2. CASE ic # 0
    <3>1. last = ic - 1 /\ 0 < ic /\ last \in Nat BY <1>8, <2>2 DEF LastOf0
    <3> HIDE DEF last
    <3>2. 0 .. ic - 1 = (0 .. last - 1) \cup {last} BY <1>8, <3>1
    <3>3. T = HitsOf(found, i, file, last) BY <3>1
    <3> QED BY <3>2, <3>3 DEF Between
  <2> QED BY <2>1, <2>2
<1>15. Between(found, j, more, zero, jc) = K \cup N
  <2> HIDE DEF last
  <2>1. 0 .. jc - 1 = (0 .. last - 1) \cup (last .. jc - 1) BY <1>8
  <2>2. Between(found, j, more, 0, jc) = Between(found, j, more, 0, last) \cup N
    BY <2>1 DEF Between
  <2> QED BY <1>8, <2>2
<1>16. (zero < jc) <=> (last < jc) BY <1>8 DEF LastOf0
<1>17. at \in Int /\ (ic # 0 => at = LineStart(i, file, last) /\ at \in Nat)
  <2>1. CASE ic = 0 BY <1>3, <2>1 DEF LastStart
  <2>2. CASE ic # 0
    <3> DEFINE k == ic - 1
    <3>1. at = LineStart(i, file, k) /\ last = k /\ k \in 0 .. ic - 1 BY <1>8, <2>2 DEF LastStart, LastOf0
    <3> HIDE DEF k, last, at
    <3>2. LineStart(i, file, k) \in Nat BY <1>3, <1>4, <1>7, <3>1, HitsOfIs
    <3> QED BY <3>1, <3>2
  <2> QED BY <2>1, <2>2
<1>18. Apart(K) /\ IsFiniteSet(K) /\ Within(K, zero, Len(file)) /\ Under(K, at)
  <2>1. zero \in Nat /\ last \in Nat /\ last <= i.count /\ K = Between(found, i, file, zero, last) BY <1>8
  <2> HIDE DEF zero, last, at, K
  <2>2. /\ Apart(K) /\ IsFiniteSet(K) /\ Within(K, 0, Len(file))
        /\ last < i.count => Within(K, 0, LineStart(i, file, last))
    BY <1>3, <1>4, <1>7, <2>1, BetweenIs
  <2>3. Under(K, at)
    <3>1. CASE ic = 0
      <4>1. last = 0 BY <3>1 DEF LastOf0, last
      <4> QED BY <2>1, <4>1 DEF Between, Under, zero
    <3>2. CASE ic # 0
      <4>1. last < i.count BY <1>8, <3>2 DEF LastOf0, last
      <4> QED BY <1>17, <2>2, <3>2, <4>1 DEF Within, Under
    <3> QED BY <3>1, <3>2
  <2> QED BY <2>2, <2>3 DEF zero
<1>19. IsFiniteSet(T) /\ Within(T, at, Len(file)) /\ (ic = 0 => T = {}) /\ at \in Int
  <2>1. CASE ic = 0
    <3>1. T = {} BY <2>1
    <3> HIDE DEF T, at
    <3> QED BY <3>1, <1>17, FS_EmptySet DEF Within
  <2>2. CASE ic # 0
    <3> DEFINE k == ic - 1
    <3>1. T = HitsOf(found, i, file, k) /\ k \in 0 .. i.count - 1 /\ at = LineStart(i, file, k)
      BY <1>8, <2>2 DEF LastStart
    <3> HIDE DEF k, at, T
    <3>2. Apart(T) /\ Within(T, at, Len(file)) BY <1>3, <1>4, <1>7, <3>1, HitsOfIs
    <3>3. Len(file) \in Int BY <1>4
    <3> QED BY <1>17, <2>2, <3>2, <3>3, ApartFinite
  <2> QED BY <2>1, <2>2
<1>20. IsFiniteSet(N) /\ Within(N, zero, Len(more)) /\ Above(N, at)
  <2>1. jc \in Nat /\ jc <= j.count /\ last \in Nat /\ N = Between(found, j, more, last, jc) BY <1>8
  <2> HIDE DEF zero, last, at, N, jc
  <2>2. /\ IsFiniteSet(N) /\ Within(N, 0, Len(more))
        /\ last < j.count => Within(N, LineStart(j, more, last), Len(more))
    BY <1>3, <1>4, <1>7, <2>1, BetweenIs
  <2>3. Above(N, at)
    <3>1. CASE last < j.count BY <1>8, <2>2, <3>1 DEF Within, Above
    <3>2. CASE ~(last < j.count)
      <4>1. last .. jc - 1 = {} BY <2>1, <3>2, <1>8 DEF jc
      <4> QED BY <2>1, <4>1 DEF Between, Above
    <3> QED BY <3>1, <3>2
  <2> QED BY <2>2, <2>3 DEF zero
<1>21. /\ w \in Nat \ {0} /\ Len(file) <= w * Bins /\ v = Expanded(1, Len(more))
       /\ \E r \in Nat \ {0} : v = w * r
  <2> DEFINE a == Len(file)
             b == Len(more)
             one == 1
  <2>1. a \in Nat /\ b \in Nat /\ a <= b /\ b <= b /\ one \in Nat \ {0}
    BY <1>2, <1>4, <1>b, <1>c, ConcatProperties
  <2>2. w = Expanded(one, a) /\ v = Expanded(w, b) OBVIOUS
  <2> HIDE DEF a, b, one, w, v
  <2>6. /\ a <= Expanded(one, a) * Bins
        /\ \E r \in Nat \ {0} : Expanded(one, a) = one * r
        /\ Expanded(Expanded(one, a), b) = Expanded(one, b)
    BY ONLY <2>1, Widens
  <2>3. a <= w * Bins /\ (\E r \in Nat \ {0} : w = one * r) /\ Expanded(w, b) = Expanded(one, b)
    BY <2>2, <2>6
  <2>4. w \in Nat \ {0} BY <2>3 DEF one
  <2>5. \E r \in Nat \ {0} : Expanded(w, b) = w * r BY <2>1, <2>4, Widens
  <2> QED BY <2>2, <2>3, <2>4, <2>5 DEF a, b, one
<1>22. PICK r \in Nat \ {0} : v = w * r BY <1>21
<1>23. Merged(Summary(K \cup T, T, last, at, w), Summary(N, M, line, start, w * r))
         = Summary(K \cup N, M, line, start, w * r)
  <2>1. /\ at \in Int /\ Under(K, at) /\ Above(T, at) /\ Above(N, at)
        /\ Numbered(K) /\ Numbered(T) /\ Numbered(N)
    <3> HIDE DEF K, T, N, at
    <3> QED BY <1>17, <1>18, <1>19, <1>20 DEF Within, Above, Numbered
  <2>2. InBins(K \cup T, w * Bins)
    <3>1. Len(file) \in Nat /\ Bins \in Nat BY <1>4, BinsAssumption
    <3> HIDE DEF K, T, at, w
    <3> DEFINE limit == w * Bins
               n == Len(file)
    <3>2. limit \in Nat /\ n <= limit /\ n \in Nat BY <1>21, <3>1
    <3>3. Within(K, 0, n) /\ Within(T, at, n) /\ (ic = 0 => T = {}) /\ (ic # 0 => at \in Nat)
      BY <1>17, <1>18, <1>19
    <3> HIDE DEF limit, n, ic
    <3> QED BY <3>2, <3>3 DEF Within, InBins, limit
  <2> HIDE DEF K, T, N, M, at, w, last, line, start
  <2>3. /\ IsFiniteSet(K) /\ IsFiniteSet(T) /\ IsFiniteSet(N) /\ Apart(K)
        /\ w \in Nat \ {0} /\ r \in Nat \ {0}
    BY <1>18, <1>19, <1>20, <1>21, <1>22
  <2> QED BY ONLY <2>1, <2>2, <2>3, MergeIs
<1>24. done'[q] = Merged(Summary(K \cup T, T, last, at, w), Summary(N, M, line, start, w * r))
  <2>1. old[q] = done[q] BY <1>1
  <2> HIDE DEF K, T, N, M, at, w, last, line, start, first, u, v
  <2> QED BY <1>9, <1>11, <1>12, <1>14, <1>22, <2>1 DEF zero
<1>25. Whole(q)' = Summary(K \cup N, M, line, start, w * r)
  <2>1. M = IF zero < jc THEN HitsOf(found, j, more, j.count - 1) ELSE {} BY <1>16
  <2> HIDE DEF K, N, M, w, line, start, v
  <2> QED BY <1>13, <1>15, <1>21, <1>22, <2>1
<1> QED BY <1>23, <1>24, <1>25

\* An analysis that a growing file carries along by merging, the tail's into
\* the old one, is that of the file as it is now: its hits, counts and bins.
THEOREM MergedIsWhole == SearchSpec => []MergesExact
<1>1. SearchInit => MergesExact
  <2> SUFFICES ASSUME SearchInit PROVE MergesExact OBVIOUS
  <2>1. done = [q \in Ours |-> Whole(q)] BY DEF SearchInit
  <2> QED BY <2>1 DEF MergesExact
<1>2. SearchIInv /\ SearchIInv' /\ MergesExact /\ [SearchNext]_searchVars => MergesExact'
  <2> SUFFICES ASSUME SearchIInv, SearchIInv', MergesExact, [SearchNext]_searchVars PROVE MergesExact' OBVIOUS
  <2>1. CASE Grow
    <3>1. Ours' = Ours BY <2>1 DEF Grow, Ours
    <3>2. \A q \in Ours : done'[q] = Whole(q)' BY <2>1, MergesStep
    <3> QED BY <3>1, <3>2 DEF MergesExact
  <2>2. CASE UNCHANGED searchVars
    <3>1. enc' = enc /\ buf' = buf /\ idx' = idx /\ done' = done BY <2>2 DEF searchVars
    <3>2. Ours' = Ours BY <3>1 DEF Ours
    <3>3. ASSUME NEW q \in Ours PROVE Whole(q)' = Whole(q)
      <4> DEFINE zero == 0
                 one == 1
      <4>1. PICK i : i = idx OBVIOUS
      <4>2. PICK file : file = buf OBVIOUS
      <4>3. PICK found : \A raw \in Seq(Bytes) : found[raw] = LineHits(q, raw)
        <5>1. \A raw \in Seq(Bytes) : [x \in Seq(Bytes) |-> LineHits(q, x)][raw] = LineHits(q, raw) OBVIOUS
        <5> QED BY <5>1
      <4>4. /\ IndexIs(i, file) /\ file \in Seq(Bytes) /\ idx' = i /\ buf' = file /\ enc' = enc
            /\ zero \in Nat
        BY <3>1, <4>1, <4>2 DEF SearchIInv
      <4>5. Whole(q) = Analyzed(q, zero, Expanded(one, Len(buf))) BY DEF Whole
      <4>6. Whole(q)' = Analyzed(q, zero, Expanded(one, Len(buf)))' BY DEF Whole
      <4> HIDE DEF zero, one
      <4>7. Whole(q)' = Summary(Between(found, i, file, zero, i.count),
                          IF zero < i.count THEN HitsOf(found, i, file, i.count - 1) ELSE {},
                          LastOf0(i), LastStart(i, file), Expanded(one, Len(file)))
        BY <4>3, <4>4, <4>6, AnalyzedNext
      <4>8. Whole(q) = Summary(Between(found, idx, buf, zero, idx.count),
                         IF zero < idx.count THEN HitsOf(found, idx, buf, idx.count - 1) ELSE {},
                         LastOf0(idx), LastStart(idx, buf), Expanded(one, Len(buf)))
        BY <4>3, <4>4, <4>5, AnalyzedIs
      <4> QED BY <4>1, <4>2, <4>7, <4>8
    <3> QED BY <3>1, <3>2, <3>3 DEF MergesExact
  <2> QED BY <2>1, <2>2 DEF SearchNext
<1> QED BY <1>1, <1>2, SearchInitIInv, SearchStepIInv, PTL DEF SearchSpec

-----------------------------------------------------------------------------
(* Where a needle occurs.                                                  *)

Occurs(hay, needle) ==
    {i \in Nat : i + Len(needle) <= Len(hay) /\ SubSeq(hay, i + 1, i + Len(needle)) = needle}

\* No end of the needle is a beginning of it.
Lonely(needle) ==
    \A k \in 1 .. Len(needle) - 1 :
        SubSeq(needle, k + 1, Len(needle)) # SubSeq(needle, 1, Len(needle) - k)

\* Part of a sequence, byte for byte.
LEMMA PartIs ==
    ASSUME NEW s \in Seq(Bytes), NEW i \in Nat, NEW n \in Nat, i + n <= Len(s)
    PROVE  /\ SubSeq(s, i + 1, i + n) \in Seq(Bytes) /\ Len(SubSeq(s, i + 1, i + n)) = n
           /\ \A t \in 1 .. n : SubSeq(s, i + 1, i + n)[t] = s[i + t]
<1> DEFINE a == i + 1
           b == i + n
<1>1. a \in 1 .. Len(s) + 1 /\ b \in a - 1 .. Len(s) /\ b - a + 1 = n OBVIOUS
<1>2. \A t \in 1 .. n : a + t - 1 = i + t OBVIOUS
<1> HIDE DEF a, b
<1>3. /\ SubSeq(s, a, b) \in Seq(Bytes) /\ Len(SubSeq(s, a, b)) = b - a + 1
      /\ \A t \in 1 .. b - a + 1 : SubSeq(s, a, b)[t] = s[a + t - 1]
  BY <1>1, SubSeqProperties
<1> QED BY <1>1, <1>2, <1>3 DEF a, b

LEMMA OccursAt ==
    ASSUME NEW hay \in Seq(Bytes), NEW needle \in Seq(Bytes), NEW i \in Nat
    PROVE  i \in Occurs(hay, needle) <=>
              /\ i + Len(needle) <= Len(hay)
              /\ \A t \in 1 .. Len(needle) : hay[i + t] = needle[t]
<1> DEFINE n == Len(needle)
           s == SubSeq(hay, i + 1, i + n)
<1>1. n \in Nat OBVIOUS
<1>2. ASSUME i + n <= Len(hay) PROVE s = needle <=> \A t \in 1 .. n : hay[i + t] = needle[t]
  <2>1. s \in Seq(Bytes) /\ Len(s) = n /\ \A t \in 1 .. n : s[t] = hay[i + t] BY <1>1, <1>2, PartIs
  <2>2. ASSUME \A t \in 1 .. n : hay[i + t] = needle[t] PROVE s = needle
    <3>1. \A t \in 1 .. n : s[t] = needle[t] BY <2>1, <2>2
    <3> HIDE DEF s
    <3> QED BY <2>1, <3>1, SeqEqual
  <2>3. ASSUME s = needle PROVE \A t \in 1 .. n : hay[i + t] = needle[t] BY <2>1, <2>3
  <2> QED BY <2>2, <2>3
<1> HIDE DEF s
<1> QED BY <1>2 DEF Occurs, s

\* Two occurrences of a lonely needle are apart.
LEMMA OccursApart ==
    ASSUME NEW hay \in Seq(Bytes), NEW needle \in Seq(Bytes), Lonely(needle),
           NEW i \in Occurs(hay, needle), NEW j \in Occurs(hay, needle), i < j
    PROVE  i + Len(needle) <= j
<1> DEFINE n == Len(needle)
           k == j - i
<1> SUFFICES ASSUME j < i + n PROVE FALSE BY DEF Occurs
<1>1. i \in Nat /\ j \in Nat /\ n \in Nat BY DEF Occurs
<1>2. k \in 1 .. n - 1 /\ k \in Nat BY <1>1
<1>3. /\ \A t \in 1 .. n : hay[i + t] = needle[t]
      /\ \A t \in 1 .. n : hay[j + t] = needle[t]
  BY <1>1, OccursAt
<1>4. \A t \in 1 .. n - k : t \in 1 .. n /\ k + t \in 1 .. n /\ i + (k + t) = j + t BY <1>1, <1>2
<1> DEFINE m == n - k
           zero == 0
           one == zero + 1
           x == SubSeq(needle, k + 1, k + m)
           y == SubSeq(needle, zero + 1, zero + m)
<1>5. m \in Nat /\ k + m = n /\ zero \in Nat /\ zero + m <= n /\ zero + m = n - k /\ \A t \in 1 .. m : zero + t = t
  BY <1>1, <1>2
<1>6. x = SubSeq(needle, k + 1, n) /\ y = SubSeq(needle, 1, n - k)
  <2>1. k + m = n /\ zero + 1 = 1 /\ zero + m = n - k BY <1>5
  <2> HIDE DEF k, m, n
  <2> QED BY <2>1
<1> HIDE DEF k, m, zero, n
<1>7. /\ x \in Seq(Bytes) /\ Len(x) = m /\ \A t \in 1 .. m : x[t] = needle[k + t]
      /\ y \in Seq(Bytes) /\ Len(y) = m /\ \A t \in 1 .. m : y[t] = needle[zero + t]
  <2>1. k + m <= Len(needle) /\ zero + m <= Len(needle) BY <1>1, <1>5 DEF n
  <2> QED BY <1>2, <1>5, <2>1, PartIs
<1>8. \A t \in 1 .. m : needle[k + t] = needle[t] BY <1>3, <1>4 DEF m
<1> HIDE DEF x, y
<1>9. x = y
  <2>1. \A t \in 1 .. m : x[t] = y[t] BY <1>5, <1>7, <1>8
  <2> QED BY <1>7, <2>1, SeqEqual
<1> QED BY <1>2, <1>6, <1>9 DEF Lonely, n

\* find_iter and rfind_iter find a lonely needle wherever it is.
LEMMA FindsAll ==
    ASSUME NEW hay \in Seq(Bytes), NEW needle \in Seq(Bytes), Len(needle) >= 1, Lonely(needle)
    PROVE  FindIter(hay, needle) = Occurs(hay, needle)
<1> DEFINE n == Len(needle)
           N == Len(hay)
           zero == 0
           M == N + n
           O == Occurs(hay, needle)
           at(i) == i + n <= Len(hay) /\ SubSeq(hay, i + 1, i + n) = needle
           R(g, i) == IF i + n > Len(hay) THEN {} ELSE IF at(i) THEN {i} \cup g[i + n] ELSE g[i + 1]
           Runs(g) == g = [i \in 0 .. Len(hay) + n |-> R(g, i)]
           f == CHOOSE g : Runs(g)
           From(i) == {j \in O : j >= i}
           w == [i \in 0 .. M |-> From(i)]
<1>1. N \in Nat /\ M \in Nat /\ zero \in Nat /\ zero = 0 /\ M = N + n /\ n \in Nat /\ n >= 1 OBVIOUS
<1>2. FindIter(hay, needle) = f[0] BY OnlyOne DEF FindIter, Of, ScanLeft
<1>3. O \subseteq Nat /\ \A i \in Nat : i \in O <=> at(i) BY DEF Occurs
<1>3a. \A i \in O : i + n <= N BY DEF Occurs
<1>4. \A i, j \in O : i < j => i + n <= j BY OccursApart
<1> HIDE DEF at, O
<1>5. ASSUME NEW i \in zero .. M
      PROVE  /\ i + n > N => From(i) = {}
             /\ ~(i + n > N) => /\ i + n \in i + 1 .. M /\ i + 1 \in i + 1 .. M
                                /\ From(i) = IF at(i) THEN {i} \cup From(i + n) ELSE From(i + 1)
  <2>0. i \in Nat BY <1>1
  <2>1. ASSUME i + n > N PROVE From(i) = {}
    <3>1. \A j \in O : ~(j >= i)
      <4> TAKE j \in O
      <4>1. j \in Nat /\ j + n <= N BY <1>3, <1>3a
      <4> HIDE DEF N, n
      <4> QED BY <1>1, <2>0, <2>1, <4>1
    <3> QED BY <3>1
  <2>2. ASSUME ~(i + n > N) PROVE i + n \in i + 1 .. M /\ i + 1 \in i + 1 .. M
    <3> HIDE DEF N, n, M
    <3> QED BY <1>1, <2>0, <2>2
  <2>3. ASSUME at(i) PROVE From(i) = {i} \cup From(i + n)
    <3>1. i \in O BY <1>3, <2>0, <2>3
    <3>2. \A j \in O : j >= i <=> j = i \/ j >= i + n
      <4> TAKE j \in O
      <4>1. j \in Nat /\ (i < j => i + n <= j) BY <1>3, <1>4, <3>1
      <4> HIDE DEF n
      <4> QED BY <1>1, <2>0, <4>1
    <3> HIDE DEF n
    <3> QED BY <3>1, <3>2
  <2>4. ASSUME ~at(i) PROVE From(i) = From(i + 1)
    <3>1. i \notin O BY <1>3, <2>0, <2>4
    <3>2. \A j \in O : j >= i <=> j >= i + 1
      <4> TAKE j \in O
      <4>1. j \in Nat /\ j # i BY <1>3, <3>1
      <4> QED BY <2>0, <4>1
    <3> QED BY <3>2
  <2> HIDE DEF From, N, n, M
  <2> QED BY <2>1, <2>2, <2>3, <2>4
<1> HIDE DEF R, From
<1>6. Runs(f)
  <2>1. \A i \in 0 .. M : w[i] = R(w, i)
    <3> TAKE i \in 0 .. M
    <3>1. \A j \in 0 .. M : w[j] = From(j) OBVIOUS
    <3>2. \A j \in i + 1 .. M : j \in 0 .. M BY <1>1
    <3> HIDE DEF w, N, M, n
    <3>3. i \in zero .. M BY <1>1
    <3>4. CASE i + n > N
      <4>1. i + n > Len(hay) BY <3>4 DEF N
      <4> QED BY <1>5, <3>1, <3>3, <3>4, <4>1 DEF R
    <3>5. CASE ~(i + n > N)
      <4>1. ~(i + n > Len(hay)) BY <3>5 DEF N
      <4>2. i + n \in 0 .. M /\ i + 1 \in 0 .. M BY <1>5, <3>2, <3>3, <3>5
      <4>3. w[i + n] = From(i + n) /\ w[i + 1] = From(i + 1) BY <3>1, <4>2
      <4>4. w[i] = IF at(i) THEN {i} \cup From(i + n) ELSE From(i + 1) BY <1>5, <3>1, <3>3, <3>5
      <4> QED BY <4>1, <4>3, <4>4 DEF R, n
    <3> QED BY <3>4, <3>5
  <2>2. w = [i \in 0 .. M |-> w[i]] OBVIOUS
  <2> HIDE DEF w
  <2>3. Runs(w) BY <2>1, <2>2
  <2> QED BY <2>3
<1> HIDE DEF f
<1>7. \A i \in zero .. M : f[i] = R(f, i) BY <1>6
<1> DEFINE Q == {i \in zero .. M : f[i] = From(i)}
<1>8. \A i \in zero .. M : (\A t \in i + 1 .. M : t \in Q) => i \in Q
  <2> TAKE i \in zero .. M
  <2>0. SUFFICES ASSUME \A t \in i + 1 .. M : f[t] = From(t) PROVE f[i] = From(i) OBVIOUS
  <2>1. f[i] = R(f, i) BY <1>7
  <2> HIDE DEF N, M, n
  <2>2. CASE i + n > N
    <3>1. R(f, i) = {} BY <2>2 DEF R, N, n
    <3> QED BY <1>5, <2>1, <2>2, <3>1
  <2>3. CASE ~(i + n > N)
    <3>1. R(f, i) = IF at(i) THEN {i} \cup f[i + n] ELSE f[i + 1] BY <2>3 DEF R, N, n
    <3>2. f[i + n] = From(i + n) /\ f[i + 1] = From(i + 1) BY <1>5, <2>0, <2>3
    <3> QED BY <1>5, <2>1, <2>3, <3>1, <3>2
  <2> QED BY <2>2, <2>3
<1>9. \A i \in zero .. M : i \in Q
  <2> HIDE DEF Q, M, zero
  <2> QED BY <1>1, <1>8, ComeDown
<1>10. f[zero] = From(zero)
  <2>1. zero \in zero .. M BY <1>1
  <2> HIDE DEF M
  <2> QED BY <1>9, <2>1
<1>11. From(0) = O
  <2>1. \A j \in O : j >= 0 BY <1>3
  <2> QED BY <2>1 DEF From
<1> QED BY <1>2, <1>10, <1>11 DEF O, zero

LEMMA FindsAllBack ==
    ASSUME NEW hay \in Seq(Bytes), NEW needle \in Seq(Bytes), Len(needle) >= 1, Lonely(needle)
    PROVE  RFindIter(hay, needle) = Occurs(hay, needle)
<1> DEFINE n == Len(needle)
           N == Len(hay)
           D == (0 - n) .. N
           O == Occurs(hay, needle)
           at(e) == SubSeq(hay, e - n + 1, e) = needle
           R(g, e) == IF e < n THEN {} ELSE IF SubSeq(hay, e - n + 1, e) = needle THEN {e - n} \cup g[e - n] ELSE g[e - 1]
           Runs(g) == g = [e \in (0 - n) .. Len(hay) |-> R(g, e)]
           f == CHOOSE g : Runs(g)
           Upto(e) == {j \in O : j + n <= e}
           w == [e \in (0 - n) .. Len(hay) |-> Upto(e)]
<1>1. N \in Nat /\ n \in Nat /\ n >= 1 OBVIOUS
<1>2. RFindIter(hay, needle) = f[Len(hay)] BY OnlyOne DEF RFindIter, Of, ScanRight
<1>3. O \subseteq Nat /\ \A j \in O : j + n <= N BY DEF Occurs
<1>4. \A i, j \in O : i < j => i + n <= j BY OccursApart
<1>5. \A e \in n .. N : e - n \in O <=> at(e)
  <2> TAKE e \in n .. N
  <2> DEFINE i == e - n
  <2>1. i \in Nat /\ i + n = e /\ i + n <= N BY <1>1
  <2>2. i + 1 = e - n + 1 BY <1>1
  <2> HIDE DEF i
  <2>3. i \in O <=> SubSeq(hay, i + 1, i + n) = needle BY <2>1 DEF Occurs
  <2>4. SubSeq(hay, i + 1, i + n) = needle <=> at(e) BY <2>1, <2>2
  <2> QED BY <2>3, <2>4 DEF i
<1> HIDE DEF O
<1>6. ASSUME NEW e \in D
      PROVE  /\ e < n => Upto(e) = {}
             /\ ~(e < n) => /\ e \in n .. N /\ e - n \in D /\ e - 1 \in D
                           /\ Upto(e) = IF at(e) THEN {e - n} \cup Upto(e - n) ELSE Upto(e - 1)
  <2>0. e \in Int /\ 0 - n <= e /\ e <= N BY <1>1
  <2>1. ASSUME e < n PROVE Upto(e) = {}
    <3>1. \A j \in O : ~(j + n <= e)
      <4> TAKE j \in O
      <4>1. j \in Nat BY <1>3
      <4> HIDE DEF N, n
      <4> QED BY <1>1, <2>0, <2>1, <4>1
    <3> QED BY <3>1
  <2>2. ASSUME ~(e < n) PROVE e \in n .. N /\ e - n \in D /\ e - 1 \in D
    <3> HIDE DEF N, n
    <3> QED BY <1>1, <2>0, <2>2
  <2>3. ASSUME ~(e < n), at(e) PROVE Upto(e) = {e - n} \cup Upto(e - n)
    <3>1. e - n \in O BY <1>5, <2>2, <2>3
    <3>2. \A j \in O : j + n <= e <=> j = e - n \/ j + n <= e - n
      <4> TAKE j \in O
      <4>1. j \in Nat /\ (j < e - n => j + n <= e - n) BY <1>3, <1>4, <3>1
      <4> HIDE DEF n
      <4> QED BY <1>1, <2>0, <4>1
    <3> HIDE DEF n
    <3> QED BY <3>1, <3>2
  <2>4. ASSUME ~(e < n), ~at(e) PROVE Upto(e) = Upto(e - 1)
    <3>1. e - n \notin O BY <1>5, <2>2, <2>4
    <3>2. \A j \in O : j + n <= e <=> j + n <= e - 1
      <4> TAKE j \in O
      <4>1. j \in Nat /\ j # e - n BY <1>3, <3>1
      <4> HIDE DEF n
      <4> QED BY <1>1, <2>0, <4>1
    <3> QED BY <3>2
  <2> HIDE DEF Upto, N, n, at
  <2> QED BY <2>1, <2>2, <2>3, <2>4
<1> HIDE DEF R, Upto, at
<1>7. \A g : \A e : R(g, e) = IF e < n THEN {} ELSE IF at(e) THEN {e - n} \cup g[e - n] ELSE g[e - 1]
  BY DEF R, at
<1>8. D = (0 - n) .. Len(hay) OBVIOUS
<1>9. Runs(f)
  <2>1. \A e \in D : w[e] = R(w, e)
    <3> TAKE e \in D
    <3>1. \A d \in D : w[d] = Upto(d) OBVIOUS
    <3> HIDE DEF w, N, n, D
    <3>2. CASE e < n BY <1>6, <1>7, <3>1, <3>2
    <3>3. CASE ~(e < n)
      <4>1. e - n \in D /\ e - 1 \in D BY <1>6, <3>3
      <4>2. w[e - n] = Upto(e - n) /\ w[e - 1] = Upto(e - 1) BY <3>1, <4>1
      <4>3. w[e] = IF at(e) THEN {e - n} \cup Upto(e - n) ELSE Upto(e - 1) BY <1>6, <3>1, <3>3
      <4>4. R(w, e) = IF at(e) THEN {e - n} \cup w[e - n] ELSE w[e - 1] BY <1>7, <3>3
      <4> QED BY <4>2, <4>3, <4>4
    <3> QED BY <3>2, <3>3
  <2>2. w = [e \in D |-> w[e]] OBVIOUS
  <2> HIDE DEF w, D
  <2>3. w = [e \in D |-> R(w, e)] BY <2>1, <2>2
  <2>4. Runs(w) BY <1>8, <2>3
  <2> QED BY <2>4
<1> HIDE DEF f
<1>10. \A e \in D : f[e] = R(f, e) BY <1>9
<1> DEFINE B == {e \in n .. N : f[e] # Upto(e)}
<1>11. B = {}
  <2> SUFFICES ASSUME B # {} PROVE FALSE OBVIOUS
  <2>1. B \subseteq Nat BY <1>1
  <2>2. PICK e \in B : \A d \in B : e <= d
    <3> HIDE DEF B
    <3> QED BY <2>1, LeastOf
  <2>3. e \in n .. N /\ e \in D /\ ~(e < n) BY <1>1
  <2>4. \A d \in D : d < e => f[d] = Upto(d)
    <3> TAKE d \in D
    <3> HAVE d < e
    <3>1. CASE d < n
      <4> HIDE DEF D, n, f
      <4> QED BY <1>6, <1>7, <1>10, <3>1
    <3>2. CASE ~(d < n)
      <4>1. d \in n .. N BY <1>1, <3>2
      <4>2. d \notin B BY <1>1, <2>2, <2>3
      <4> QED BY <4>1, <4>2
    <3> QED BY <3>1, <3>2
  <2> DEFINE a == e - n
             b == e - 1
  <2>5. a \in D /\ b \in D /\ a < e /\ b < e
    <3>1. e - n \in D /\ e - 1 \in D BY <1>6, <2>3
    <3>2. e - n < e /\ e - 1 < e BY <1>1, <2>3
    <3> QED BY <3>1, <3>2
  <2>6. f[a] = Upto(a) /\ f[b] = Upto(b)
    <3> HIDE DEF a, b, D
    <3> QED BY <2>4, <2>5
  <2>7. R(f, e) = IF at(e) THEN {e - n} \cup f[a] ELSE f[b]
    <3>1. R(f, e) = IF at(e) THEN {e - n} \cup f[e - n] ELSE f[e - 1]
      <4> HIDE DEF n
      <4> QED BY <1>7, <2>3
    <3> QED BY <3>1
  <2>8. Upto(e) = IF at(e) THEN {e - n} \cup Upto(a) ELSE Upto(b) BY <1>6, <2>3
  <2>9. f[e] = R(f, e) BY <1>10, <2>3
  <2>10. f[e] # Upto(e) BY <2>2
  <2> QED BY ONLY <2>6, <2>7, <2>8, <2>9, <2>10
<1>12. f[N] = Upto(N)
  <2>1. CASE N < n
    <3>1. N \in D BY <1>1
    <3> HIDE DEF D, n, N
    <3> QED BY <1>6, <1>7, <1>10, <2>1, <3>1
  <2>2. CASE ~(N < n)
    <3>1. N \in n .. N BY <1>1, <2>2
    <3> QED BY <1>11, <3>1
  <2> QED BY <2>1, <2>2
<1>13. Upto(N) = O BY <1>3 DEF Upto
<1> QED BY <1>2, <1>12, <1>13 DEF O

-----------------------------------------------------------------------------
(* Folding keeps what is no letter.                                        *)

LEMMA FoldByteIs ==
    ASSUME NEW b \in Bytes
    PROVE  FoldByte(b) \in Bytes /\ \A c \in 0 .. 64 : FoldByte(b) = c <=> b = c
BY DEF FoldByte, Bytes

Shown(q, b) == IF q.fold THEN FoldByte(b) ELSE b

LEMMA ShownIs ==
    ASSUME NEW q, NEW b \in Bytes
    PROVE  Shown(q, b) \in Bytes /\ \A c \in 0 .. 64 : Shown(q, b) = c <=> b = c
<1>1. CASE q.fold BY <1>1, FoldByteIs DEF Shown
<1>2. CASE ~q.fold BY <1>2 DEF Shown
<1> QED BY <1>1, <1>2

LEMMA FoldedIs ==
    ASSUME NEW q, NEW s \in Seq(Bytes)
    PROVE  /\ Folded(q, s) \in Seq(Bytes) /\ Len(Folded(q, s)) = Len(s)
           /\ \A i \in 1 .. Len(s) : Folded(q, s)[i] = Shown(q, s[i])
<1> DEFINE n == Len(s)
           f == [i \in 1 .. n |-> FoldByte(s[i])]
<1>1. n \in Nat /\ DOMAIN s = 1 .. n /\ \A i \in 1 .. n : s[i] \in Bytes OBVIOUS
<1>2. CASE q.fold
  <2>1. Folded(q, s) = f BY <1>1, <1>2 DEF Folded
  <2>2. \A i \in 1 .. n : f[i] \in Bytes BY <1>1, FoldByteIs
  <2>3. f \in [1 .. n -> Bytes] BY <2>2
  <2>4. \A i \in 1 .. n : f[i] = Shown(q, s[i]) BY <1>2 DEF Shown
  <2> HIDE DEF f
  <2>5. f \in Seq(Bytes) /\ Len(f) = n BY <1>1, <2>3, SeqDef
  <2> QED BY <2>1, <2>4, <2>5
<1>3. CASE ~q.fold BY <1>3 DEF Folded, Shown
<1> QED BY <1>2, <1>3

\* m bytes from i on.
Piece(s, i, m) == SubSeq(s, i + 1, i + m)

LEMMA FoldedPart ==
    ASSUME NEW q, NEW s \in Seq(Bytes), NEW i \in Nat, NEW m \in Nat, i + m <= Len(s)
    PROVE  Folded(q, Piece(s, i, m)) = Piece(Folded(q, s), i, m)
<1> DEFINE x == SubSeq(s, i + 1, i + m)
           f == Folded(q, s)
           y == SubSeq(f, i + 1, i + m)
           g == Folded(q, x)
<1>1. x \in Seq(Bytes) /\ Len(x) = m /\ \A t \in 1 .. m : x[t] = s[i + t] BY PartIs
<1>2. f \in Seq(Bytes) /\ Len(f) = Len(s) /\ \A j \in 1 .. Len(s) : f[j] = Shown(q, s[j]) BY FoldedIs
<1> HIDE DEF f, x
<1>3. y \in Seq(Bytes) /\ Len(y) = m /\ \A t \in 1 .. m : y[t] = f[i + t] BY <1>2, PartIs
<1>4. g \in Seq(Bytes) /\ Len(g) = m /\ \A t \in 1 .. m : g[t] = Shown(q, x[t]) BY <1>1, FoldedIs
<1> HIDE DEF y, g
<1>5. ASSUME NEW t \in 1 .. m PROVE g[t] = y[t]
  <2>1. i + t \in 1 .. Len(s) OBVIOUS
  <2>2. f[i + t] = Shown(q, s[i + t]) BY <1>2, <2>1
  <2> QED BY <1>1, <1>3, <1>4, <2>2
<1>6. g = y BY <1>3, <1>4, <1>5, SeqEqual
<1> QED BY <1>6 DEF g, y, x, f, Piece

\* The needle as it is looked for.
Sought(q) == Folded(q, NeedleBytes(q))
\* Where it is in the file.
Meets(q) == Occurs(Folded(q, buf), Sought(q))

LEMMA SoughtIs ==
    ASSUME NEW q \in Queries
    PROVE  /\ NeedleBytes(q) \in Seq(Bytes) /\ Sought(q) \in Seq(Bytes)
           /\ Len(Sought(q)) = Len(NeedleBytes(q)) /\ Len(Sought(q)) >= 1 /\ Len(Sought(q)) \in Nat
           /\ \A i \in 1 .. Len(Sought(q)) : Sought(q)[i] = Shown(q, NeedleBytes(q)[i])
BY NeedleIs, FoldedIs DEF Sought

LEMMA LonelyIs ==
    ASSUME NEW q \in Queries, ~Overlaps(q)
    PROVE  Lonely(Sought(q))
<1> DEFINE N == NeedleBytes(q)
           F == Sought(q)
           n == Len(N)
<1>1. N \in Seq(Bytes) /\ F = Folded(q, N) /\ Len(F) = n /\ n \in Nat BY SoughtIs DEF Sought
<1>2. ASSUME NEW k \in 1 .. Len(F) - 1
      PROVE  SubSeq(F, k + 1, Len(F)) # SubSeq(F, 1, Len(F) - k)
  <2> DEFINE m == n - k
             zero == 0
  <2>1. k \in 1 .. n - 1 /\ k \in Nat /\ m \in Nat /\ k + m = n /\ k + m <= n /\ zero \in Nat /\ zero + m <= n
        /\ zero + m = n - k /\ zero + 1 = 1
    BY <1>1, <1>2
  <2>2. Folded(q, SubSeq(N, k + 1, n)) # Folded(q, SubSeq(N, 1, n - k))
    <3>1. ~Overlaps(q) OBVIOUS
    <3> QED BY <2>1, <3>1 DEF Overlaps
  <2> HIDE DEF N, F, n, m, zero
  <2>3. Folded(q, SubSeq(N, k + 1, k + m)) = SubSeq(Folded(q, N), k + 1, k + m)
    BY <1>1, <2>1, FoldedPart DEF n, Piece
  <2>4. Folded(q, SubSeq(N, zero + 1, zero + m)) = SubSeq(Folded(q, N), zero + 1, zero + m)
    BY <1>1, <2>1, FoldedPart DEF n, Piece
  <2>5. Folded(q, SubSeq(N, k + 1, n)) = SubSeq(F, k + 1, n) BY <1>1, <2>1, <2>3
  <2>6. Folded(q, SubSeq(N, 1, n - k)) = SubSeq(F, 1, n - k) BY <1>1, <2>1, <2>4
  <2> QED BY <1>1, <2>2, <2>5, <2>6
<1> HIDE DEF F
<1> QED BY <1>2 DEF Lonely, F

\* Where a needle is within part of a text.
LEMMA OccursIn ==
    ASSUME NEW q, NEW hay \in Seq(Bytes), NEW needle \in Seq(Bytes),
           NEW a \in Nat, NEW m \in Nat, a + m <= Len(hay), NEW i \in Nat
    PROVE  i \in Occurs(Folded(q, Piece(hay, a, m)), needle)
              <=> a + i \in Occurs(Folded(q, hay), needle) /\ i + Len(needle) <= m
<1>0. Folded(q, Piece(hay, a, m)) = Piece(Folded(q, hay), a, m) BY FoldedPart
<1> DEFINE f == Folded(q, hay)
           x == SubSeq(f, a + 1, a + m)
           n == Len(needle)
           j == a + i
<1>1. f \in Seq(Bytes) /\ Len(f) = Len(hay) BY FoldedIs
<1>2. Folded(q, Piece(hay, a, m)) = x BY <1>0 DEF Piece
<1> HIDE DEF f
<1>3. x \in Seq(Bytes) /\ Len(x) = m /\ \A t \in 1 .. m : x[t] = f[a + t] BY <1>1, PartIs
<1>4. n \in Nat /\ j \in Nat /\ Len(hay) \in Nat OBVIOUS
<1> HIDE DEF x
<1>5. i \in Occurs(x, needle) <=> i + n <= m /\ \A t \in 1 .. n : x[i + t] = needle[t]
  BY <1>3, OccursAt
<1> HIDE DEF j
<1>6. j \in Occurs(f, needle) <=> j + n <= Len(f) /\ \A t \in 1 .. n : f[j + t] = needle[t]
  BY <1>1, <1>4, OccursAt
<1>7. ASSUME i + n <= m
      PROVE  j + n <= Len(f) /\ \A t \in 1 .. n : x[i + t] = f[j + t]
  <2> HIDE DEF n
  <2>1. j + n <= Len(f) BY <1>1, <1>4, <1>7 DEF j
  <2>2. ASSUME NEW t \in 1 .. n PROVE x[i + t] = f[j + t]
    <3>1. i + t \in 1 .. m /\ a + (i + t) = j + t BY <1>4, <1>7 DEF j
    <3> QED BY <1>3, <3>1
  <2> QED BY <2>1, <2>2
<1> HIDE DEF n
<1>8. i \in Occurs(x, needle) <=> j \in Occurs(f, needle) /\ i + n <= m
  <2>1. CASE i + n <= m
    <3>1. j + n <= Len(f) /\ \A t \in 1 .. n : x[i + t] = f[j + t] BY <1>7, <2>1
    <3> QED BY <1>5, <1>6, <2>1, <3>1
  <2>2. CASE ~(i + n <= m) BY <1>5, <2>2
  <2> QED BY <2>1, <2>2
<1> QED BY <1>2, <1>8 DEF x, f, j, n

-----------------------------------------------------------------------------
(* Where lines end.                                                        *)

OnUnit(x) == enc = "wide" => x % 2 = 0

LEMMA KindIs ==
    ASSUME SearchIInv
    PROVE  /\ idx.kind = KindOf(enc) /\ idx.base = 0 /\ idx.len = Len(buf) /\ IndexIs(idx, buf)
           /\ buf \in Seq(Bytes) /\ Len(buf) \in Nat
           /\ Newline(idx.kind) = LF /\ Width(idx.kind) = IF enc = "wide" THEN 2 ELSE 1
           /\ idx.kind = "wide" <=> enc = "wide"
<1>1. idx.kind \in {"lf", "wide"} /\ (idx.kind = "wide" <=> enc = "wide")
  BY DEF SearchIInv, KindOf
<1>2. Newline(idx.kind) = LF BY <1>1 DEF Newline
<1>3. Width(idx.kind) = IF enc = "wide" THEN 2 ELSE 1 BY <1>1 DEF Width
<1>4. idx.len = Len(buf) BY DEF SearchIInv, IndexIs
<1> QED BY <1>1, <1>2, <1>3, <1>4 DEF SearchIInv

\* A line begins at a unit, behind a line feed.
LEMMA BeginsAt ==
    ASSUME SearchIInv, NEW s \in Table(idx.kind, buf, idx.base)
    PROVE  /\ OnUnit(s) /\ s \in Nat /\ s < Len(buf)
           /\ s # 0 => /\ s - Width(idx.kind) \in Nat
                       /\ UnitAt(idx.kind, buf, s - Width(idx.kind)) = LF
<1> DEFINE w == Width(idx.kind)
           E == Ends(idx.kind, buf, idx.base)
           p == s - w
<1>1. /\ idx.base = 0 /\ buf \in Seq(Bytes) /\ Newline(idx.kind) = LF
      /\ w = IF enc = "wide" THEN 2 ELSE 1
      /\ idx.kind = "wide" <=> enc = "wide"
  BY KindIs
<1>2. s \in Nat /\ s < Len(buf) /\ (s # idx.base => p \in E) BY <1>1, TableFacts
<1>3. \A x \in E : x \in Nat /\ (idx.kind = "wide" => (x - idx.base) % 2 = 0)
                  /\ UnitAt(idx.kind, buf, x) = Newline(idx.kind)
  <2>1. \A x \in E : x \in Nat /\ (idx.kind = "wide" => (x - idx.base) % 2 = 0) BY <1>1, EndsFacts
  <2>2. \A x \in E : UnitAt(idx.kind, buf, x) = Newline(idx.kind) BY DEF Ends, Newlines
  <2> QED BY <2>1, <2>2
<1> HIDE DEF E
<1>4. CASE s = 0
  <2>1. OnUnit(s) BY <1>4 DEF OnUnit
  <2> QED BY <1>2, <1>4, <2>1
<1>5. CASE s # 0
  <2>1. p \in E BY <1>1, <1>2, <1>5
  <2>2. p \in Nat /\ (enc = "wide" => (p - 0) % 2 = 0) /\ UnitAt(idx.kind, buf, p) = LF
    BY <1>1, <1>3, <2>1
  <2> HIDE DEF w
  <2>3. OnUnit(s) BY <1>1, <1>2, <2>2 DEF OnUnit
  <2> QED BY <1>2, <2>2, <2>3 DEF w
<1> QED BY <1>4, <1>5

\* What belongs to no line's text are its line feed and carriage return.
LEMMA EndsAt ==
    ASSUME SearchIInv, NEW s \in Table(idx.kind, buf, idx.base)
    PROVE  LET e == RawEnd(idx, buf, s)
               to == TextEnd(idx, buf, s, e)
           IN /\ e \in s + 1 .. Len(buf) /\ to \in s .. e
              /\ e < Len(buf) => to < e /\ e \in Table(idx.kind, buf, idx.base)
              /\ ~Torn => OnUnit(e) /\ OnUnit(to)
              /\ ~Torn => \A v \in to .. e - 1 : OnUnit(v) =>
                    v + Width(idx.kind) <= e /\ UnitAt(idx.kind, buf, v) \in {LF, CR}
<1> DEFINE T == Table(idx.kind, buf, idx.base)
           E == Ends(idx.kind, buf, idx.base)
           w == Width(idx.kind)
           n == Len(buf)
           nls == Newlines(idx.kind, buf, idx.base, s, n)
           e == RawEnd(idx, buf, s)
           to == TextEnd(idx, buf, s, e)
           U(x) == UnitAt(idx.kind, buf, x)
           nl == IF nls = {} THEN n ELSE Least(nls)
           cut(x, code) == IF x >= s + w /\ U(x - w) = code THEN x - w ELSE x
           y == cut(e, LF)
<1>1. /\ idx.base = 0 /\ buf \in Seq(Bytes) /\ Newline(idx.kind) = LF /\ n \in Nat /\ idx.len = n
      /\ w = IF enc = "wide" THEN 2 ELSE 1
      /\ idx.kind = "wide" <=> enc = "wide"
  BY KindIs
<1>2. OnUnit(s) /\ s \in Nat /\ s < n BY BeginsAt
<1>3. nls = {p \in E : s <= p /\ p + w <= n}
  <2>1. n <= Len(buf) BY <1>1
  <2> HIDE DEF n
  <2>2. nls = EndsIn(idx.kind, buf, idx.base, s, n) BY <1>1, <1>2, <2>1, EndsFrom
  <2> QED BY <2>2 DEF EndsIn
<1>4. \A x \in E : x \in Nat /\ (idx.kind = "wide" => (x - idx.base) % 2 = 0) /\ U(x) = LF
  <2>1. \A x \in E : x \in Nat /\ (idx.kind = "wide" => (x - idx.base) % 2 = 0) BY <1>1, EndsFacts
  <2>2. \A x \in E : UnitAt(idx.kind, buf, x) = Newline(idx.kind) BY DEF Ends, Newlines
  <2> QED BY <1>1, <2>1, <2>2
<1>5. \A p \in E : p + w < n => p + w \in T BY <1>1, <1>2, TableFacts
<1>6. to = cut(y, CR)
  <2> HIDE DEF e
  <2> QED BY OnlyOne DEF TextEnd, Of
<1> HIDE DEF n, nls, T, E, U
<1>7. /\ nls # {} => nl \in nls
      /\ nls = {} => nl = n
  <2>1. nls \subseteq Nat BY <1>3, <1>4
  <2> QED BY <2>1, LeastIs
<1>8. e = IF nl = n THEN nl ELSE nl + w
  <2>1. FindNl(idx.kind, buf, idx.base, s, idx.len) = nl BY <1>1, OnlyOne DEF FindNl, Of, nls
  <2> HIDE DEF nl
  <2> QED BY <1>1, <2>1, OnlyOne DEF RawEnd, Of
<1> HIDE DEF nl, w
<1>9. nl \in nls => nl \in Nat /\ s <= nl /\ nl + w <= n /\ U(nl) = LF /\ OnUnit(nl)
                   /\ (nl + w < n => nl + w \in T)
  <2> HAVE nl \in nls
  <2>1. nl \in E /\ s <= nl /\ nl + w <= n BY <1>3
  <2>2. nl \in Nat /\ U(nl) = LF /\ (enc = "wide" => (nl - 0) % 2 = 0) BY <1>1, <1>4, <2>1
  <2>3. OnUnit(nl) BY <2>2 DEF OnUnit
  <2> QED BY <1>5, <2>1, <2>2, <2>3
<1> HIDE DEF e, to
<1>10. e \in s + 1 .. n
  <2>1. CASE nls = {} BY <1>1, <1>2, <1>7, <1>8, <2>1
  <2>2. CASE nls # {} BY <1>1, <1>2, <1>7, <1>8, <1>9, <2>2
  <2> QED BY <2>1, <2>2
<1>11. e = n \/ (e - w \in Nat /\ s <= e - w /\ U(e - w) = LF /\ e \in T /\ e < n /\ OnUnit(e - w))
  <2>1. CASE e # n
    <3>1. nls # {} /\ nl \in nls BY <1>7, <1>8, <2>1
    <3>2. nl # n BY <1>1, <1>9, <3>1
    <3>3. e = nl + w /\ nl \in Nat /\ e < n BY <1>1, <1>8, <1>9, <1>10, <2>1, <3>1, <3>2
    <3>4. e - w = nl BY <1>1, <3>3
    <3> QED BY <1>9, <3>1, <3>3, <3>4
  <2> QED BY <2>1
<1>12. /\ y = e \/ (y = e - w /\ y >= s /\ U(y) = LF)
       /\ to = y \/ (to = y - w /\ to >= s /\ U(to) = CR)
  <2>1. \A x, code : cut(x, code) = x \/ (cut(x, code) = x - w /\ x >= s + w /\ U(x - w) = code) OBVIOUS
  <2>2. w \in 1 .. 2 BY <1>1
  <2>3. y = e \/ (y = e - w /\ e >= s + w /\ U(e - w) = LF) BY <2>1
  <2>4. to = y \/ (to = y - w /\ y >= s + w /\ U(y - w) = CR) BY <1>6, <2>1
  <2> HIDE DEF y, cut
  <2>5. y \in Int BY <1>1, <1>10, <2>2, <2>3
  <2> QED BY <1>2, <1>10, <2>2, <2>3, <2>4, <2>5
<1>13. e < n => y = e - w
  <2> HAVE e < n
  <2>1. e # n BY <1>1, <1>10
  <2>2. e - w \in Nat /\ s <= e - w /\ U(e - w) = LF BY <1>11, <2>1
  <2>3. e >= s + w BY <1>1, <1>2, <1>10, <2>2
  <2> QED BY <2>2, <2>3
<1> HIDE DEF y, cut
<1>14. w \in 1 .. 2 /\ s \in Nat /\ e \in Nat /\ e >= s BY <1>1, <1>2, <1>10
<1>15. to \in s .. e /\ (e < n => to < e)
  <2>1. y \in Int /\ to \in Int BY <1>12, <1>14
  <2> QED BY <1>12, <1>13, <1>14, <2>1
<1>16. e < n => e \in T BY <1>11, <1>14, <1>1
<1>17. ASSUME ~Torn PROVE OnUnit(e) /\ OnUnit(to)
  <2>1. CASE enc # "wide" BY <2>1 DEF OnUnit
  <2>2. CASE enc = "wide"
    <3>1. n % 2 # 1 BY <1>17, <2>2 DEF Torn, n
    <3>2. n % 2 = 0 BY <1>1, <3>1
    <3>3. w = 2 BY <1>1, <2>2
    <3>4. e % 2 = 0
      <4>1. CASE e = n BY <3>2, <4>1
      <4>2. CASE e # n
        <5>1. e - w \in Nat /\ (e - w) % 2 = 0 BY <1>11, <2>2, <4>2 DEF OnUnit
        <5> QED BY <1>14, <3>3, <5>1
      <4> QED BY <4>1, <4>2
    <3>5. y \in Nat /\ y % 2 = 0 BY <1>12, <1>14, <3>3, <3>4
    <3>6. to % 2 = 0 BY <1>12, <1>14, <3>3, <3>5
    <3> QED BY <3>4, <3>6 DEF OnUnit
  <2> QED BY <2>1, <2>2
<1>18. ASSUME ~Torn, NEW v \in to .. e - 1, OnUnit(v)
       PROVE  v + w <= e /\ U(v) \in {LF, CR}
  <2>0. v \in Int /\ to \in Nat /\ to <= v /\ v < e /\ y \in Int BY <1>12, <1>14, <1>15
  <2>1. v = y \/ v = to
    <3>1. CASE enc # "wide"
      <4>1. w = 1 BY <1>1, <3>1
      <4> QED BY <1>12, <1>14, <2>0, <4>1
    <3>2. CASE enc = "wide"
      <4>1. w = 2 /\ v % 2 = 0 /\ e % 2 = 0 BY <1>1, <1>17, <1>18, <3>2 DEF OnUnit
      <4> QED BY <1>12, <1>14, <2>0, <4>1
    <3> QED BY <3>1, <3>2
  <2>2. v + w <= e
    <3>1. CASE enc # "wide"
      <4>1. w = 1 BY <1>1, <3>1
      <4> QED BY <1>14, <2>0, <4>1
    <3>2. CASE enc = "wide"
      <4>1. w = 2 /\ v % 2 = 0 /\ e % 2 = 0 BY <1>1, <1>17, <1>18, <3>2 DEF OnUnit
      <4> QED BY <1>14, <2>0, <4>1
    <3> QED BY <3>1, <3>2
  <2>3. U(v) \in {LF, CR}
    <3>1. CASE v = to /\ to # y BY <1>12, <3>1
    <3>2. CASE v = y
      <4>1. y # e BY <1>14, <2>0, <3>2
      <4> QED BY <1>12, <3>2, <4>1
    <3> QED BY <2>1, <3>1, <3>2
  <2> QED BY <2>2, <2>3
<1> HIDE DEF Torn
<1> QED BY <1>10, <1>15, <1>16, <1>17, <1>18 DEF e, to, n, w, T, U

\* Line k: where it begins, where the next one does, and where its text ends.
OnLine(k, s, e, to) ==
    /\ k \in 0 .. idx.count - 1 /\ s \in Table(idx.kind, buf, idx.base)
    /\ k = Rank(Table(idx.kind, buf, idx.base), s) /\ s = LineStart(idx, buf, k)
    /\ e = RawEnd(idx, buf, s) /\ to = TextEnd(idx, buf, s, e)
    /\ s \in Nat /\ e \in Nat /\ to \in Nat /\ s <= to /\ to <= e /\ s < e /\ e <= Len(buf)
    /\ LineRange(idx, buf, k) = [from |-> s, to |-> to]

LEMMA LineOn ==
    ASSUME SearchIInv, NEW s \in Table(idx.kind, buf, idx.base)
    PROVE  \E k, e, to : OnLine(k, s, e, to)
<1> DEFINE T == Table(idx.kind, buf, idx.base)
           k == Rank(T, s)
           e == RawEnd(idx, buf, s)
           to == TextEnd(idx, buf, s, e)
<1>1. IndexIs(idx, buf) /\ buf \in Seq(Bytes) /\ Len(buf) \in Nat BY KindIs
<1>2. /\ e \in s .. Len(buf) /\ to \in s .. e /\ s \in Nat
      /\ k \in 0 .. idx.count - 1
      /\ LineRange(idx, buf, k) = [from |-> s, to |-> to]
  BY <1>1, LineIs
<1>3. e \in s + 1 .. Len(buf) BY EndsAt
<1>4. LineStart(idx, buf, k) = s
  <2>1. SameSoFar(idx, buf, buf) BY <1>1 DEF SameSoFar
  <2> QED BY <1>1, <2>1, LineStartIs
<1>5. s \in T OBVIOUS
<1> HIDE DEF T, k, e, to
<1>6. s \in Nat /\ e \in Nat /\ to \in Nat /\ s <= to /\ to <= e /\ s < e /\ e <= Len(buf)
  BY <1>1, <1>2, <1>3
<1>7. OnLine(k, s, e, to) BY <1>2, <1>4, <1>5, <1>6 DEF OnLine, T, k, e, to
<1> QED BY <1>7

LEMMA LineHas ==
    ASSUME SearchIInv, NEW k \in 0 .. idx.count - 1
    PROVE  \E s, e, to : OnLine(k, s, e, to)
<1> DEFINE T == Table(idx.kind, buf, idx.base)
           s == LineStart(idx, buf, k)
<1>1. IndexIs(idx, buf) /\ buf \in Seq(Bytes) BY KindIs
<1>2. s \in T /\ Rank(T, s) = k BY <1>1, LinesAre
<1> HIDE DEF s
<1>3. PICK j, e, to : OnLine(j, s, e, to) BY <1>2, LineOn
<1>4. j = k BY <1>2, <1>3 DEF OnLine
<1> QED BY <1>3, <1>4

LEMMA LinesApart ==
    ASSUME SearchIInv, NEW k, NEW s, NEW e, NEW to, OnLine(k, s, e, to),
           NEW j, NEW t, NEW d, NEW x, OnLine(j, t, d, x),
           NEW p \in Nat, s <= p, p < e, t <= p, p < d
    PROVE  j = k /\ t = s /\ d = e /\ x = to
<1>1. IndexIs(idx, buf) /\ buf \in Seq(Bytes) BY KindIs
<1>2. s \in Nat /\ t \in Nat /\ e \in Nat /\ d \in Nat BY DEF OnLine
<1>3. s < t => e <= t BY <1>1, LineIs DEF OnLine
<1>4. t < s => d <= s BY <1>1, LineIs DEF OnLine
<1>5. s = t BY <1>2, <1>3, <1>4
<1> QED BY <1>5 DEF OnLine

\* The line a byte is in.
LEMMA LineOfIs ==
    ASSUME SearchIInv, NEW p \in 0 .. Len(buf) - 1
    PROVE  \E k, s, e, to : /\ OnLine(k, s, e, to) /\ s <= p /\ p < e
                            /\ LineOf(p) = [from |-> s, to |-> to]
<1> DEFINE T == Table(idx.kind, buf, idx.base)
           n == Len(buf)
           S == {t \in T : t <= p}
<1>1. IndexIs(idx, buf) /\ buf \in Seq(Bytes) /\ n \in Nat /\ idx.base = 0 BY KindIs
<1>2. IsFiniteSet(T) /\ T \subseteq Int /\ (\A t \in T : t \in Nat /\ t < n) /\ 0 \in T
  <2>1. /\ IsFiniteSet(T) /\ T \subseteq Int
        /\ \A t \in T : t \in Nat /\ idx.base <= t /\ t < Len(buf)
        /\ idx.base < Len(buf) => idx.base \in T
    BY <1>1, TableBounds
  <2>2. idx.base < Len(buf) BY <1>1
  <2> QED BY <1>1, <2>1, <2>2
<1>3. LineOfByte(idx, buf, p) = Cardinality(S) - 1
  <2>1. p \in idx.base .. (Len(buf) - 1) BY <1>1
  <2> QED BY <1>1, <2>1, LineOfByteIs
<1> HIDE DEF T, n
<1>4. p \in Nat OBVIOUS
<1>5. PICK s \in S : \A t \in S : t <= s
  <2>1. S # {} BY <1>2, <1>4
  <2>2. \A t \in S : t \in 0 .. p BY <1>2, <1>4
  <2>3. S \subseteq 0 .. p BY <2>2
  <2> HIDE DEF S
  <2> QED BY <1>4, <2>1, <2>3, GreatestOf
<1>6. s \in T /\ s \in Nat /\ s <= p BY <1>2, <1>5
<1>7. PICK k, e, to : OnLine(k, s, e, to) BY <1>6, LineOn DEF T
<1>8. Rank(T, s) = k BY <1>7 DEF OnLine, T
<1>9. p < e
  <2> SUFFICES ASSUME ~(p < e) PROVE FALSE OBVIOUS
  <2>1. e = RawEnd(idx, buf, s) /\ e \in Nat /\ s < e BY <1>7 DEF OnLine
  <2>2. e < n BY <1>1, <1>4, <2>1 DEF n
  <2>3. e \in T BY <1>6, <2>1, <2>2, EndsAt DEF T, n
  <2>4. e \in S BY <1>4, <2>1, <2>3
  <2> QED BY <1>5, <1>6, <2>1, <2>4
<1>10. Cardinality(S) = k + 1
  <2> DEFINE R == {t \in T : t < s}
  <2>1. S = R \cup {s}
    <3>1. \A t \in T : t <= p <=> t < s \/ t = s
      <4> TAKE t \in T
      <4>1. t \in Nat BY <1>2
      <4>2. t <= p => t <= s BY <1>5
      <4> QED BY <1>4, <1>6, <4>1, <4>2
    <3> QED BY <1>6, <3>1
  <2>2. s \notin R BY <1>6
  <2>3. IsFiniteSet(R) BY <1>2, FS_Subset
  <2>4. Cardinality(R) = k BY <1>8 DEF Rank
  <2> HIDE DEF S, R
  <2> QED BY <2>1, <2>2, <2>3, <2>4, FS_AddElement
<1> HIDE DEF S
<1>11. LineOfByte(idx, buf, p) = k
  <2>1. k \in Int BY <1>7 DEF OnLine
  <2> QED BY <1>3, <1>10, <2>1
<1>12. LineOf(p) = [from |-> s, to |-> to] BY <1>7, <1>11 DEF LineOf, OnLine
<1> QED BY <1>6, <1>7, <1>9, <1>12

-----------------------------------------------------------------------------
(* Where the needle is.                                                    *)

LEMMA MeetsAt ==
    ASSUME SearchIInv, NEW q \in Queries, NEW p \in Meets(q)
    PROVE  /\ p \in Nat /\ p + Len(NeedleBytes(q)) <= Len(buf)
           /\ \A t \in 1 .. Len(NeedleBytes(q)) : Shown(q, buf[p + t]) = Shown(q, NeedleBytes(q)[t])
<1> DEFINE F == Sought(q)
           n == Len(NeedleBytes(q))
           f == Folded(q, buf)
<1>1. F \in Seq(Bytes) /\ Len(F) = n /\ \A i \in 1 .. n : F[i] = Shown(q, NeedleBytes(q)[i])
      /\ n \in Nat
  BY SoughtIs
<1>2. f \in Seq(Bytes) /\ Len(f) = Len(buf) /\ \A i \in 1 .. Len(buf) : f[i] = Shown(q, buf[i])
      /\ Len(buf) \in Nat
  BY KindIs, FoldedIs
<1>3. p \in Occurs(f, F) BY DEF Meets
<1> HIDE DEF F, f, n
<1>4. p \in Nat BY <1>3 DEF Occurs
<1>5. p + n <= Len(buf) /\ \A t \in 1 .. n : f[p + t] = F[t] BY <1>1, <1>2, <1>3, <1>4, OccursAt
<1>6. ASSUME NEW t \in 1 .. n PROVE Shown(q, buf[p + t]) = Shown(q, NeedleBytes(q)[t])
  <2>1. p + t \in 1 .. Len(buf) BY <1>1, <1>2, <1>4, <1>5
  <2>2. f[p + t] = Shown(q, buf[p + t]) BY <1>2, <2>1
  <2> QED BY <1>1, <1>5, <2>2
<1> QED BY <1>4, <1>5, <1>6 DEF n

LEMMA BreakIs ==
    ASSUME NEW q, NEW a \in Bytes, NEW b \in Bytes, Shown(q, a) = Shown(q, b), a <= 64
    PROVE  b = a
<1>1. a \in 0 .. 64 BY DEF Bytes
<1> QED BY <1>1, ShownIs

LEMMA Evens ==
    ASSUME NEW v \in Nat, NEW p \in Nat, NEW n \in Nat, NEW m \in Nat, v = p + m, v < p + n,
           v % 2 = 0, p % 2 = 0, n % 2 = 0
    PROVE  m + 2 <= n /\ m % 2 = 0
OBVIOUS

\* A needle without a line break lies in the text of one line.
LEMMA InText ==
    ASSUME SearchIInv, ~Torn, NEW q \in Queries, q.enc = enc, ~Breaks(q),
           NEW k, NEW s, NEW e, NEW to, OnLine(k, s, e, to),
           NEW p \in Meets(q), s <= p, p < e, OnUnit(p)
    PROVE  p + Len(NeedleBytes(q)) <= to
<1> DEFINE N == NeedleBytes(q)
           n == Len(NeedleBytes(q))
           w == Width(idx.kind)
           v == IF p >= to THEN p ELSE to
           m == v - p
<1>0. SUFFICES ASSUME ~(p + n <= to) PROVE FALSE OBVIOUS
<1>1. /\ buf \in Seq(Bytes) /\ Len(buf) \in Nat
      /\ w = IF enc = "wide" THEN 2 ELSE 1
      /\ idx.kind = "wide" <=> enc = "wide"
      /\ idx.kind = KindOf(enc)
  BY KindIs
<1>2. N \in Seq(Bytes) /\ n \in Nat /\ n >= 1 BY SoughtIs
<1>3. p \in Nat /\ p + n <= Len(buf) /\ \A t \in 1 .. n : Shown(q, buf[p + t]) = Shown(q, N[t])
  BY MeetsAt
<1>4. /\ s \in Nat /\ e \in Nat /\ to \in Nat /\ s <= to /\ to <= e /\ e <= Len(buf)
      /\ s \in Table(idx.kind, buf, idx.base) /\ e = RawEnd(idx, buf, s) /\ to = TextEnd(idx, buf, s, e)
  BY DEF OnLine
<1>5. /\ e < Len(buf) => to < e
      /\ OnUnit(to)
      /\ \A x \in to .. e - 1 : OnUnit(x) => x + w <= e /\ UnitAt(idx.kind, buf, x) \in {LF, CR}
  BY <1>4, EndsAt
<1>6. enc = "wide" => n % 2 = 0
  <2>1. n = Len(FlattenSeq(q.needle)) BY DEF NeedleBytes
  <2> QED BY <2>1, QueriesAssumption
<1> HIDE DEF n, w
<1>7. to < e BY <1>0, <1>1, <1>2, <1>3, <1>4, <1>5
<1>8. v \in to .. e - 1 /\ OnUnit(v) /\ v \in Nat /\ m \in Nat /\ v = p + m BY <1>3, <1>4, <1>5, <1>7
<1>9. v + w <= e /\ UnitAt(idx.kind, buf, v) \in {LF, CR} BY <1>5, <1>8
<1>9a. v < p + n BY <1>0, <1>2, <1>3, <1>4
<1> HIDE DEF v, m
<1>10. m + w <= n /\ (enc = "wide" => m % 2 = 0)
  <2>1. CASE enc # "wide" BY <1>1, <1>2, <1>3, <1>8, <1>9a, <2>1
  <2>2. CASE enc = "wide"
    <3>1. w = 2 /\ n % 2 = 0 /\ v % 2 = 0 /\ p % 2 = 0 BY <1>1, <1>6, <1>8, <2>2 DEF OnUnit
    <3>2. m + 2 <= n /\ m % 2 = 0 BY <1>2, <1>3, <1>8, <1>9a, <3>1, Evens
    <3> QED BY <3>1, <3>2
  <2> QED BY <2>1, <2>2
<1>11. UnitAt(KindOf(enc), N, m) \in {LF, CR}
  <2> DEFINE a == buf[v + 1]
             b == buf[v + 2]
             c == N[m + 1]
             d == N[m + 2]
  <2>0. w \in 1 .. 2 BY <1>1
  <2>1. m + 1 \in 1 .. n /\ v + 1 \in 1 .. Len(buf) /\ v + 1 = p + (m + 1)
    BY <1>1, <1>2, <1>3, <1>8, <1>10, <2>0
  <2>2. a \in Bytes /\ c \in Bytes /\ Shown(q, a) = Shown(q, c)
    <3>1. a \in Bytes BY <1>1, <2>1
    <3>2. c \in Bytes BY <1>2, <2>1 DEF n
    <3>3. Shown(q, buf[p + (m + 1)]) = Shown(q, c) BY <1>3, <2>1
    <3> QED BY <2>1, <3>1, <3>2, <3>3
  <2>3. CASE enc # "wide"
    <3>1. a \in {LF, CR} BY <1>1, <1>9, <2>3 DEF UnitAt
    <3>2. c = a
      <4> HIDE DEF a, c
      <4>1. a <= 64 BY <3>1 DEF LF, CR
      <4> QED BY <2>2, <4>1, BreakIs
    <3>3. KindOf(enc) # "wide" BY <1>1, <2>3
    <3> QED BY <3>1, <3>2, <3>3 DEF UnitAt
  <2>4. CASE enc = "wide"
    <3>0. w = 2 BY <1>1, <2>4
    <3>1. m + 2 \in 1 .. n /\ v + 2 \in 1 .. Len(buf) /\ v + 2 = p + (m + 2)
      <4>1. m + 2 <= n BY <1>10, <3>0
      <4>2. p \in Nat /\ p + n <= Len(buf) BY <1>3
      <4>3. v \in Nat /\ m \in Nat /\ v = p + m BY <1>8
      <4>4. n \in Nat /\ Len(buf) \in Nat BY <1>1, <1>2
      <4>5. m + 2 \in 1 .. n BY <4>1, <4>3, <4>4
      <4>6. v + 2 = p + (m + 2) BY <4>2, <4>3
      <4>7. v + 2 \in 1 .. Len(buf) BY <4>1, <4>2, <4>3, <4>4
      <4> QED BY <4>5, <4>6, <4>7
    <3>2. b \in Bytes /\ d \in Bytes /\ Shown(q, b) = Shown(q, d)
      <4>1. b \in Bytes BY <1>1, <3>1
      <4>2. d \in Bytes BY <1>2, <3>1 DEF n
      <4>3. Shown(q, buf[p + (m + 2)]) = Shown(q, d) BY <1>3, <3>1
      <4> QED BY <3>1, <4>1, <4>2, <4>3
    <3>3. a + 256 * b \in {LF, CR} BY <1>1, <1>9, <2>4 DEF UnitAt
    <3> HIDE DEF a, b, c, d
    <3>4. b = 0 /\ a <= 64 BY <2>2, <3>2, <3>3 DEF LF, CR, Bytes
    <3>5. c = a BY <2>2, <3>4, BreakIs
    <3>6. b <= 64 BY <3>4
    <3>7. d = b BY <3>2, <3>6, BreakIs
    <3>8. KindOf(enc) = "wide" BY <1>1, <2>4
    <3> QED BY <3>3, <3>5, <3>7, <3>8 DEF UnitAt, c, d
  <2> QED BY <2>3, <2>4
<1>12. Breaks(q)
  <2>1. m \in 0 .. n - w BY <1>1, <1>2, <1>8, <1>10
  <2>2. m \in 0 .. Len(N) - Width(KindOf(enc)) BY <1>1, <2>1 DEF n, w
  <2> QED BY <1>10, <1>11, <2>2 DEF Breaks
<1> QED BY <1>12

\* A hit, and the bytes in lines where the needle counts as one.
HitAt(q, p) == [at |-> p, len |-> Len(NeedleBytes(q))]
Spots(q) == {p \in Meets(q) : InLine(q, p, Len(NeedleBytes(q)))}

\* The text from s up to to.
TextIs(s, to) ==
    /\ Raw([from |-> s, to |-> to]) = Piece(buf, s, to - s)
    /\ Piece(buf, s, to - s) \in Seq(Bytes) /\ Len(Piece(buf, s, to - s)) = to - s
    /\ to - s \in Nat /\ s + (to - s) = to /\ s + (to - s) <= Len(buf)

LEMMA RawIs ==
    ASSUME SearchIInv, NEW k, NEW s, NEW e, NEW to, OnLine(k, s, e, to)
    PROVE  TextIs(s, to)
<1> DEFINE m == to - s
<1>1. buf \in Seq(Bytes) /\ Len(buf) \in Nat BY KindIs
<1>2. s \in Nat /\ m \in Nat /\ s + m = to /\ s + m <= Len(buf) BY <1>1 DEF OnLine
<1> HIDE DEF m
<1>3. Piece(buf, s, m) \in Seq(Bytes) /\ Len(Piece(buf, s, m)) = m BY <1>1, <1>2, PartIs DEF Piece
<1>4. Raw([from |-> s, to |-> to]) = Piece(buf, s, m) BY <1>2 DEF Raw, Piece
<1> QED BY <1>2, <1>3, <1>4 DEF m, TextIs

LEMMA InLineIs ==
    ASSUME SearchIInv, NEW k, NEW s, NEW e, NEW to, OnLine(k, s, e, to),
           NEW p \in Nat, s <= p, p < e, NEW q, NEW n
    PROVE  InLine(q, p, n) <=> Accepts(q, Piece(buf, s, to - s), p - s, n)
<1> DEFINE r == [from |-> s, to |-> to]
           raw == Piece(buf, s, to - s)
<1>1. p \in 0 .. Len(buf) - 1
  <2>1. e \in Nat /\ e <= Len(buf) BY DEF OnLine
  <2>2. Len(buf) \in Nat BY KindIs
  <2> QED BY <2>1, <2>2
<1>2. PICK j, t, d, x : OnLine(j, t, d, x) /\ t <= p /\ p < d /\ LineOf(p) = [from |-> t, to |-> x]
  BY <1>1, LineOfIs
<1>3. t = s /\ x = to BY <1>2, LinesApart
<1>4. LineOf(p) = r BY <1>2, <1>3
<1>5. Raw(r) = raw
  <2>1. TextIs(s, to) BY RawIs
  <2> QED BY <2>1 DEF TextIs
<1>6. r.from = s OBVIOUS
<1> HIDE DEF r, raw
<1> QED BY <1>4, <1>5, <1>6 DEF InLine, raw

LEMMA SpotsIn ==
    ASSUME SearchIInv, NEW q \in Queries, NEW p \in Spots(q)
    PROVE  p \in Meets(q) /\ p \in Nat /\ p + Len(NeedleBytes(q)) <= Len(buf) /\ p \in 0 .. Len(buf) - 1
<1>1. p \in Meets(q) BY DEF Spots
<1>2. p \in Nat /\ p + Len(NeedleBytes(q)) <= Len(buf) BY <1>1, MeetsAt
<1>3. Len(NeedleBytes(q)) \in Nat /\ Len(NeedleBytes(q)) >= 1 BY SoughtIs
<1>4. Len(buf) \in Nat BY KindIs
<1> QED BY <1>1, <1>2, <1>3, <1>4

LEMMA ScansIs ==
    ASSUME NEW q \in Queries, ~Overlaps(q), MatchPlan(q) # "decode", NEW raw \in Seq(Bytes), NEW y
    PROVE  y \in LineHits(q, raw)
              <=> \E i \in Occurs(Folded(q, raw), Sought(q)) :
                     Accepts(q, raw, i, Len(NeedleBytes(q))) /\ y = HitAt(q, i)
<1> DEFINE needle == NeedleBytes(q)
           n == Len(needle)
           hay == Folded(q, raw)
           sought == Folded(q, needle)
           K == {i \in FindIter(hay, sought) : Accepts(q, raw, i, n)}
           hits == {[at |-> p, len |-> n] : p \in K}
<1>1. LineHits(q, raw) = IF MatchPlan(q) = "decode" THEN DecodedHits(q, raw) ELSE hits
  BY OnlyOne DEF LineHits, Of
<1>2. LineHits(q, raw) = hits
  <2> HIDE DEF hits
  <2> QED BY <1>1
<1>3. FindIter(hay, sought) = Occurs(hay, sought)
  <2>1. sought = Sought(q) BY DEF Sought
  <2>2. sought \in Seq(Bytes) /\ Len(sought) >= 1 /\ Lonely(sought) BY <2>1, SoughtIs, LonelyIs
  <2>3. hay \in Seq(Bytes) BY FoldedIs
  <2> HIDE DEF hay, sought
  <2> QED BY <2>2, <2>3, FindsAll
<1>4. \A i : HitAt(q, i) = [at |-> i, len |-> n] BY DEF HitAt
<1>5. hay = Folded(q, raw) /\ sought = Sought(q) BY DEF Sought
<1> HIDE DEF hay, sought, n
<1>6. y \in hits <=> \E i \in Occurs(hay, sought) : Accepts(q, raw, i, n) /\ y = [at |-> i, len |-> n]
  BY <1>3
<1> QED BY <1>2, <1>4, <1>5, <1>6 DEF n

\* The hits of a line are the spots in it.
LEMMA LineFinds ==
    ASSUME SearchIInv, ~Torn, NEW q \in Queries, q.enc = enc, ~Overlaps(q), ~Breaks(q),
           MatchPlan(q) # "decode",
           NEW k, NEW s, NEW e, NEW to, OnLine(k, s, e, to), NEW x
    PROVE  x \in Shift(LineHits(q, Piece(buf, s, to - s)), s)
              <=> \E p \in Spots(q) : s <= p /\ p < e /\ x = HitAt(q, p)
<1>0. /\ Piece(buf, s, to - s) \in Seq(Bytes) /\ Len(Piece(buf, s, to - s)) = to - s
      /\ to - s \in Nat /\ s + (to - s) = to /\ s + (to - s) <= Len(buf)
  <2>1. TextIs(s, to) BY RawIs
  <2> QED BY <2>1 DEF TextIs
<1> DEFINE m == to - s
           raw == Piece(buf, s, m)
           n == Len(NeedleBytes(q))
           O == Occurs(Folded(q, raw), Sought(q))
           hits == LineHits(q, raw)
           Shifts(y) == [y EXCEPT !.at = @ + s]
<1>1. raw \in Seq(Bytes) /\ Len(raw) = m /\ m \in Nat /\ s + m = to /\ s + m <= Len(buf) BY <1>0
<1>2. /\ s \in Nat /\ e \in Nat /\ to \in Nat /\ s <= to /\ to <= e /\ e <= Len(buf)
      /\ s \in Table(idx.kind, buf, idx.base)
  BY DEF OnLine
<1>3. n \in Nat /\ n >= 1 /\ Len(Sought(q)) = n /\ Sought(q) \in Seq(Bytes) BY SoughtIs
<1>4. buf \in Seq(Bytes) BY KindIs
<1>5. \A i \in Nat : i \in O <=> s + i \in Meets(q) /\ i + n <= m
  <2> TAKE i \in Nat
  <2> HIDE DEF m
  <2>1. i \in O <=> s + i \in Occurs(Folded(q, buf), Sought(q)) /\ i + Len(Sought(q)) <= m
    BY <1>1, <1>2, <1>3, <1>4, OccursIn
  <2> QED BY <1>3, <2>1 DEF Meets
<1>6. O \subseteq Nat BY DEF Occurs
<1>7. \A y : y \in hits <=> \E i \in O : Accepts(q, raw, i, n) /\ y = HitAt(q, i)
  BY <1>1, ScansIs
<1>8. \A i \in Nat : Shifts(HitAt(q, i)) = HitAt(q, s + i)
  <2> TAKE i \in Nat
  <2>1. i + s = s + i BY <1>2
  <2> QED BY <2>1 DEF HitAt
<1>9. x \in Shift(hits, s) <=> \E y \in hits : x = Shifts(y) BY DEF Shift
<1> HIDE DEF O, hits, Shifts
<1>10. x \in Shift(hits, s) <=> \E i \in O : Accepts(q, raw, i, n) /\ x = HitAt(q, s + i)
  <2>1. x \in Shift(hits, s) <=> \E i \in O : Accepts(q, raw, i, n) /\ x = Shifts(HitAt(q, i))
    BY <1>7, <1>9
  <2> QED BY <1>6, <1>8, <2>1
<1> HIDE DEF raw, n
<1>11. ASSUME NEW p \in Nat, s <= p, p < e
       PROVE  InLine(q, p, n) <=> Accepts(q, raw, p - s, n)
  BY <1>11, InLineIs DEF raw
<1>12. ASSUME NEW i \in O, Accepts(q, raw, i, n), x = HitAt(q, s + i)
       PROVE  \E p \in Spots(q) : s <= p /\ p < e /\ x = HitAt(q, p)
  <2> DEFINE p == s + i
  <2>1. i \in Nat /\ p \in Meets(q) /\ i + n <= m BY <1>5, <1>6, <1>12
  <2>2. p \in Nat /\ s <= p /\ p < e /\ p - s = i BY <1>1, <1>2, <1>3, <2>1
  <2> HIDE DEF p
  <2>3. InLine(q, p, n) BY <1>11, <1>12, <2>2
  <2>4. p \in Spots(q) BY <2>1, <2>3 DEF Spots, n
  <2> QED BY <1>12, <2>2, <2>4 DEF p
<1>13. ASSUME NEW p \in Spots(q), s <= p, p < e, x = HitAt(q, p)
       PROVE  \E i \in O : Accepts(q, raw, i, n) /\ x = HitAt(q, s + i)
  <2> DEFINE i == p - s
  <2>1. p \in Meets(q) /\ p \in Nat /\ InLine(q, p, n) BY SpotsIn DEF Spots, n
  <2>2. i \in Nat /\ s + i = p BY <1>2, <1>13, <2>1
  <2>3. Accepts(q, raw, i, n) BY <1>11, <1>13, <2>1
  <2>4. OnUnit(p)
    <3>1. OnUnit(s) BY <1>2, BeginsAt
    <3>2. enc = "wide" => i % 2 = 0 BY <2>3 DEF Accepts
    <3> HIDE DEF i
    <3>3. enc = "wide" => p % 2 = 0 BY <1>2, <2>2, <3>1, <3>2 DEF OnUnit
    <3> QED BY <3>3 DEF OnUnit
  <2>5. p + n <= to BY <1>13, <2>1, <2>4, InText DEF n
  <2> HIDE DEF i
  <2>6. i + n <= m BY <1>1, <1>2, <1>3, <2>2, <2>5
  <2>7. i \in O BY <1>5, <2>1, <2>2, <2>6
  <2> QED BY <1>13, <2>2, <2>3, <2>7
<1>14. x \in Shift(hits, s) <=> \E p \in Spots(q) : s <= p /\ p < e /\ x = HitAt(q, p)
  BY <1>10, <1>12, <1>13
<1> QED BY <1>14 DEF hits, raw, m

\* What the lines hold is what the file holds.
LEMMA LinesFind ==
    ASSUME SearchIInv, ~Torn, NEW q \in Queries, q.enc = enc, ~Overlaps(q), ~Breaks(q),
           MatchPlan(q) # "decode",
           NEW found, \A raw \in Seq(Bytes) : found[raw] = LineHits(q, raw)
    PROVE  Between(found, idx, buf, 0, idx.count) = {HitAt(q, p) : p \in Spots(q)}
<1> DEFINE B == Between(found, idx, buf, 0, idx.count)
<1>0. idx.count \in Nat BY KindIs, LinesAre
<1>1. \A x : x \in B <=> \E k \in 0 .. idx.count - 1 : x \in HitsOf(found, idx, buf, k)
  BY DEF Between
<1>2. ASSUME NEW k, NEW s, NEW e, NEW to, OnLine(k, s, e, to), NEW x
      PROVE  x \in HitsOf(found, idx, buf, k)
                <=> \E p \in Spots(q) : s <= p /\ p < e /\ x = HitAt(q, p)
  <2> DEFINE r == LineRange(idx, buf, k)
             raw == SubSeq(buf, r.from + 1, r.to)
  <2>1. r = [from |-> s, to |-> to] BY <1>2 DEF OnLine
  <2>2. raw = Raw(r) BY DEF Raw
  <2>3. raw = Piece(buf, s, to - s) /\ raw \in Seq(Bytes)
    <3> HIDE DEF r, raw
    <3>1. TextIs(s, to) BY <1>2, RawIs
    <3> QED BY <2>1, <2>2, <3>1 DEF TextIs
  <2>4. HitsOf(found, idx, buf, k) = Shift(found[raw], r.from) BY DEF HitsOf
  <2>5. r.from = s BY <2>1
  <2> HIDE DEF r, raw
  <2>6. HitsOf(found, idx, buf, k) = Shift(LineHits(q, Piece(buf, s, to - s)), s)
    BY <2>3, <2>4, <2>5
  <2>7. x \in Shift(LineHits(q, Piece(buf, s, to - s)), s)
              <=> \E p \in Spots(q) : s <= p /\ p < e /\ x = HitAt(q, p)
    BY <1>2, LineFinds
  <2> QED BY <2>6, <2>7
<1> HIDE DEF B
<1>3. ASSUME NEW x \in B PROVE x \in {HitAt(q, p) : p \in Spots(q)}
  <2>1. PICK k \in 0 .. idx.count - 1 : x \in HitsOf(found, idx, buf, k) BY <1>1
  <2>2. PICK s, e, to : OnLine(k, s, e, to) BY LineHas
  <2>3. PICK p \in Spots(q) : x = HitAt(q, p) BY <1>2, <2>1, <2>2
  <2> QED BY <2>3
<1>4. ASSUME NEW p \in Spots(q) PROVE HitAt(q, p) \in B
  <2>1. p \in 0 .. Len(buf) - 1 BY SpotsIn
  <2>2. PICK k, s, e, to : OnLine(k, s, e, to) /\ s <= p /\ p < e BY <2>1, LineOfIs
  <2>3. HitAt(q, p) \in HitsOf(found, idx, buf, k) BY <1>2, <2>2
  <2>4. k \in 0 .. idx.count - 1 BY <2>2 DEF OnLine
  <2> QED BY <1>1, <2>3, <2>4
<1>5. B = {HitAt(q, p) : p \in Spots(q)} BY <1>3, <1>4
<1> QED BY <1>5 DEF B

\* A query whose hits are the same however it is looked for.
Plain(q) == q \in Queries /\ q.enc = enc /\ ~Overlaps(q) /\ ~Breaks(q) /\ ~Torn
Scanned(found, q) == \A raw \in Seq(Bytes) : found[raw] = LineHits(q, raw)
AllHits(found) == Between(found, idx, buf, 0, idx.count)

LEMMA ScannedFinds ==
    ASSUME NEW q \in Queries, NEW found, Scanned(found, q)
    PROVE  Finds(found)
<1> SUFFICES ASSUME NEW raw \in Seq(Bytes)
             PROVE  Apart(found[raw]) /\ Within(found[raw], 0, Len(raw)) /\ IsHits(found[raw])
  BY DEF Finds
<1>1. found[raw] = LineHits(q, raw) BY DEF Scanned
<1>2. Apart(LineHits(q, raw)) /\ Within(LineHits(q, raw), 0, Len(raw)) /\ IsHits(LineHits(q, raw))
  BY LineHitsAre
<1> QED BY <1>1, <1>2

\* What the hits of the file are.
LEMMA AllAre ==
    ASSUME SearchIInv, NEW q \in Queries, NEW found, Scanned(found, q)
    PROVE  Apart(AllHits(found)) /\ IsFiniteSet(AllHits(found)) /\ Within(AllHits(found), 0, Len(buf))
<1>1. IndexIs(idx, buf) /\ buf \in Seq(Bytes) /\ Finds(found) BY KindIs, ScannedFinds
<1>2. idx.count \in Nat BY <1>1, LinesAre
<1>3. idx.count \in Nat /\ 0 \in Nat /\ idx.count <= idx.count BY <1>2
<1>4. /\ Apart(Between(found, idx, buf, 0, idx.count))
      /\ IsFiniteSet(Between(found, idx, buf, 0, idx.count))
      /\ Within(Between(found, idx, buf, 0, idx.count), 0, Len(buf))
  BY ONLY <1>1, <1>3, BetweenIs
<1> QED BY <1>4 DEF AllHits

LEMMA HitsOfLine ==
    ASSUME SearchIInv, NEW q \in Queries, NEW found, Scanned(found, q), NEW k \in 0 .. idx.count - 1
    PROVE  LET r == LineRange(idx, buf, k) IN
           HitsOf(found, idx, buf, k) = Shift(LineHits(q, Raw(r)), r.from) /\ Raw(r) \in Seq(Bytes)
<1> DEFINE r == LineRange(idx, buf, k)
<1>1. SubSeq(buf, r.from + 1, r.to) \in Seq(Bytes) BY KindIs, LineRead
<1>2. Raw(r) = SubSeq(buf, r.from + 1, r.to) BY DEF Raw
<1>3. HitsOf(found, idx, buf, k) = Shift(found[SubSeq(buf, r.from + 1, r.to)], r.from) BY DEF HitsOf
<1> HIDE DEF r
<1>4. Raw(r) \in Seq(Bytes) /\ found[Raw(r)] = LineHits(q, Raw(r)) BY <1>1, <1>2 DEF Scanned
<1>5. HitsOf(found, idx, buf, k) = Shift(LineHits(q, Raw(r)), r.from) BY <1>2, <1>3, <1>4
<1> QED BY <1>4, <1>5 DEF r

\* search from a byte on gives the hits from there on.
LEMMA HitsFrom ==
    ASSUME SearchIInv, NEW q, Plain(q), NEW found, Scanned(found, q), NEW b \in 0 .. Len(buf)
    PROVE  Hits(q, b) = {x \in AllHits(found) : x.at >= b}
<1> DEFINE A == AllHits(found)
           n == Len(NeedleBytes(q))
           hay == SubSeq(buf, b + 1, Len(buf))
           D == UNION {Shift(DecodedHits(q, Raw(r)), r.from) : r \in LineRanges(idx, buf)}
           I == {i \in FindIter(Folded(q, hay), Folded(q, NeedleBytes(q))) : InLine(q, b + i, n)}
           H == {[at |-> b + p, len |-> n] : p \in I}
<1>1. q \in Queries /\ q.enc = enc /\ ~Overlaps(q) /\ ~Breaks(q) /\ ~Torn BY DEF Plain
<1>2. Hits(q, b) = IF MatchPlan(q) = "decode" THEN {x \in D : x.at >= b} ELSE H BY DEF Hits
<1>3. buf \in Seq(Bytes) /\ Len(buf) \in Nat /\ b \in Nat BY KindIs
<1>4. CASE MatchPlan(q) = "decode"
  <2>1. \A raw : LineHits(q, raw) = DecodedHits(q, raw)
    <3> TAKE raw
    <3>1. LineHits(q, raw) = IF MatchPlan(q) = "decode" THEN DecodedHits(q, raw)
             ELSE {[at |-> p, len |-> n] : p \in {i \in FindIter(Folded(q, raw), Folded(q, NeedleBytes(q))) :
                                                     Accepts(q, raw, i, n)}}
      BY OnlyOne DEF LineHits, Of
    <3> QED BY <1>4, <3>1
  <2>2. \A x : x \in D <=> \E k \in 0 .. idx.count - 1 :
                  \E r \in {LineRange(idx, buf, k)} : x \in Shift(DecodedHits(q, Raw(r)), r.from)
    BY DEF LineRanges
  <2>3. \A x : x \in A <=> \E k \in 0 .. idx.count - 1 : x \in HitsOf(found, idx, buf, k)
    BY DEF AllHits, Between
  <2>4. ASSUME NEW k \in 0 .. idx.count - 1
        PROVE  \E r \in {LineRange(idx, buf, k)} :
                  HitsOf(found, idx, buf, k) = Shift(DecodedHits(q, Raw(r)), r.from)
    <3> DEFINE r == LineRange(idx, buf, k)
    <3>1. HitsOf(found, idx, buf, k) = Shift(LineHits(q, Raw(r)), r.from) BY <1>1, HitsOfLine
    <3> HIDE DEF r
    <3>2. HitsOf(found, idx, buf, k) = Shift(DecodedHits(q, Raw(r)), r.from) BY <2>1, <3>1
    <3> QED BY <3>2 DEF r
  <2> HIDE DEF A, D
  <2>5. \A x : x \in D <=> x \in A
    <3> TAKE x
    <3>1. ASSUME NEW k \in 0 .. idx.count - 1
          PROVE  (\E r \in {LineRange(idx, buf, k)} : x \in Shift(DecodedHits(q, Raw(r)), r.from))
                    <=> x \in HitsOf(found, idx, buf, k)
      BY <2>4
    <3> QED BY <2>2, <2>3, <3>1
  <2>6. D = A BY <2>5
  <2> HIDE DEF H
  <2> QED BY <1>2, <1>4, <2>6 DEF A
<1>5. CASE MatchPlan(q) # "decode"
  <2> DEFINE m == Len(buf) - b
             F == Folded(q, hay)
             S == Sought(q)
  <2>1. A = {HitAt(q, p) : p \in Spots(q)}
    <3>1. \A raw \in Seq(Bytes) : found[raw] = LineHits(q, raw) BY DEF Scanned
    <3> QED BY <1>1, <1>5, <3>1, LinesFind DEF AllHits
  <2>2. m \in Nat /\ b + m = Len(buf) /\ b + m <= Len(buf) BY <1>3
  <2>3. hay = Piece(buf, b, m) BY <2>2 DEF Piece
  <2> HIDE DEF A, m
  <2>4. Piece(buf, b, m) \in Seq(Bytes) BY <1>3, <2>2, PartIs DEF Piece
  <2>5. n \in Nat /\ n >= 1 /\ Len(S) = n /\ S \in Seq(Bytes) /\ Lonely(S) BY <1>1, SoughtIs, LonelyIs
  <2>6. F = Folded(q, Piece(buf, b, m)) BY <2>3
  <2> HIDE DEF hay, F, S, n
  <2>7. F \in Seq(Bytes) BY <2>4, <2>6, FoldedIs
  <2>8. FindIter(F, S) = Occurs(F, S) BY <2>5, <2>7, FindsAll
  <2>9. \A i \in Nat : i \in Occurs(F, S) <=> b + i \in Meets(q) /\ i + n <= m
    <3> TAKE i \in Nat
    <3>1. i \in Occurs(Folded(q, Piece(buf, b, m)), S)
             <=> b + i \in Occurs(Folded(q, buf), S) /\ i + Len(S) <= m
      BY <1>3, <2>2, <2>5, OccursIn
    <3> QED BY <2>5, <2>6, <3>1 DEF Meets, S
  <2>10. I = {i \in Occurs(F, S) : InLine(q, b + i, n)}
    <3>1. FindIter(F, S) = FindIter(Folded(q, hay), Folded(q, NeedleBytes(q))) BY DEF F, S, Sought
    <3> QED BY <2>8, <3>1
  <2>11. Occurs(F, S) \subseteq Nat BY DEF Occurs
  <2> HIDE DEF I
  <2>12. \A x : x \in H <=> \E i \in I : x = HitAt(q, b + i) BY DEF HitAt, n
  <2>13. ASSUME NEW i \in I PROVE b + i \in Spots(q) /\ b + i >= b
    <3>1. i \in Nat /\ b + i \in Meets(q) /\ InLine(q, b + i, n) BY <2>9, <2>10, <2>11
    <3> QED BY <1>3, <3>1 DEF Spots, n
  <2>14. ASSUME NEW p \in Spots(q), p >= b PROVE \E i \in I : p = b + i
    <3> DEFINE i == p - b
    <3>1. p \in Meets(q) /\ p \in Nat /\ p + n <= Len(buf) BY <1>1, SpotsIn DEF n
    <3>2. InLine(q, p, n) BY DEF Spots, n
    <3>3. i \in Nat /\ b + i = p /\ i + n <= m BY <1>3, <2>2, <2>5, <2>14, <3>1
    <3> HIDE DEF i
    <3>4. i \in I BY <2>9, <2>10, <3>1, <3>2, <3>3
    <3> QED BY <3>3, <3>4
  <2>15. \A p : HitAt(q, p).at = p BY DEF HitAt
  <2> HIDE DEF H
  <2>16. \A x : x \in H <=> x \in A /\ x.at >= b
    <3> TAKE x
    <3>1. ASSUME x \in H PROVE x \in A /\ x.at >= b
      <4>1. PICK i \in I : x = HitAt(q, b + i) BY <2>12, <3>1
      <4> QED BY <2>1, <2>13, <2>15, <4>1
    <3>2. ASSUME x \in A, x.at >= b PROVE x \in H
      <4>1. PICK p \in Spots(q) : x = HitAt(q, p) BY <2>1, <3>2
      <4>2. p >= b BY <2>15, <3>2, <4>1
      <4> QED BY <2>12, <2>14, <4>1, <4>2
    <3> QED BY <3>1, <3>2
  <2>17. H = {x \in A : x.at >= b} BY <2>16
  <2> HIDE DEF D
  <2> QED BY <1>2, <1>5, <2>17 DEF A
<1> QED BY <1>4, <1>5

-----------------------------------------------------------------------------
(* The first and the last of some hits.                                    *)

LEMMA FirstOfIs ==
    ASSUME NEW S, Apart(S), Numbered(S), NEW m \in S, \A y \in S : m.at <= y.at
    PROVE  FirstOf(S) = m
<1> DEFINE P(x) == \A y \in S : x.at <= y.at
<1>1. FirstOf(S) = IF S = {} THEN None ELSE CHOOSE x \in S : P(x) BY OnlyOne DEF FirstOf, Of
<1>2. \A x \in S : P(x) => x = m
  <2> TAKE x \in S
  <2> HAVE P(x)
  <2>1. x.at <= m.at /\ m.at <= x.at /\ x.at \in Int /\ m.at \in Int BY DEF Numbered
  <2>2. x.at = m.at BY <2>1
  <2> QED BY <2>2 DEF Apart
<1>3. P(m) OBVIOUS
<1> HIDE DEF P
<1> QED BY <1>1, <1>2, <1>3

LEMMA LastOfIs ==
    ASSUME NEW S, Apart(S), Numbered(S), NEW m \in S, \A y \in S : y.at <= m.at
    PROVE  LastOf(S) = m
<1> DEFINE P(x) == \A y \in S : y.at <= x.at
<1>1. LastOf(S) = IF S = {} THEN None ELSE CHOOSE x \in S : P(x) BY OnlyOne DEF LastOf, Of
<1>2. \A x \in S : P(x) => x = m
  <2> TAKE x \in S
  <2> HAVE P(x)
  <2>1. x.at <= m.at /\ m.at <= x.at /\ x.at \in Int /\ m.at \in Int BY DEF Numbered
  <2>2. x.at = m.at BY <2>1
  <2> QED BY <2>2 DEF Apart
<1>3. P(m) OBVIOUS
<1> HIDE DEF P
<1> QED BY <1>1, <1>2, <1>3

LEMMA NoneOf == FirstOf({}) = None /\ LastOf({}) = None
BY OnlyOne DEF FirstOf, LastOf, Of

LEMMA HasFirst ==
    ASSUME NEW S, NEW L \in Nat, Within(S, 0, L), S # {}
    PROVE  \E m \in S : \A y \in S : m.at <= y.at
<1> DEFINE Q == {x.at : x \in S}
<1>1. \A x \in S : x.at \in Nat BY DEF Within
<1>2. Q \subseteq Nat /\ Q # {} BY <1>1
<1>3. PICK a \in Q : \A c \in Q : a <= c
  <2> HIDE DEF Q
  <2> QED BY <1>2, LeastOf
<1> QED BY <1>3

LEMMA HasLast ==
    ASSUME NEW S, NEW L \in Nat, Within(S, 0, L), S # {}
    PROVE  \E m \in S : \A y \in S : y.at <= m.at
<1> DEFINE Q == {x.at : x \in S}
<1>1. \A x \in S : x.at \in 0 .. L BY DEF Within
<1>2. Q \subseteq 0 .. L /\ Q # {} BY <1>1
<1>3. PICK a \in Q : \A c \in Q : c <= a
  <2> HIDE DEF Q
  <2> QED BY <1>2, GreatestOf
<1> QED BY <1>3

LEMMA FirstOfFirstHits ==
    ASSUME NEW S, NEW L \in Nat, Within(S, 0, L), Apart(S), IsFiniteSet(S)
    PROVE  FirstOf(FirstHits(S, 1)) = FirstOf(S)
<1> DEFINE F == FirstHits(S, 1)
<1>1. F = {x \in S : Cardinality(Before(S, x)) < 1} BY FirstIs
<1>2. Numbered(S) BY DEF Numbered, Within
<1>3. CASE S = {} BY <1>1, <1>3
<1>4. CASE S # {}
  <2>1. PICK m \in S : \A y \in S : m.at <= y.at BY <1>4, HasFirst
  <2>2. Before(S, m) = {}
    <3>1. \A y \in S : ~(y.at < m.at) BY <1>2, <2>1 DEF Numbered
    <3> QED BY <3>1 DEF Before
  <2>3. m \in F
    <3>1. Cardinality(Before(S, m)) = 0 BY <2>2, FS_EmptySet
    <3> QED BY <1>1, <3>1
  <2> HIDE DEF F
  <2>4. F \subseteq S BY <1>1
  <2>5. Apart(F) /\ Numbered(F) /\ \A y \in F : m.at <= y.at BY <1>2, <2>1, <2>4 DEF Apart, Numbered
  <2>6. FirstOf(F) = m BY <2>3, <2>5, FirstOfIs
  <2>7. FirstOf(S) = m BY <1>2, <2>1, FirstOfIs
  <2> QED BY <2>6, <2>7 DEF F
<1> QED BY <1>3, <1>4

LEMMA NextIs ==
    ASSUME SearchIInv, NEW q, Plain(q), NEW found, Scanned(found, q), NEW b \in 0 .. Len(buf)
    PROVE  FindNext(q, b) = FirstOf({x \in AllHits(found) : x.at >= b})
<1> DEFINE A == AllHits(found)
           H == {x \in A : x.at >= b}
<1>1. FindNext(q, b) = FirstOf(FirstHits(Hits(q, b), 1))
  <2>1. Found(q, b, 1) = [hits |-> FirstHits(Hits(q, b), 1), truncated |-> Cardinality(Hits(q, b)) > 1]
    BY OnlyOne DEF Found, Of
  <2> QED BY <2>1 DEF FindNext
<1>2. Hits(q, b) = H BY HitsFrom
<1>3. Apart(A) /\ IsFiniteSet(A) /\ Within(A, 0, Len(buf))
  <2>1. q \in Queries BY DEF Plain
  <2> QED BY <2>1, AllAre
<1>4. Apart(H) /\ IsFiniteSet(H) /\ Within(H, 0, Len(buf))
  <2> HIDE DEF A
  <2>1. H \subseteq A OBVIOUS
  <2>2. IsFiniteSet(H) BY <1>3, <2>1, FS_Subset
  <2> QED BY <1>3, <2>1, <2>2 DEF Apart, Within
<1>5. Len(buf) \in Nat BY KindIs
<1> HIDE DEF H
<1>6. FirstOf(FirstHits(H, 1)) = FirstOf(H) BY <1>4, <1>5, FirstOfFirstHits
<1> QED BY <1>1, <1>2, <1>6 DEF H, A

\* A line has a match if a hit begins in it.
LEMMA GrepIs ==
    ASSUME SearchIInv, NEW q, Plain(q), NEW found, Scanned(found, q), NEW k \in 0 .. idx.count - 1
    PROVE  LET r == LineRange(idx, buf, k) IN
           LineHasMatch(q, Raw(r)) <=> \E x \in AllHits(found) : x.at \in r.from .. r.to - 1
<1> DEFINE r == LineRange(idx, buf, k)
           A == AllHits(found)
<1>1. q \in Queries BY DEF Plain
<1>2. ASSUME NEW j \in 0 .. idx.count - 1, NEW s, NEW e, NEW to, OnLine(j, s, e, to)
      PROVE  \E raw \in Seq(Bytes) :
                /\ raw = Raw([from |-> s, to |-> to])
                /\ HitsOf(found, idx, buf, j) = Shift(LineHits(q, raw), s)
                /\ Within(Shift(LineHits(q, raw), s), s, to)
  <2> DEFINE raw == Raw([from |-> s, to |-> to])
             hits == LineHits(q, raw)
  <2>1. LineRange(idx, buf, j) = [from |-> s, to |-> to] BY <1>2 DEF OnLine
  <2>2. HitsOf(found, idx, buf, j) = Shift(hits, s) /\ raw \in Seq(Bytes)
    <3>1. LET c == LineRange(idx, buf, j) IN
          HitsOf(found, idx, buf, j) = Shift(LineHits(q, Raw(c)), c.from) /\ Raw(c) \in Seq(Bytes)
      BY <1>1, HitsOfLine
    <3> QED BY <2>1, <3>1
  <2>3. Len(raw) = to - s /\ s + (to - s) = to /\ to - s \in Nat
    <3>1. TextIs(s, to) BY <1>2, RawIs
    <3> QED BY <3>1 DEF TextIs
  <2>4. s \in Nat BY <1>2 DEF OnLine
  <2> HIDE DEF raw
  <2>5. Apart(hits) /\ Within(hits, 0, Len(raw)) /\ IsHits(hits) BY <1>1, <2>2, LineHitsAre
  <2> HIDE DEF hits
  <2>6. Within(Shift(hits, s), s, s + (to - s)) BY <2>3, <2>4, <2>5, Shifted
  <2> QED BY <2>2, <2>3, <2>6 DEF raw, hits
<1>3. PICK s, e, to : OnLine(k, s, e, to) BY LineHas
<1>4. r = [from |-> s, to |-> to] BY <1>3 DEF OnLine
<1>5. \A x : x \in A <=> \E j \in 0 .. idx.count - 1 : x \in HitsOf(found, idx, buf, j)
  BY DEF AllHits, Between
<1> HIDE DEF A, r
<1>6. PICK raw \in Seq(Bytes) :
           /\ raw = Raw([from |-> s, to |-> to])
           /\ HitsOf(found, idx, buf, k) = Shift(LineHits(q, raw), s)
           /\ Within(Shift(LineHits(q, raw), s), s, to)
  BY <1>2, <1>3
<1>7. s \in Nat /\ to \in Nat /\ to <= e /\ e \in Nat BY <1>3 DEF OnLine
<1>8. LineHasMatch(q, Raw(r)) <=> LineHits(q, raw) # {} BY <1>4, <1>6 DEF LineHasMatch
<1>9. LineHits(q, raw) # {} <=> HitsOf(found, idx, buf, k) # {}
  <2>1. Shift(LineHits(q, raw), s) # {} <=> LineHits(q, raw) # {} BY DEF Shift
  <2> QED BY <1>6, <2>1
<1>10. ASSUME NEW x \in HitsOf(found, idx, buf, k) PROVE x \in A /\ x.at \in s .. to - 1
  <2>1. x.at \in Int /\ s <= x.at /\ x.at < to BY <1>6 DEF Within
  <2> QED BY <1>5, <1>7, <2>1
<1>11. ASSUME NEW x \in A, x.at \in s .. to - 1 PROVE x \in HitsOf(found, idx, buf, k)
  <2>1. PICK j \in 0 .. idx.count - 1 : x \in HitsOf(found, idx, buf, j) BY <1>5
  <2>2. PICK t, d, u : OnLine(j, t, d, u) BY LineHas
  <2>3. Within(HitsOf(found, idx, buf, j), t, u) BY <1>2, <2>2
  <2>4. x.at \in Int /\ t <= x.at /\ x.at < u BY <2>1, <2>3 DEF Within
  <2>5. t \in Nat /\ u \in Nat /\ d \in Nat /\ u <= d BY <2>2 DEF OnLine
  <2> DEFINE p == x.at
  <2>6. p \in Nat /\ s <= p /\ p < e /\ t <= p /\ p < d BY <1>7, <1>11, <2>4, <2>5
  <2> HIDE DEF p
  <2>7. j = k BY <1>3, <2>2, <2>6, LinesApart
  <2> QED BY <2>1, <2>7
<1>12. LineHasMatch(q, Raw(r)) <=> \E x \in A : x.at \in s .. to - 1
  BY <1>8, <1>9, <1>10, <1>11
<1>13. r.from = s /\ r.to = to BY <1>4
<1>14. LineHasMatch(q, Raw(r)) <=> \E x \in A : x.at \in r.from .. r.to - 1 BY <1>12, <1>13
<1> QED BY <1>14 DEF r, A

-----------------------------------------------------------------------------
(* Searching backward.                                                     *)

LEMMA PrevDecoded ==
    ASSUME SearchIInv, NEW q, Plain(q), NEW found, Scanned(found, q), NEW b \in 0 .. Len(buf),
           MatchPlan(q) = "decode"
    PROVE  FindPrev(q, b) = LastOf({x \in AllHits(found) : x.at + x.len <= b})
<1> DEFINE zero == 0
           A == AllHits(found)
<1>1. FindPrev(q, b) = LastOf({x \in Hits(q, zero) : x.at + x.len <= b}) BY DEF FindPrev
<1>2. zero \in 0 .. Len(buf) /\ Len(buf) \in Nat BY KindIs
<1> HIDE DEF zero
<1>3. Hits(q, zero) = {x \in A : x.at >= zero} BY <1>2, HitsFrom
<1>4. Within(A, 0, Len(buf))
  <2>1. q \in Queries BY DEF Plain
  <2> QED BY <2>1, AllAre
<1> HIDE DEF A
<1>5. {x \in A : x.at >= zero} = A
  <2>1. \A x \in A : x.at >= zero BY <1>4 DEF Within, zero
  <2> QED BY <2>1
<1> QED BY <1>1, <1>3, <1>5 DEF A

\* A whole word in its line is one in the file: what ends a line is no word.
LEMMA WordAgrees ==
    ASSUME SearchIInv, NEW q, Plain(q), enc = "bytes", NEW p \in Meets(q)
    PROVE  p \in Spots(q) <=> (q.word => WholeBytes(buf, p, Len(NeedleBytes(q))))
<1> DEFINE n == Len(NeedleBytes(q))
<1>1. q \in Queries /\ q.enc = enc /\ ~Breaks(q) /\ ~Torn BY DEF Plain
<1>2. p \in Nat /\ p + n <= Len(buf) /\ n \in Nat /\ n >= 1 /\ Len(buf) \in Nat
  BY <1>1, MeetsAt, SoughtIs, KindIs
<1>3. p \in 0 .. Len(buf) - 1 BY <1>2
<1>4. PICK k, s, e, to : OnLine(k, s, e, to) /\ s <= p /\ p < e BY <1>3, LineOfIs
<1>5. /\ s \in Table(idx.kind, buf, idx.base) /\ e = RawEnd(idx, buf, s) /\ to = TextEnd(idx, buf, s, e)
      /\ s \in Nat /\ e \in Nat /\ to \in Nat /\ s <= to /\ to <= e /\ s < e /\ e <= Len(buf)
  BY <1>4 DEF OnLine
<1>6. p + n <= to
  <2>1. OnUnit(p) BY DEF OnUnit
  <2> QED BY <1>1, <1>4, <2>1, InText
<1> DEFINE w == Piece(buf, s, to - s)
           j == p - s
           m == to - s
<1>7. /\ w \in Seq(Bytes) /\ Len(w) = m /\ m \in Nat /\ j \in Nat /\ s + j = p /\ j + n <= m
      /\ s + m = to
  <2>1. TextIs(s, to) BY <1>4, RawIs
  <2> QED BY <1>2, <1>4, <1>5, <1>6, <2>1 DEF TextIs
<1>8. \A t \in 1 .. m : w[t] = buf[s + t]
  <2>1. w = SubSeq(buf, s + 1, s + m) BY DEF Piece
  <2>2. buf \in Seq(Bytes) /\ s + m <= Len(buf) BY <1>5, <1>7, KindIs
  <2>3. s \in Nat /\ m \in Nat BY <1>5, <1>7
  <2> HIDE DEF w, m
  <2>4. \A t \in 1 .. m : SubSeq(buf, s + 1, s + m)[t] = buf[s + t] BY ONLY <2>2, <2>3, PartIs
  <2> QED BY <2>1, <2>4
<1>9. InLine(q, p, n) <=> Accepts(q, w, j, n) BY <1>2, <1>4, InLineIs
<1> HIDE DEF w, n
<1>10. Accepts(q, w, j, n) <=> (q.word => WholeBytes(w, j, n)) BY DEF Accepts
<1>11. /\ WholeBytes(w, j, n) <=> /\ j > 0 => ~IsWord(w[j - 1 + 1])
                                  /\ j + n < Len(w) => ~IsWord(w[j + n + 1])
       /\ WholeBytes(buf, p, n) <=> /\ p > 0 => ~IsWord(buf[p - 1 + 1])
                                    /\ p + n < Len(buf) => ~IsWord(buf[p + n + 1])
  BY DEF WholeBytes
<1>12. /\ idx.kind # "wide" /\ Width(idx.kind) = 1
       /\ \A off : UnitAt(idx.kind, buf, off) = buf[off + 1]
  BY KindIs DEF UnitAt
<1> HIDE DEF j, m
<1>13. ~IsWord(LF) /\ ~IsWord(CR) BY DEF IsWord, LF, CR
<1>14. (j > 0 => ~IsWord(w[j - 1 + 1])) <=> (p > 0 => ~IsWord(buf[p - 1 + 1]))
  <2>1. CASE j = 0
    <3>1. p = s BY <1>2, <1>5, <1>7, <2>1
    <3>2. CASE s = 0 BY <2>1, <3>1, <3>2
    <3>3. CASE s # 0
      <4>1. UnitAt(idx.kind, buf, s - 1) = LF BY <1>5, <1>12, <3>3, BeginsAt
      <4>2. buf[s - 1 + 1] = LF BY <1>12, <4>1
      <4>3. ~IsWord(buf[p - 1 + 1]) BY <1>13, <3>1, <4>2
      <4> QED BY <2>1, <4>3
    <3> QED BY <3>2, <3>3
  <2>2. CASE j # 0
    <3>1. j > 0 /\ p > 0 /\ j - 1 + 1 = j /\ p - 1 + 1 = p /\ j \in 1 .. m
      BY <1>2, <1>5, <1>7, <2>2
    <3>2. w[j] = buf[p] BY <1>7, <1>8, <3>1
    <3> QED BY <3>1, <3>2
  <2> QED BY <2>1, <2>2
<1>15. (j + n < Len(w) => ~IsWord(w[j + n + 1])) <=> (p + n < Len(buf) => ~IsWord(buf[p + n + 1]))
  <2>1. CASE p + n = to
    <3>1. ~(j + n < Len(w)) BY <1>2, <1>5, <1>7, <2>1
    <3>2. ASSUME p + n < Len(buf) PROVE ~IsWord(buf[p + n + 1])
      <4>1. /\ e < Len(buf) => to < e
            /\ \A v \in to .. e - 1 : OnUnit(v) => UnitAt(idx.kind, buf, v) \in {LF, CR}
        BY <1>1, <1>5, EndsAt
      <4>2. to \in to .. e - 1 BY <1>2, <1>5, <2>1, <3>2, <4>1
      <4>3. OnUnit(to) BY DEF OnUnit
      <4>4. buf[to + 1] \in {LF, CR} BY <1>12, <4>1, <4>2, <4>3
      <4> QED BY <1>13, <2>1, <4>4
    <3> QED BY <3>1, <3>2
  <2>2. CASE p + n # to
    <3> DEFINE t == j + n + 1
    <3>1. j + n < Len(w) /\ p + n < Len(buf) /\ t \in 1 .. m /\ s + t = p + n + 1
      BY <1>2, <1>5, <1>6, <1>7, <2>2
    <3>2. w[t] = buf[p + n + 1] BY <1>8, <3>1
    <3> QED BY <3>1, <3>2
  <2> QED BY <2>1, <2>2
<1>16. InLine(q, p, n) <=> (q.word => WholeBytes(buf, p, n)) BY <1>9, <1>10, <1>11, <1>14, <1>15
<1> QED BY <1>16 DEF Spots, n

LEMMA PrevRegex ==
    ASSUME SearchIInv, NEW q, Plain(q), NEW found, Scanned(found, q), NEW b \in 0 .. Len(buf),
           MatchPlan(q) = "regex"
    PROVE  FindPrev(q, b) = LastOf({x \in AllHits(found) : x.at + x.len <= b})
<1> DEFINE n == Len(NeedleBytes(q))
           S == Sought(q)
           zero == 0
           F == Folded(q, SubSeq(buf, 1, b))
           A == AllHits(found)
           I == {i \in FindIter(F, S) : q.word => WholeBytes(buf, i, n)}
           H == {[at |-> p, len |-> n] : p \in I}
<1>1. q \in Queries /\ q.enc = enc /\ ~Overlaps(q) /\ ~Breaks(q) /\ ~Torn BY DEF Plain
<1>2. enc = "bytes" BY <1>1 DEF MatchPlan
<1>3. FindPrev(q, b) = LastOf(H) BY DEF FindPrev, Sought
<1>4. A = {HitAt(q, p) : p \in Spots(q)}
  <2>1. \A raw \in Seq(Bytes) : found[raw] = LineHits(q, raw) BY DEF Scanned
  <2> QED BY <1>1, <2>1, LinesFind DEF AllHits
<1>5. buf \in Seq(Bytes) /\ Len(buf) \in Nat /\ b \in Nat /\ b <= Len(buf) /\ zero \in Nat /\ zero + b <= Len(buf)
  BY KindIs
<1>6. F = Folded(q, Piece(buf, zero, b)) BY <1>5 DEF Piece
<1>7. \A i \in Nat : zero + i = i OBVIOUS
<1>8. n \in Nat /\ n >= 1 /\ Len(S) = n /\ S \in Seq(Bytes) /\ Lonely(S) BY <1>1, SoughtIs, LonelyIs
<1> HIDE DEF A, F, S, n, zero
<1>9. F \in Seq(Bytes)
  <2>1. Piece(buf, zero, b) \in Seq(Bytes) BY <1>5, PartIs DEF Piece
  <2> QED BY <1>6, <2>1, FoldedIs
<1>10. FindIter(F, S) = Occurs(F, S) BY <1>8, <1>9, FindsAll
<1>11. \A i \in Nat : i \in Occurs(F, S) <=> i \in Meets(q) /\ i + n <= b
  <2> TAKE i \in Nat
  <2>1. i \in Occurs(Folded(q, Piece(buf, zero, b)), S)
           <=> zero + i \in Occurs(Folded(q, buf), S) /\ i + Len(S) <= b
    BY <1>5, <1>8, OccursIn
  <2> QED BY <1>6, <1>7, <1>8, <2>1 DEF Meets, S
<1>12. Occurs(F, S) \subseteq Nat /\ Meets(q) \subseteq Nat BY DEF Occurs, Meets
<1>13. \A p \in Meets(q) : p \in Spots(q) <=> (q.word => WholeBytes(buf, p, n))
  BY <1>2, WordAgrees DEF n
<1>14. Spots(q) \subseteq Meets(q) BY DEF Spots
<1>15. \A p : p \in I <=> p \in Spots(q) /\ p + n <= b
  BY <1>10, <1>11, <1>12, <1>13, <1>14
<1>16. \A p : [at |-> p, len |-> n] = HitAt(q, p) /\ HitAt(q, p).at = p /\ HitAt(q, p).len = n
  BY DEF HitAt, n
<1> HIDE DEF I
<1>17. H = {x \in A : x.at + x.len <= b}
  <2>1. \A x : x \in H <=> \E p \in I : x = HitAt(q, p) BY <1>16
  <2> HIDE DEF H
  <2>2. ASSUME NEW x \in H PROVE x \in A /\ x.at + x.len <= b
    <3>1. PICK p \in I : x = HitAt(q, p) BY <2>1
    <3>2. x.at = p /\ x.len = n BY <1>16, <3>1
    <3>3. p \in Spots(q) /\ p + n <= b BY <1>15
    <3> QED BY <1>4, <3>1, <3>2, <3>3
  <2>3. ASSUME NEW x \in A, x.at + x.len <= b PROVE x \in H
    <3>1. PICK p \in Spots(q) : x = HitAt(q, p) BY <1>4
    <3>2. p + n <= b BY <1>16, <2>3, <3>1
    <3>3. p \in I BY <1>15, <3>2
    <3> QED BY <2>1, <3>1, <3>3
  <2> QED BY <2>2, <2>3
<1> HIDE DEF H
<1> QED BY <1>3, <1>17 DEF A

\* The chunk of find_prev that ends at c: the hits that begin in it and end by b.
LEMMA ChunkFinds ==
    ASSUME SearchIInv, NEW q, Plain(q), ~q.fold, NEW b \in 0 .. Len(buf),
           NEW c \in 1 .. Len(buf), NEW f \in 0 .. c - 1, NEW i \in Nat
    PROVE  (i \in {f + p : p \in RFindIter(SubSeq(buf, f + 1, ScanEnd(c, Len(NeedleBytes(q)), b)), NeedleBytes(q))}
               /\ i < c)
              <=> (i \in Meets(q) /\ f <= i /\ i < c /\ i + Len(NeedleBytes(q)) <= b)
<1> DEFINE S == NeedleBytes(q)
           n == Len(S)
           e == ScanEnd(c, n, b)
           m == e - f
           hay == SubSeq(buf, f + 1, e)
           j == i - f
<1>1. q \in Queries /\ q.enc = enc /\ ~Overlaps(q) BY DEF Plain
<1>2. Sought(q) = S /\ Folded(q, buf) = buf /\ \A s : Folded(q, s) = s BY DEF Sought, Folded
<1>3. n \in Nat /\ n >= 1 /\ S \in Seq(Bytes) /\ Lonely(S) BY <1>1, <1>2, SoughtIs, LonelyIs
<1>4. buf \in Seq(Bytes) /\ Len(buf) \in Nat /\ b \in Nat /\ b <= Len(buf) /\ c \in Nat /\ f \in Nat /\ f < c
  BY KindIs
<1>5. Meets(q) = Occurs(buf, S) /\ Meets(q) \subseteq Nat BY <1>2 DEF Meets, Occurs
<1> HIDE DEF S, n
<1>6. e \in Int /\ e <= b /\ (i < c => (i + n <= e <=> i + n <= b)) /\ (e < f => b < f)
  BY <1>3, <1>4 DEF ScanEnd
<1> HIDE DEF e
<1>7. CASE f <= e
  <2>1. m \in Nat /\ f + m = e /\ f + m <= Len(buf) BY <1>4, <1>6, <1>7
  <2> HIDE DEF m
  <2>2. hay = Piece(buf, f, m) BY <2>1 DEF Piece
  <2>3. hay \in Seq(Bytes) BY <1>4, <2>1, <2>2, PartIs DEF Piece
  <2> HIDE DEF hay
  <2>4. RFindIter(hay, S) = Occurs(hay, S) BY <1>3, <2>3, FindsAllBack DEF n
  <2>5. \A p \in Nat : p \in Occurs(hay, S) <=> f + p \in Meets(q) /\ p + n <= m
    <3> TAKE p \in Nat
    <3>1. p \in Occurs(Folded(q, Piece(buf, f, m)), S)
             <=> f + p \in Occurs(Folded(q, buf), S) /\ p + Len(S) <= m
      BY <1>3, <1>4, <2>1, OccursIn
    <3> QED BY <1>2, <1>5, <2>2, <3>1 DEF n
  <2>6. Occurs(hay, S) \subseteq Nat BY DEF Occurs
  <2> DEFINE G == {f + p : p \in RFindIter(hay, S)}
  <2>7. ASSUME i \in G, i < c PROVE i \in Meets(q) /\ f <= i /\ i + n <= b
    <3>1. PICK p \in Occurs(hay, S) : i = f + p BY <2>4, <2>7
    <3>2. p \in Nat /\ i \in Meets(q) /\ p + n <= m BY <2>5, <2>6, <3>1
    <3>3. f <= i /\ i + n <= e BY <1>3, <1>4, <1>6, <2>1, <3>1, <3>2
    <3> QED BY <1>6, <2>7, <3>2, <3>3
  <2>8. ASSUME i \in Meets(q), f <= i, i < c, i + n <= b PROVE i \in G
    <3>1. j \in Nat /\ f + j = i /\ j + n <= m BY <1>3, <1>4, <1>6, <2>1, <2>8
    <3> HIDE DEF j
    <3>2. j \in Occurs(hay, S) BY <2>5, <2>8, <3>1
    <3> QED BY <2>4, <3>1, <3>2
  <2> HIDE DEF G
  <2>9. (i \in G /\ i < c) <=> (i \in Meets(q) /\ f <= i /\ i < c /\ i + n <= b) BY <2>7, <2>8
  <2> QED BY <2>9 DEF G, hay, e, n, S
<1>8. CASE ~(f <= e)
  <2>1. e < f BY <1>4, <1>6, <1>8
  <2>2. hay = <<>> BY <1>4, <1>6, <2>1
  <2> HIDE DEF hay
  <2>3. hay \in Seq(Bytes) /\ Len(hay) = 0 BY <2>2
  <2>4. RFindIter(hay, S) = Occurs(hay, S) BY <1>3, <2>3, FindsAllBack DEF n
  <2>5. Occurs(hay, S) = {}
    <3>1. \A p \in Nat : ~(p + n <= 0) BY <1>3
    <3> QED BY <2>3, <3>1 DEF Occurs, n
  <2>6. ~(f <= i /\ i + n <= b) BY <1>3, <1>4, <1>6, <2>1
  <2> DEFINE G == {f + p : p \in RFindIter(hay, S)}
  <2>7. G = {} BY <2>4, <2>5
  <2> HIDE DEF G
  <2>8. (i \in G /\ i < c) <=> (i \in Meets(q) /\ f <= i /\ i < c /\ i + n <= b) BY <2>6, <2>7
  <2> QED BY <2>8 DEF G, hay, e, n, S
<1> QED BY <1>7, <1>8

LEMMA PrevLiteralIs ==
    ASSUME SearchIInv, NEW q, Plain(q), NEW found, Scanned(found, q), NEW b \in 0 .. Len(buf),
           MatchPlan(q) = "literal"
    PROVE  FindPrev(q, b) = LastOf({x \in AllHits(found) : x.at + x.len <= b})
<1> DEFINE needle == NeedleBytes(q)
           n == Len(needle)
           N == Len(buf)
           A == AllHits(found)
           start(c) == IF c > PrevChunk THEN c - PrevChunk ELSE 0
           good(c) == {[at |-> p, len |-> n] :
                         p \in {i \in {start(c) + p : p \in RFindIter(SubSeq(buf, start(c) + 1, ScanEnd(c, n, b)), needle)} :
                                  i < c /\ InLine(q, i, n)}}
           R(g, c) == IF c = 0 THEN None
                      ELSE Of(LAMBDA hits : IF hits # {} THEN LastOf(hits) ELSE g[start(c)], good(c))
           Runs1(g) == g = [c \in 0 .. Len(buf) |-> R(g, c)]
           f == CHOOSE g : Runs1(g)
           Upto(c) == {x \in A : x.at < c /\ x.at + x.len <= b}
           w == [c \in 0 .. N |-> LastOf(Upto(c))]
<1>1. q \in Queries /\ q.enc = enc /\ ~Overlaps(q) /\ ~Breaks(q) /\ ~Torn BY DEF Plain
<1>2. ~q.fold BY DEF MatchPlan
<1>3. FindPrev(q, b) = f[b]
  <2>1. FindPrev(q, b) = PrevLiteral(q, b) BY DEF FindPrev
  <2>2. PrevLiteral(q, b) = f[b] BY DEF PrevLiteral
  <2> QED BY <2>1, <2>2
<1>4. N \in Nat /\ b \in Nat /\ b <= N BY KindIs
<1>5. n \in Nat /\ n >= 1 BY <1>1, SoughtIs
<1>6. A = {HitAt(q, p) : p \in Spots(q)}
  <2>1. \A raw \in Seq(Bytes) : found[raw] = LineHits(q, raw) BY DEF Scanned
  <2>2. MatchPlan(q) # "decode" OBVIOUS
  <2> HIDE DEF f
  <2> QED BY <1>1, <2>1, <2>2, LinesFind DEF AllHits
<1>7. Apart(A) /\ Within(A, 0, N) BY <1>1, AllAre
<1>8. \A p : [at |-> p, len |-> n] = HitAt(q, p) /\ HitAt(q, p).at = p /\ HitAt(q, p).len = n BY DEF HitAt
<1>9. \A c \in 1 .. N : start(c) \in 0 .. c - 1 BY StridesAssumption
<1>10. \A p \in Spots(q) : p \in Nat /\ p \in Meets(q) /\ InLine(q, p, n)
  <2> TAKE p \in Spots(q)
  <2>1. p \in Nat BY <1>1, SpotsIn
  <2> QED BY <2>1 DEF Spots
<1>11. ASSUME NEW c \in 1 .. N PROVE good(c) = {x \in A : start(c) <= x.at /\ x.at < c /\ x.at + x.len <= b}
  <2> DEFINE s == start(c)
             Q == {s + p : p \in RFindIter(SubSeq(buf, s + 1, ScanEnd(c, n, b)), needle)}
             I == {i \in Q : i < c /\ InLine(q, i, n)}
             G == {[at |-> p, len |-> n] : p \in I}
             H == {x \in A : s <= x.at /\ x.at < c /\ x.at + x.len <= b}
  <2>1. s \in 0 .. c - 1 BY <1>9
  <2>2. c \in 1 .. Len(buf) OBVIOUS
  <2>3. good(c) = G OBVIOUS
  <2> HIDE DEF f, start, s, A
  <2>4. \A i \in Nat : (i \in Q /\ i < c) <=> (i \in Meets(q) /\ s <= i /\ i < c /\ i + n <= b)
    BY <1>2, <2>1, <2>2, ChunkFinds
  <2>5. Q \subseteq Nat
    <3> DEFINE e == ScanEnd(c, n, b)
               hay == SubSeq(buf, s + 1, e)
    <3>1. needle \in Seq(Bytes) /\ Len(needle) >= 1 /\ Lonely(needle)
      <4>1. Sought(q) = needle BY <1>2 DEF Sought, Folded
      <4> QED BY <1>1, <4>1, SoughtIs, LonelyIs
    <3>2. hay \in Seq(Bytes)
      <4>1. buf \in Seq(Bytes) /\ s \in Nat BY <2>1, KindIs
      <4>2. e \in Int /\ e <= Len(buf)
        <5> HIDE DEF n
        <5> QED BY <1>4, <1>5, <2>2 DEF ScanEnd
      <4> HIDE DEF e
      <4>3. CASE e < s
        <5>1. hay = <<>> BY <4>1, <4>2, <4>3
        <5> HIDE DEF hay
        <5> QED BY <5>1
      <4>4. CASE ~(e < s)
        <5> DEFINE m == e - s
        <5>1. m \in Nat /\ s + m = e /\ s + m <= Len(buf) BY <4>1, <4>2, <4>4
        <5> HIDE DEF m
        <5>2. SubSeq(buf, s + 1, s + m) \in Seq(Bytes) BY <4>1, <5>1, PartIs
        <5> QED BY <5>1, <5>2
      <4> QED BY <4>3, <4>4
    <3> HIDE DEF hay
    <3>3. RFindIter(hay, needle) = Occurs(hay, needle) BY <3>1, <3>2, FindsAllBack
    <3>4. RFindIter(hay, needle) \subseteq Nat BY <3>3 DEF Occurs
    <3>5. s \in Nat BY <2>1
    <3> QED BY <3>4, <3>5 DEF hay
  <2> HIDE DEF Q, n
  <2>6. \A i : i \in I <=> i \in Spots(q) /\ s <= i /\ i < c /\ i + n <= b
    <3> TAKE i
    <3>1. ASSUME i \in I PROVE i \in Spots(q) /\ s <= i /\ i < c /\ i + n <= b
      <4>1. i \in Nat /\ i \in Q /\ i < c /\ InLine(q, i, n) BY <2>5, <3>1
      <4>2. i \in Meets(q) /\ s <= i /\ i < c /\ i + n <= b BY <2>4, <4>1
      <4> QED BY <4>1, <4>2 DEF Spots, n
    <3>2. ASSUME i \in Spots(q), s <= i, i < c, i + n <= b PROVE i \in I
      <4>1. i \in Nat /\ i \in Meets(q) /\ InLine(q, i, n) BY <1>10, <3>2
      <4>2. i \in Q BY <2>4, <3>2, <4>1
      <4> QED BY <3>2, <4>1, <4>2
    <3> QED BY <3>1, <3>2
  <2>7. \A x : x \in G <=> \E p \in I : x = HitAt(q, p) BY <1>8
  <2> HIDE DEF I, G
  <2>8. ASSUME NEW x \in G PROVE x \in H
    <3>1. PICK p \in I : x = HitAt(q, p) BY <2>7
    <3>2. x.at = p /\ x.len = n BY <1>8, <3>1
    <3>3. p \in Spots(q) /\ s <= p /\ p < c /\ p + n <= b BY <2>6
    <3> QED BY <1>6, <3>1, <3>2, <3>3
  <2>9. ASSUME NEW x \in H PROVE x \in G
    <3>1. PICK p \in Spots(q) : x = HitAt(q, p) BY <1>6
    <3>2. x.at = p /\ x.len = n BY <1>8, <3>1
    <3>3. p \in I BY <2>6, <3>2
    <3> QED BY <2>7, <3>1, <3>3
  <2> HIDE DEF H
  <2>10. G = H BY <2>8, <2>9
  <2> QED BY <2>3, <2>10 DEF H, s
<1>12. \A g, c : R(g, c) = IF c = 0 THEN None
                           ELSE IF good(c) # {} THEN LastOf(good(c)) ELSE g[start(c)]
  <2> HIDE DEF good, start, f
  <2> QED BY OnlyOne DEF Of
<1> HIDE DEF f, A, n, start, good, R
<1>13. Upto(0) = {} /\ \A c : Within(Upto(c), 0, N) /\ Apart(Upto(c)) /\ Numbered(Upto(c))
  BY <1>7 DEF Within, Apart, Numbered
<1>14. ASSUME NEW c \in 1 .. N
       PROVE  LastOf(Upto(c)) = IF good(c) # {} THEN LastOf(good(c)) ELSE LastOf(Upto(start(c)))
  <2>1. start(c) \in 0 .. c - 1 BY <1>9
  <2> DEFINE s == start(c)
             G == {x \in A : s <= x.at /\ x.at < c /\ x.at + x.len <= b}
  <2>2. good(c) = G BY <1>11
  <2> HIDE DEF s
  <2>3. \A x \in Upto(c) : x \in Upto(s) \/ x \in G
    <3> TAKE x \in Upto(c)
    <3>1. x \in A /\ x.at \in Int /\ s \in Int BY <1>7, <2>1 DEF Within, s
    <3> QED BY <3>1
  <2>4. G \subseteq Upto(c) /\ \A x \in G : s <= x.at /\ x.at \in Int BY <1>7 DEF Within
  <2>5. \A x \in Upto(s) : x.at < s /\ x.at \in Int BY <1>7 DEF Within
  <2>6. CASE G = {}
    <3>1. \A x \in Upto(s) : x \in Upto(c)
      <4> TAKE x \in Upto(s)
      <4>1. x \in A /\ x.at \in Int /\ s \in Int /\ s < c /\ c \in Int BY <1>7, <2>1 DEF Within, s
      <4> QED BY <4>1
    <3>2. Upto(c) = Upto(s)
      <4> HIDE DEF Upto, G
      <4> QED BY <2>3, <2>6, <3>1
    <3> QED BY <2>2, <2>6, <3>2 DEF s
  <2>7. CASE G # {}
    <3>1. Apart(G) /\ Within(G, 0, N) /\ Numbered(G) BY <1>7 DEF Within, Apart, Numbered
    <3> HIDE DEF Upto, G
    <3>2. PICK m \in G : \A y \in G : y.at <= m.at BY <1>4, <2>7, <3>1, HasLast
    <3>3. \A y \in Upto(c) : y.at <= m.at
      <4> TAKE y \in Upto(c)
      <4>1. CASE y \in G BY <3>2, <4>1
      <4>2. CASE y \in Upto(s)
        <5>1. y.at < s /\ y.at \in Int /\ s <= m.at /\ m.at \in Int /\ s \in Int BY <2>1, <2>4, <2>5, <4>2 DEF s
        <5> QED BY <5>1
      <4> QED BY <2>3, <4>1, <4>2
    <3>4. m \in Upto(c) BY <2>4
    <3>5. LastOf(Upto(c)) = m BY <1>13, <3>3, <3>4, LastOfIs
    <3>6. LastOf(G) = m BY <3>1, <3>2, LastOfIs
    <3> QED BY <2>2, <2>7, <3>5, <3>6
  <2> QED BY <2>6, <2>7
<1> HIDE DEF Upto
<1>15. ASSUME NEW c \in 0 .. N
       PROVE  LastOf(Upto(c)) = IF c = 0 THEN None
                                ELSE IF good(c) # {} THEN LastOf(good(c)) ELSE LastOf(Upto(start(c)))
  <2>1. CASE c = 0 BY <1>13, <2>1, NoneOf
  <2>2. CASE c # 0
    <3>1. c \in 1 .. N BY <1>4, <2>2
    <3> QED BY <1>14, <2>2, <3>1
  <2> QED BY <2>1, <2>2
<1>16. \A c \in 0 .. N : c # 0 => start(c) \in 0 .. N /\ start(c) < c
  <2> TAKE c \in 0 .. N
  <2> HAVE c # 0
  <2>1. c \in 1 .. N BY <1>4
  <2>2. start(c) \in 0 .. c - 1 BY <1>9, <2>1
  <2> QED BY <1>4, <2>2
<1>17. Runs1(w)
  <2>1. \A c \in 0 .. N : w[c] = R(w, c)
    <3> TAKE c \in 0 .. N
    <3>1. \A d \in 0 .. N : w[d] = LastOf(Upto(d)) OBVIOUS
    <3> HIDE DEF w, N
    <3>2. R(w, c) = IF c = 0 THEN None ELSE IF good(c) # {} THEN LastOf(good(c)) ELSE w[start(c)] BY <1>12
    <3> QED BY <1>15, <1>16, <3>1, <3>2
  <2>2. w = [c \in 0 .. N |-> w[c]] OBVIOUS
  <2> HIDE DEF w
  <2> QED BY <2>1, <2>2
<1>18. Runs1(f)
  <2> HIDE DEF w, Runs1
  <2> QED BY <1>17 DEF f
<1>19. \A c \in 0 .. N : f[c] = R(f, c) BY <1>18
<1> DEFINE B == {c \in 0 .. N : f[c] # LastOf(Upto(c))}
<1>20. B = {}
  <2> SUFFICES ASSUME B # {} PROVE FALSE OBVIOUS
  <2>1. B \subseteq Nat BY <1>4
  <2>2. PICK c \in B : \A d \in B : c <= d
    <3> HIDE DEF B
    <3>  QED BY <2>1, LeastOf
  <2>3. c \in 0 .. N /\ f[c] # LastOf(Upto(c)) OBVIOUS
  <2>4. \A d \in 0 .. N : d < c => f[d] = LastOf(Upto(d))
    <3> TAKE d \in 0 .. N
    <3> HAVE d < c
    <3>1. ~(c <= d) BY <2>3
    <3>2. d \notin B BY <2>2, <3>1
    <3> QED BY <3>2
  <2>5. f[c] = IF c = 0 THEN None ELSE IF good(c) # {} THEN LastOf(good(c)) ELSE f[start(c)]
    BY <1>12, <1>19, <2>3
  <2>6. c # 0 => f[start(c)] = LastOf(Upto(start(c))) BY <1>16, <2>3, <2>4
  <2> HIDE DEF B, N
  <2> QED BY <1>15, <2>3, <2>5, <2>6
<1>21. f[b] = LastOf(Upto(b)) BY <1>4, <1>20
<1>22. Upto(b) = {x \in A : x.at + x.len <= b}
  <2>1. \A x \in A : x.at + x.len <= b => x.at < b
    <3> TAKE x \in A
    <3>1. PICK p \in Spots(q) : x = HitAt(q, p) BY <1>6
    <3>2. x.at = p /\ x.len = n /\ p \in Nat BY <1>8, <1>10, <3>1
    <3> QED BY <1>4, <1>5, <3>2
  <2> QED BY <2>1 DEF Upto
<1> QED BY <1>3, <1>21, <1>22 DEF A

LEMMA PrevIs ==
    ASSUME SearchIInv, NEW q, Plain(q), NEW found, Scanned(found, q), NEW b \in 0 .. Len(buf)
    PROVE  FindPrev(q, b) = LastOf({x \in AllHits(found) : x.at + x.len <= b})
<1>1. MatchPlan(q) \in {"literal", "regex", "decode"} BY DEF MatchPlan
<1> QED BY <1>1, PrevDecoded, PrevRegex, PrevLiteralIs

-----------------------------------------------------------------------------
(* All ways to search agree.                                               *)

\* Whichever way a needle is looked for that does not overlap itself and has
\* no line break (find_next and find_prev from any byte, line_has_match,
\* analyze_rules carried along a growing file), the same hits are found.
THEOREM SearchersAgree == SearchSpec => []SearchesAgree
<1>1. SearchIInv /\ MergesExact => SearchesAgree
  <2> SUFFICES ASSUME SearchIInv, MergesExact, ~Torn, NEW q \in Comparable
               PROVE  \E all \in {Hits(q, 0)} :
                        /\ \A b \in 0 .. Len(buf) :
                            /\ FindNext(q, b) = FirstOf({x \in all : x.at >= b})
                            /\ FindPrev(q, b) = LastOf({x \in all : x.at + x.len <= b})
                        /\ \A i \in 0 .. idx.count - 1 :
                            LET r == LineRange(idx, buf, i) IN
                            LineHasMatch(q, Raw(r)) <=> \E x \in all : x.at \in r.from .. r.to - 1
                        /\ done[q].count = Cardinality(all) /\ done[q].hits = FirstHits(all, MaxHits)
    BY DEF SearchesAgree
  <2>1. Plain(q) /\ q \in Queries /\ q \in Ours BY DEF Comparable, Ours, Plain
  <2> DEFINE found == [raw \in Seq(Bytes) |-> LineHits(q, raw)]
             A == AllHits(found)
             zero == 0
  <2>2. Scanned(found, q) /\ \A raw \in Seq(Bytes) : found[raw] = LineHits(q, raw) BY DEF Scanned
  <2> HIDE DEF found
  <2>3. Hits(q, 0) = A
    <3>1. zero \in 0 .. Len(buf) BY KindIs
    <3> HIDE DEF zero
    <3>2. Hits(q, zero) = {x \in A : x.at >= zero} BY <2>1, <2>2, <3>1, HitsFrom
    <3>3. Within(A, 0, Len(buf)) BY <2>1, <2>2, AllAre
    <3> HIDE DEF A
    <3>4. \A x \in A : x.at >= zero BY <3>3 DEF Within, zero
    <3>5. Hits(q, zero) = A BY <3>2, <3>4
    <3> QED BY <3>5 DEF zero
  <2>4. ASSUME NEW b \in 0 .. Len(buf)
        PROVE  /\ FindNext(q, b) = FirstOf({x \in A : x.at >= b})
               /\ FindPrev(q, b) = LastOf({x \in A : x.at + x.len <= b})
    BY <2>1, <2>2, NextIs, PrevIs
  <2>5. ASSUME NEW i \in 0 .. idx.count - 1
        PROVE  LET r == LineRange(idx, buf, i) IN
               LineHasMatch(q, Raw(r)) <=> \E x \in A : x.at \in r.from .. r.to - 1
    BY <2>1, <2>2, GrepIs
  <2>6. done[q].count = Cardinality(A) /\ done[q].hits = FirstHits(A, MaxHits)
    <3> DEFINE u == Expanded(1, Len(buf))
               B == Between(found, idx, buf, zero, idx.count)
               tail == IF zero < idx.count THEN HitsOf(found, idx, buf, idx.count - 1) ELSE {}
    <3>1. done[q] = Analyzed(q, zero, u) BY <2>1 DEF MergesExact, Whole
    <3>2. zero \in Nat OBVIOUS
    <3> HIDE DEF zero, u
    <3>3. \E line, start, v : Analyzed(q, zero, u) = Summary(B, tail, line, start, v)
      <4> HIDE DEF B, tail
      <4> QED BY <2>2, <3>2, AnalyzedIs DEF B, tail
    <3> HIDE DEF tail, B
    <3>4. done[q].count = Cardinality(B) /\ done[q].hits = FirstHits(B, MaxHits)
      BY <3>1, <3>3 DEF Summary
    <3>5. A = B BY DEF A, B, AllHits, zero
    <3> QED BY <3>4, <3>5
  <2> HIDE DEF A
  <2> QED BY <2>3, <2>4, <2>5, <2>6
<1> QED BY <1>1, SearchInitIInv, SearchStepIInv, MergedIsWhole, PTL DEF SearchSpec
=============================================================================
