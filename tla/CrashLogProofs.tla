-------------------------- MODULE CrashLogProofs --------------------------
(***************************************************************************)
(* Proofs about CrashLog for every number of contents, generations, saves   *)
(* and every HistoryLimit.                                                  *)
(*                                                                         *)
(* The inductive invariant IInv says, part by part: what a session's        *)
(* generations mean, what a log replays to, that the writer's log mirrors   *)
(* the live session, and what a save and a compaction in flight remember.   *)
(***************************************************************************)
EXTENDS CrashLog, TLAPS

-----------------------------------------------------------------------------
(* Sessions.                                                               *)

Entries(s) ==
    {Here(s)} \cup {s.undo[i] : i \in 1..Len(s.undo)}
              \cup {s.redo[i] : i \in 1..Len(s.redo)}

\* Every generation is older than the next one and names one view.
Sane(s) ==
    /\ s \in Session(Contents)
    /\ Len(s.undo) <= HistoryLimit
    /\ Len(s.redo) <= HistoryLimit
    /\ s.saved_gen < s.next_gen
    /\ \A e \in Entries(s) : e.gen < s.next_gen
    /\ \A e, f \in Entries(s) : e.gen = f.gen => e.view = f.view

\* Whatever in s carries generation g shows v.
Pinned(s, g, v) == \A e \in Entries(s) : e.gen = g => e.view = v

-----------------------------------------------------------------------------
(* The log, and the session it mirrors.                                    *)

LogOK(l) ==
    /\ l \in Log(Contents)
    /\ Sane(l.replay)
    /\ Pinned(l.replay, l.replay.saved_gen, l.header.view)
    /\ ~l.txns => (l.effective <=> IsDirty(l.replay) \/ l.replay.view # l.header.view)

\* Two entries show the same and are both saved or both not.
Alike(e, r, f, s) ==
    /\ e.view = f.view
    /\ e.gen = r.saved_gen <=> f.gen = s.saved_gen

\* r's stack is what is left of s's when the older entries are forgotten.
Above(rstack, r, sstack, s) ==
    /\ Len(rstack) <= Len(sstack)
    /\ \A i \in 1..Len(rstack) : Alike(rstack[i], r, sstack[i], s)

Aligned(r, s) ==
    /\ Alike(Here(r), r, Here(s), s)
    /\ Above(r.undo, r, s.undo, s)
    /\ Above(r.redo, r, s.redo, s)

Mirrors(w, l, s) ==
    /\ l # None
    /\ l.header = w.header
    /\ w.replay_undo = Len(l.replay.undo)
    /\ w.replay_redo = Len(l.replay.redo)
    /\ Aligned(l.replay, s)

-----------------------------------------------------------------------------
(* The inductive invariant.                                                *)

Types ==
    /\ up \in BOOLEAN
    /\ file \in FileState
    /\ doc \in FileState
    /\ writer \in Writer \cup {None}
    /\ save \in Save \cup {None}
    /\ staged \in Staged \cup {None}
    /\ pending \in BOOLEAN

DownInv ==
    ~up => /\ writer = None
           /\ save = None
           /\ staged = None
           /\ pending = FALSE

SessionInv ==
    /\ Sane(session)
    /\ ~Swapped => Pinned(session, session.saved_gen, file.view)

\* An edit or a transition may make a streaming save stale; it then never lands.
SaveInv ==
    save # None =>
        /\ save.phase = "swapped" => file.view = save.view
        /\ ~(save.phase = "streaming" /\ save.raced) =>
              /\ save.gen < session.next_gen
              /\ Pinned(session, save.gen, save.view)
        /\ ~save.raced => session.view = save.view /\ session.content_gen = save.gen

\* Identities only grow, and the log never has the one a swap just made.
Older(header) ==
    /\ header.ver <= file.ver
    /\ Swapped => header.ver < file.ver

LogInv == log # None => LogOK(log) /\ Older(log.header)

WriterInv ==
    writer # None =>
        /\ Mirrors(writer, log, session)
        /\ ~Swapped => writer.header = file
        /\ AnchorBase(writer, doc) = writer.header.view
        /\ Pinned(session, session.saved_gen, writer.header.view)

StagedInv ==
    staged # None =>
        /\ Older(staged.header)
        /\ ~staged.raced =>
              /\ staged.view = session.view
              /\ staged.on = staged.header.view
              /\ staged.header = file \/ (writer # None /\ staged.header = writer.header)
                    => staged.dirty = IsDirty(session)

PendingInv ==
    pending =>
        /\ writer = None
        /\ staged = None
        /\ log # None /\ log.header = file => doc = file

IInv ==
    /\ Types
    /\ DownInv
    /\ SessionInv
    /\ SaveInv
    /\ LogInv
    /\ WriterInv
    /\ StagedInv
    /\ PendingInv

-----------------------------------------------------------------------------
(* Stacks.                                                                 *)

\* Push puts e on top, moves the rest down and forgets what does not fit.
LEMMA PushFacts ==
    ASSUME NEW S, NEW stack \in Seq(S), NEW e \in S
    PROVE  /\ Push(stack, e) \in Seq(S)
           /\ Len(Push(stack, e)) =
                IF Len(stack) < HistoryLimit THEN Len(stack) + 1 ELSE Len(stack)
           /\ \A i \in 1..Len(Push(stack, e)) :
                Push(stack, e)[i] = IF i = 1 THEN e ELSE stack[i - 1]
<1> DEFINE n == IF Len(stack) < HistoryLimit THEN Len(stack) + 1 ELSE Len(stack)
<1>1. n \in Nat
  BY HistoryLimitAssumption
<1>2. \A i \in 1..n : (IF i = 1 THEN e ELSE stack[i - 1]) \in S
  BY HistoryLimitAssumption
<1>3. Push(stack, e) = [i \in 1..n |-> IF i = 1 THEN e ELSE stack[i - 1]]
  BY DEF Push
<1> QED
  BY <1>1, <1>2, <1>3

\* Pop takes the top off.
LEMMA PopFacts ==
    ASSUME NEW S, NEW stack \in Seq(S), stack # <<>>
    PROVE  /\ Pop(stack) \in Seq(S)
           /\ Len(Pop(stack)) = Len(stack) - 1
           /\ \A i \in 1..Len(Pop(stack)) : Pop(stack)[i] = stack[i + 1]
           /\ stack[1] \in S
           /\ Len(stack) > 0
<1>1. Len(stack) \in Nat \ {0}
  OBVIOUS
<1>2. \A i \in 1..(Len(stack) - 1) : stack[i + 1] \in S
  BY <1>1
<1> QED
  BY <1>1, <1>2 DEF Pop

\* Both keep a stack within HistoryLimit and inside any set T it lies in.
LEMMA PushWithin ==
    ASSUME NEW S, NEW stack \in Seq(S), NEW e \in S, Len(stack) <= HistoryLimit,
           NEW T, e \in T, \A i \in 1..Len(stack) : stack[i] \in T
    PROVE  /\ Push(stack, e) \in Seq(S)
           /\ Len(Push(stack, e)) <= HistoryLimit
           /\ Len(Push(stack, e)) = Capped(Len(stack) + 1)
           /\ \A i \in 1..Len(Push(stack, e)) : Push(stack, e)[i] \in T
<1>1. Len(stack) \in Nat /\ HistoryLimit \in Nat \ {0}
  BY HistoryLimitAssumption
<1>2. /\ Push(stack, e) \in Seq(S)
      /\ Len(Push(stack, e)) =
            IF Len(stack) < HistoryLimit THEN Len(stack) + 1 ELSE Len(stack)
      /\ \A i \in 1..Len(Push(stack, e)) :
            Push(stack, e)[i] = IF i = 1 THEN e ELSE stack[i - 1]
  BY PushFacts
<1>3. /\ Len(Push(stack, e)) <= HistoryLimit
      /\ Len(Push(stack, e)) = Capped(Len(stack) + 1)
  BY <1>1, <1>2 DEF Capped
<1>4. ASSUME NEW i \in 1..Len(Push(stack, e)) PROVE Push(stack, e)[i] \in T
  <2>1. CASE i = 1
    BY <1>2, <2>1
  <2>2. CASE i # 1
    <3>1. i - 1 \in 1..Len(stack)
      BY <1>1, <1>2, <2>2
    <3> QED
      BY <1>2, <2>2, <3>1
  <2> QED
    BY <2>1, <2>2
<1> QED
  BY <1>2, <1>3, <1>4

LEMMA PopWithin ==
    ASSUME NEW S, NEW stack \in Seq(S), stack # <<>>, Len(stack) <= HistoryLimit,
           NEW T, \A i \in 1..Len(stack) : stack[i] \in T
    PROVE  /\ Pop(stack) \in Seq(S)
           /\ Len(Pop(stack)) <= HistoryLimit
           /\ Len(Pop(stack)) = Len(stack) - 1
           /\ Len(stack) \in Nat \ {0}
           /\ stack[1] \in S \cap T
           /\ \A i \in 1..Len(Pop(stack)) : Pop(stack)[i] \in T
<1>1. /\ Len(stack) \in Nat \ {0}
      /\ Pop(stack) \in Seq(S)
      /\ Len(Pop(stack)) = Len(stack) - 1
      /\ \A i \in 1..Len(Pop(stack)) : Pop(stack)[i] = stack[i + 1]
      /\ stack[1] \in S
  BY PopFacts
<1>2. Len(Pop(stack)) <= HistoryLimit
  BY <1>1, HistoryLimitAssumption
<1>3. ASSUME NEW i \in 1..Len(Pop(stack)) PROVE Pop(stack)[i] \in T
  <2>1. i + 1 \in 1..Len(stack)
    BY <1>1
  <2> QED
    BY <1>1, <2>1
<1> QED
  BY <1>1, <1>2, <1>3

-----------------------------------------------------------------------------
(* Session operations keep a session sane, and pinned where it was.        *)

LEMMA SaneFields ==
    ASSUME NEW s, Sane(s)
    PROVE  /\ s.view \in Contents
           /\ s.content_gen \in Nat
           /\ s.next_gen \in Nat
           /\ s.saved_gen \in Nat
           /\ s.undo \in Seq(Entry(Contents))
           /\ s.redo \in Seq(Entry(Contents))
           /\ Len(s.undo) <= HistoryLimit
           /\ Len(s.redo) <= HistoryLimit
           /\ Here(s) \in Entry(Contents)
           /\ Here(s) \in Entries(s)
           /\ \A i \in 1..Len(s.undo) : s.undo[i] \in Entries(s)
           /\ \A i \in 1..Len(s.redo) : s.redo[i] \in Entries(s)
           /\ Entries(s) \subseteq Entry(Contents)
<1>1. s \in Session(Contents) /\ Len(s.undo) <= HistoryLimit /\ Len(s.redo) <= HistoryLimit
  BY DEF Sane
<1>2. /\ s.view \in Contents
      /\ s.content_gen \in Nat
      /\ s.next_gen \in Nat
      /\ s.saved_gen \in Nat
      /\ s.undo \in Seq(Entry(Contents))
      /\ s.redo \in Seq(Entry(Contents))
  BY <1>1 DEF Session
<1>3. Here(s) \in Entry(Contents)
  BY <1>2 DEF Here, Entry
<1>4. /\ \A i \in 1..Len(s.undo) : s.undo[i] \in Entry(Contents)
      /\ \A i \in 1..Len(s.redo) : s.redo[i] \in Entry(Contents)
  BY <1>2
<1>5. /\ Here(s) \in Entries(s)
      /\ \A i \in 1..Len(s.undo) : s.undo[i] \in Entries(s)
      /\ \A i \in 1..Len(s.redo) : s.redo[i] \in Entries(s)
  BY DEF Entries
<1>6. Entries(s) \subseteq Entry(Contents)
  BY <1>3, <1>4 DEF Entries
<1> QED
  BY <1>1, <1>2, <1>3, <1>5, <1>6

\* A session whose entries all lie in E has only entries of E.
LEMMA EntriesWithin ==
    ASSUME NEW s, NEW E, Here(s) \in E,
           \A i \in 1..Len(s.undo) : s.undo[i] \in E,
           \A i \in 1..Len(s.redo) : s.redo[i] \in E
    PROVE  Entries(s) \subseteq E
  BY DEF Entries

LEMMA ChangedFacts ==
    ASSUME NEW s, Sane(s), NEW v \in Contents
    PROVE  /\ Sane(Changed(s, v))
           /\ Entries(Changed(s, v)) \subseteq
                Entries(s) \cup {[view |-> v, gen |-> s.next_gen]}
           /\ Len(Changed(s, v).undo) = Capped(Len(s.undo) + 1)
<1> DEFINE t == Changed(s, v)
           new == [view |-> v, gen |-> s.next_gen]
           E == Entries(s) \cup {new}
<1>1. /\ t.view = v
      /\ t.content_gen = s.next_gen
      /\ t.next_gen = s.next_gen + 1
      /\ t.saved_gen = s.saved_gen
      /\ t.undo = Push(s.undo, Here(s))
      /\ t.redo = <<>>
      /\ Here(t) = new
  BY DEF Changed, Here
<1>2. /\ t.undo \in Seq(Entry(Contents))
      /\ Len(t.undo) <= HistoryLimit
      /\ Len(t.undo) = Capped(Len(s.undo) + 1)
      /\ \A i \in 1..Len(t.undo) : t.undo[i] \in E
  <2>1. \A i \in 1..Len(s.undo) : s.undo[i] \in E
    BY SaneFields
  <2>2. Here(s) \in E
    BY SaneFields
  <2> HIDE DEF E
  <2> QED
    BY <1>1, <2>1, <2>2, SaneFields, PushWithin
<1>3. t \in Session(Contents)
  BY <1>1, <1>2, SaneFields DEF Changed, Session
<1>4. Entries(t) \subseteq E
  <2>1. Len(t.redo) = 0
    BY <1>1
  <2> HIDE DEF t
  <2> QED
    BY <1>1, <1>2, <2>1 DEF Entries
<1>5. Sane(t)
  <2>1. /\ s.saved_gen < s.next_gen
        /\ \A e \in Entries(s) : e.gen \in Nat /\ e.gen < s.next_gen
        /\ \A e, f \in Entries(s) : e.gen = f.gen => e.view = f.view
        /\ s.next_gen \in Nat
        /\ s.saved_gen \in Nat
    BY SaneFields DEF Sane, Entry
  <2>2. \A e \in E : e.gen < s.next_gen + 1
    BY <2>1
  <2>3. \A e, f \in E : e.gen = f.gen => e.view = f.view
    BY <2>1
  <2>4. Len(t.redo) <= HistoryLimit
    BY <1>1, HistoryLimitAssumption
  <2> HIDE DEF t, E
  <2> QED
    BY <1>1, <1>2, <1>3, <1>4, <2>1, <2>2, <2>3, <2>4 DEF Sane
<1> QED
  BY <1>2, <1>4, <1>5

LEMMA UndoneFacts ==
    ASSUME NEW s, Sane(s), s.undo # <<>>
    PROVE  /\ Sane(Undone(s))
           /\ Entries(Undone(s)) \subseteq Entries(s)
           /\ Len(Undone(s).undo) = Len(s.undo) - 1
           /\ Len(Undone(s).redo) = Capped(Len(s.redo) + 1)
<1> DEFINE t == Undone(s)
           E == Entries(s)
<1>1. /\ t.view = s.undo[1].view
      /\ t.content_gen = s.undo[1].gen
      /\ t.next_gen = s.next_gen
      /\ t.saved_gen = s.saved_gen
      /\ t.undo = Pop(s.undo)
      /\ t.redo = Push(s.redo, Here(s))
  BY DEF Undone
<1>2. /\ t.undo \in Seq(Entry(Contents))
      /\ Len(t.undo) <= HistoryLimit
      /\ Len(t.undo) = Len(s.undo) - 1
      /\ s.undo[1] \in Entry(Contents)
      /\ s.undo[1] \in E
      /\ \A i \in 1..Len(t.undo) : t.undo[i] \in E
  <2>1. \A i \in 1..Len(s.undo) : s.undo[i] \in E
    BY SaneFields
  <2>2. s.undo \in Seq(Entry(Contents)) /\ Len(s.undo) <= HistoryLimit
    BY SaneFields
  <2> HIDE DEF t, E
  <2> QED
    BY <1>1, <2>1, <2>2, PopWithin
<1>3. /\ t.redo \in Seq(Entry(Contents))
      /\ Len(t.redo) <= HistoryLimit
      /\ Len(t.redo) = Capped(Len(s.redo) + 1)
      /\ \A i \in 1..Len(t.redo) : t.redo[i] \in E
  <2>1. /\ \A i \in 1..Len(s.redo) : s.redo[i] \in E
        /\ Here(s) \in E
    BY SaneFields
  <2>2. /\ s.redo \in Seq(Entry(Contents))
        /\ Len(s.redo) <= HistoryLimit
        /\ Here(s) \in Entry(Contents)
    BY SaneFields
  <2> HIDE DEF t, E
  <2>3. /\ Push(s.redo, Here(s)) \in Seq(Entry(Contents))
        /\ Len(Push(s.redo, Here(s))) <= HistoryLimit
        /\ Len(Push(s.redo, Here(s))) = Capped(Len(s.redo) + 1)
        /\ \A i \in 1..Len(Push(s.redo, Here(s))) : Push(s.redo, Here(s))[i] \in E
    BY <2>1, <2>2, PushWithin
  <2> QED
    BY <1>1, <2>3
<1>4. Here(t) = s.undo[1]
  BY <1>1, <1>2 DEF Here, Entry
<1>5. t \in Session(Contents)
  BY <1>1, <1>2, <1>3, SaneFields DEF Undone, Session, Entry
<1>6. Entries(t) \subseteq E
  <2> HIDE DEF t, E
  <2> QED
    BY <1>2, <1>3, <1>4, EntriesWithin
<1>7. Sane(t)
  <2> HIDE DEF t
  <2> QED
    BY <1>1, <1>2, <1>3, <1>5, <1>6 DEF Sane
<1> QED
  BY <1>2, <1>3, <1>6, <1>7

LEMMA RedoneFacts ==
    ASSUME NEW s, Sane(s), s.redo # <<>>
    PROVE  /\ Sane(Redone(s))
           /\ Entries(Redone(s)) \subseteq Entries(s)
           /\ Len(Redone(s).redo) = Len(s.redo) - 1
           /\ Len(Redone(s).undo) = Capped(Len(s.undo) + 1)
<1> DEFINE t == Redone(s)
           E == Entries(s)
<1>1. /\ t.view = s.redo[1].view
      /\ t.content_gen = s.redo[1].gen
      /\ t.next_gen = s.next_gen
      /\ t.saved_gen = s.saved_gen
      /\ t.redo = Pop(s.redo)
      /\ t.undo = Push(s.undo, Here(s))
  BY DEF Redone
<1>2. /\ t.redo \in Seq(Entry(Contents))
      /\ Len(t.redo) <= HistoryLimit
      /\ Len(t.redo) = Len(s.redo) - 1
      /\ s.redo[1] \in Entry(Contents)
      /\ s.redo[1] \in E
      /\ \A i \in 1..Len(t.redo) : t.redo[i] \in E
  <2>1. \A i \in 1..Len(s.redo) : s.redo[i] \in E
    BY SaneFields
  <2>2. s.redo \in Seq(Entry(Contents)) /\ Len(s.redo) <= HistoryLimit
    BY SaneFields
  <2> HIDE DEF t, E
  <2> QED
    BY <1>1, <2>1, <2>2, PopWithin
<1>3. /\ t.undo \in Seq(Entry(Contents))
      /\ Len(t.undo) <= HistoryLimit
      /\ Len(t.undo) = Capped(Len(s.undo) + 1)
      /\ \A i \in 1..Len(t.undo) : t.undo[i] \in E
  <2>1. /\ \A i \in 1..Len(s.undo) : s.undo[i] \in E
        /\ Here(s) \in E
    BY SaneFields
  <2>2. /\ s.undo \in Seq(Entry(Contents))
        /\ Len(s.undo) <= HistoryLimit
        /\ Here(s) \in Entry(Contents)
    BY SaneFields
  <2> HIDE DEF t, E
  <2>3. /\ Push(s.undo, Here(s)) \in Seq(Entry(Contents))
        /\ Len(Push(s.undo, Here(s))) <= HistoryLimit
        /\ Len(Push(s.undo, Here(s))) = Capped(Len(s.undo) + 1)
        /\ \A i \in 1..Len(Push(s.undo, Here(s))) : Push(s.undo, Here(s))[i] \in E
    BY <2>1, <2>2, PushWithin
  <2> QED
    BY <1>1, <2>3
<1>4. Here(t) = s.redo[1]
  BY <1>1, <1>2 DEF Here, Entry
<1>5. t \in Session(Contents)
  BY <1>1, <1>2, <1>3, SaneFields DEF Redone, Session, Entry
<1>6. Entries(t) \subseteq E
  <2> HIDE DEF t, E
  <2> QED
    BY <1>2, <1>3, <1>4, EntriesWithin
<1>7. Sane(t)
  <2> HIDE DEF t
  <2> QED
    BY <1>1, <1>2, <1>3, <1>5, <1>6 DEF Sane
<1> QED
  BY <1>2, <1>3, <1>6, <1>7

\* A session with an empty history, such as Fresh(v) and Restored(v, dirty).
LEMMA NoHistorySane ==
    ASSUME NEW s \in Session(Contents), s.undo = <<>>, s.redo = <<>>,
           s.saved_gen < s.next_gen, s.content_gen < s.next_gen
    PROVE  /\ Sane(s)
           /\ Entries(s) = {Here(s)}
<1>1. Len(s.undo) = 0 /\ Len(s.redo) = 0
  OBVIOUS
<1>2. Entries(s) = {Here(s)}
  BY <1>1 DEF Entries
<1>3. Here(s).gen = s.content_gen
  BY DEF Here
<1> QED
  BY <1>1, <1>2, <1>3, HistoryLimitAssumption DEF Sane

LEMMA FreshFacts ==
    ASSUME NEW v \in Contents
    PROVE  /\ Sane(Fresh(v))
           /\ Pinned(Fresh(v), Fresh(v).saved_gen, v)
<1>1. Fresh(v) \in Session(Contents)
  BY DEF Fresh, Session
<1>2. /\ Fresh(v).undo = <<>>
      /\ Fresh(v).redo = <<>>
      /\ Fresh(v).saved_gen < Fresh(v).next_gen
      /\ Fresh(v).content_gen < Fresh(v).next_gen
      /\ Here(Fresh(v)).view = v
  BY DEF Fresh, Here
<1> QED
  BY <1>1, <1>2, NoHistorySane DEF Pinned

LEMMA RestoredFacts ==
    ASSUME NEW v \in Contents, NEW dirty \in BOOLEAN
    PROVE  /\ Sane(Restored(v, dirty))
           /\ IsDirty(Restored(v, dirty)) <=> dirty
           /\ \A w : (~dirty => w = v) => Pinned(Restored(v, dirty), 0, w)
<1> DEFINE s == Restored(v, dirty)
<1>1. /\ s \in Session(Contents)
      /\ s.undo = <<>>
      /\ s.redo = <<>>
      /\ s.saved_gen < s.next_gen
      /\ s.content_gen < s.next_gen
      /\ Here(s) = [view |-> v, gen |-> IF dirty THEN 1 ELSE 0]
  BY DEF Restored, Session, Here
<1>2. Sane(s) /\ Entries(s) = {Here(s)}
  <2> HIDE DEF s
  <2> QED
    BY <1>1, NoHistorySane
<1>3. IsDirty(s) <=> dirty
  BY DEF IsDirty, Restored
<1>4. \A w : (~dirty => w = v) => Pinned(s, 0, w)
  BY <1>1, <1>2 DEF Pinned
<1> QED
  BY <1>2, <1>3, <1>4

-----------------------------------------------------------------------------
(* Doing the same to two aligned sessions keeps them aligned.              *)

LEMMA AboveSameSaved ==
    ASSUME NEW r, NEW s, NEW r2, NEW s2, NEW rstack, NEW sstack,
           r2.saved_gen = r.saved_gen, s2.saved_gen = s.saved_gen,
           Above(rstack, r, sstack, s)
    PROVE  Above(rstack, r2, sstack, s2)
  BY DEF Above, Alike

LEMMA AbovePush ==
    ASSUME NEW S, NEW rstack \in Seq(S), NEW sstack \in Seq(S), NEW e \in S, NEW f \in S,
           NEW r, NEW s, Above(rstack, r, sstack, s), Alike(e, r, f, s)
    PROVE  Above(Push(rstack, e), r, Push(sstack, f), s)
<1>1. /\ Len(Push(rstack, e)) =
            IF Len(rstack) < HistoryLimit THEN Len(rstack) + 1 ELSE Len(rstack)
      /\ \A i \in 1..Len(Push(rstack, e)) :
            Push(rstack, e)[i] = IF i = 1 THEN e ELSE rstack[i - 1]
  BY PushFacts
<1>2. /\ Len(Push(sstack, f)) =
            IF Len(sstack) < HistoryLimit THEN Len(sstack) + 1 ELSE Len(sstack)
      /\ \A i \in 1..Len(Push(sstack, f)) :
            Push(sstack, f)[i] = IF i = 1 THEN f ELSE sstack[i - 1]
  BY PushFacts
<1>3. Len(rstack) \in Nat /\ Len(sstack) \in Nat /\ Len(rstack) <= Len(sstack)
  BY DEF Above
<1>4. Len(Push(rstack, e)) <= Len(Push(sstack, f))
  BY <1>1, <1>2, <1>3, HistoryLimitAssumption
<1>5. ASSUME NEW i \in 1..Len(Push(rstack, e))
      PROVE  Alike(Push(rstack, e)[i], r, Push(sstack, f)[i], s)
  <2>1. i \in 1..Len(Push(sstack, f))
    BY <1>1, <1>2, <1>3, <1>4, HistoryLimitAssumption
  <2>2. CASE i = 1
    BY <1>1, <1>2, <2>1, <2>2
  <2>3. CASE i # 1
    <3>1. i - 1 \in 1..Len(rstack)
      BY <1>1, <1>3, <2>3, HistoryLimitAssumption
    <3>2. Alike(rstack[i - 1], r, sstack[i - 1], s)
      BY <3>1 DEF Above
    <3> QED
      BY <1>1, <1>2, <2>1, <2>3, <3>2
  <2> QED
    BY <2>2, <2>3
<1> QED
  BY <1>4, <1>5 DEF Above

LEMMA AbovePop ==
    ASSUME NEW S, NEW rstack \in Seq(S), NEW sstack \in Seq(S), NEW r, NEW s,
           rstack # <<>>, Above(rstack, r, sstack, s)
    PROVE  /\ sstack # <<>>
           /\ Alike(rstack[1], r, sstack[1], s)
           /\ Above(Pop(rstack), r, Pop(sstack), s)
<1>1. /\ Len(rstack) \in Nat \ {0}
      /\ Len(sstack) \in Nat
      /\ Len(rstack) <= Len(sstack)
      /\ \A i \in 1..Len(rstack) : Alike(rstack[i], r, sstack[i], s)
  BY DEF Above
<1>2. sstack # <<>> /\ 1 \in 1..Len(rstack)
  BY <1>1
<1>3. /\ Len(Pop(rstack)) = Len(rstack) - 1
      /\ \A i \in 1..Len(Pop(rstack)) : Pop(rstack)[i] = rstack[i + 1]
  BY PopFacts
<1>4. /\ Len(Pop(sstack)) = Len(sstack) - 1
      /\ \A i \in 1..Len(Pop(sstack)) : Pop(sstack)[i] = sstack[i + 1]
  BY <1>2, PopFacts
<1>5. ASSUME NEW i \in 1..Len(Pop(rstack))
      PROVE  Alike(Pop(rstack)[i], r, Pop(sstack)[i], s)
  <2>1. i + 1 \in 1..Len(rstack) /\ i \in 1..Len(Pop(sstack))
    BY <1>1, <1>3, <1>4
  <2>2. Alike(rstack[i + 1], r, sstack[i + 1], s)
    BY <1>1, <2>1
  <2> QED
    BY <1>3, <1>4, <2>1, <2>2
<1>6. Len(Pop(rstack)) <= Len(Pop(sstack))
  BY <1>1, <1>3, <1>4
<1> QED
  BY <1>1, <1>2, <1>5, <1>6 DEF Above

LEMMA AlignedChanged ==
    ASSUME NEW r, NEW s, Sane(r), Sane(s), Aligned(r, s), NEW v \in Contents
    PROVE  Aligned(Changed(r, v), Changed(s, v))
<1> DEFINE r2 == Changed(r, v)
           s2 == Changed(s, v)
<1>1. /\ r2.saved_gen = r.saved_gen
      /\ s2.saved_gen = s.saved_gen
      /\ r2.undo = Push(r.undo, Here(r))
      /\ s2.undo = Push(s.undo, Here(s))
      /\ r2.redo = <<>>
      /\ s2.redo = <<>>
      /\ Here(r2) = [view |-> v, gen |-> r.next_gen]
      /\ Here(s2) = [view |-> v, gen |-> s.next_gen]
  BY DEF Changed, Here
<1>2. /\ r.saved_gen \in Nat /\ r.next_gen \in Nat /\ r.saved_gen < r.next_gen
      /\ s.saved_gen \in Nat /\ s.next_gen \in Nat /\ s.saved_gen < s.next_gen
  BY SaneFields DEF Sane
<1> HIDE DEF r2, s2
<1>3. Alike(Here(r2), r2, Here(s2), s2)
  BY <1>1, <1>2 DEF Alike
<1>4. Above(r2.undo, r, s2.undo, s)
  <2>1. /\ r.undo \in Seq(Entry(Contents))
        /\ s.undo \in Seq(Entry(Contents))
        /\ Here(r) \in Entry(Contents)
        /\ Here(s) \in Entry(Contents)
    BY SaneFields
  <2>2. Above(r.undo, r, s.undo, s) /\ Alike(Here(r), r, Here(s), s)
    BY DEF Aligned
  <2> QED
    BY <1>1, <2>1, <2>2, AbovePush
<1>5. Above(r2.undo, r2, s2.undo, s2)
  BY <1>1, <1>4, AboveSameSaved
<1>6. Above(r2.redo, r2, s2.redo, s2)
  BY <1>1 DEF Above
<1> QED
  BY <1>3, <1>5, <1>6 DEF Aligned, r2, s2

LEMMA AlignedUndone ==
    ASSUME NEW r, NEW s, Sane(r), Sane(s), Aligned(r, s), r.undo # <<>>
    PROVE  s.undo # <<>> /\ Aligned(Undone(r), Undone(s))
<1> DEFINE r2 == Undone(r)
           s2 == Undone(s)
<1>1. /\ r2.saved_gen = r.saved_gen
      /\ s2.saved_gen = s.saved_gen
      /\ r2.undo = Pop(r.undo)
      /\ s2.undo = Pop(s.undo)
      /\ r2.redo = Push(r.redo, Here(r))
      /\ s2.redo = Push(s.redo, Here(s))
      /\ Here(r2) = [view |-> r.undo[1].view, gen |-> r.undo[1].gen]
      /\ Here(s2) = [view |-> s.undo[1].view, gen |-> s.undo[1].gen]
  BY DEF Undone, Here
<1>2. /\ r.undo \in Seq(Entry(Contents))
      /\ s.undo \in Seq(Entry(Contents))
      /\ r.redo \in Seq(Entry(Contents))
      /\ s.redo \in Seq(Entry(Contents))
      /\ Here(r) \in Entry(Contents)
      /\ Here(s) \in Entry(Contents)
  BY SaneFields
<1>3. /\ Alike(Here(r), r, Here(s), s)
      /\ Above(r.undo, r, s.undo, s)
      /\ Above(r.redo, r, s.redo, s)
  BY DEF Aligned
<1>4. /\ s.undo # <<>>
      /\ Alike(r.undo[1], r, s.undo[1], s)
      /\ Above(Pop(r.undo), r, Pop(s.undo), s)
  BY <1>2, <1>3, AbovePop
<1>5. Above(Push(r.redo, Here(r)), r, Push(s.redo, Here(s)), s)
  BY <1>2, <1>3, AbovePush
<1> HIDE DEF r2, s2
<1>6. Alike(Here(r2), r2, Here(s2), s2)
  BY <1>1, <1>4 DEF Alike
<1>7. Above(r2.undo, r2, s2.undo, s2) /\ Above(r2.redo, r2, s2.redo, s2)
  BY <1>1, <1>4, <1>5, AboveSameSaved
<1> QED
  BY <1>4, <1>6, <1>7 DEF Aligned, r2, s2

LEMMA AlignedRedone ==
    ASSUME NEW r, NEW s, Sane(r), Sane(s), Aligned(r, s), r.redo # <<>>
    PROVE  s.redo # <<>> /\ Aligned(Redone(r), Redone(s))
<1> DEFINE r2 == Redone(r)
           s2 == Redone(s)
<1>1. /\ r2.saved_gen = r.saved_gen
      /\ s2.saved_gen = s.saved_gen
      /\ r2.redo = Pop(r.redo)
      /\ s2.redo = Pop(s.redo)
      /\ r2.undo = Push(r.undo, Here(r))
      /\ s2.undo = Push(s.undo, Here(s))
      /\ Here(r2) = [view |-> r.redo[1].view, gen |-> r.redo[1].gen]
      /\ Here(s2) = [view |-> s.redo[1].view, gen |-> s.redo[1].gen]
  BY DEF Redone, Here
<1>2. /\ r.undo \in Seq(Entry(Contents))
      /\ s.undo \in Seq(Entry(Contents))
      /\ r.redo \in Seq(Entry(Contents))
      /\ s.redo \in Seq(Entry(Contents))
      /\ Here(r) \in Entry(Contents)
      /\ Here(s) \in Entry(Contents)
  BY SaneFields
<1>3. /\ Alike(Here(r), r, Here(s), s)
      /\ Above(r.undo, r, s.undo, s)
      /\ Above(r.redo, r, s.redo, s)
  BY DEF Aligned
<1>4. /\ s.redo # <<>>
      /\ Alike(r.redo[1], r, s.redo[1], s)
      /\ Above(Pop(r.redo), r, Pop(s.redo), s)
  BY <1>2, <1>3, AbovePop
<1>5. Above(Push(r.undo, Here(r)), r, Push(s.undo, Here(s)), s)
  BY <1>2, <1>3, AbovePush
<1> HIDE DEF r2, s2
<1>6. Alike(Here(r2), r2, Here(s2), s2)
  BY <1>1, <1>4 DEF Alike
<1>7. Above(r2.undo, r2, s2.undo, s2) /\ Above(r2.redo, r2, s2.redo, s2)
  BY <1>1, <1>4, <1>5, AboveSameSaved
<1> QED
  BY <1>4, <1>6, <1>7 DEF Aligned, r2, s2

\* Sessions without history are aligned when they show the same and are both
\* clean or both dirty.
LEMMA AlignedNoHistory ==
    ASSUME NEW r, NEW s, Sane(s), r.undo = <<>>, r.redo = <<>>,
           r.view = s.view, IsDirty(r) <=> IsDirty(s)
    PROVE  Aligned(r, s)
<1>1. Len(s.undo) \in Nat /\ Len(s.redo) \in Nat
  BY SaneFields
<1>2. Len(r.undo) = 0 /\ Len(r.redo) = 0
  OBVIOUS
<1> QED
  BY <1>1, <1>2 DEF Aligned, Above, Alike, Here, IsDirty

\* Generations that existed stay pinned; undo and redo invent none.
LEMMA PinnedStays ==
    ASSUME NEW s, Sane(s), NEW g \in Nat, NEW w, Pinned(s, g, w)
    PROVE  /\ \A v \in Contents : g < s.next_gen => Pinned(Changed(s, v), g, w)
           /\ s.undo # <<>> => Pinned(Undone(s), g, w)
           /\ s.redo # <<>> => Pinned(Redone(s), g, w)
<1>1. ASSUME NEW v \in Contents, g < s.next_gen
      PROVE  Pinned(Changed(s, v), g, w)
  <2>1. Entries(Changed(s, v)) \subseteq
            Entries(s) \cup {[view |-> v, gen |-> s.next_gen]}
    BY ChangedFacts
  <2> QED
    BY <1>1, <2>1, SaneFields DEF Pinned
<1>2. s.undo # <<>> => Pinned(Undone(s), g, w)
  BY UndoneFacts DEF Pinned
<1>3. s.redo # <<>> => Pinned(Redone(s), g, w)
  BY RedoneFacts DEF Pinned
<1> QED
  BY <1>1, <1>2, <1>3

-----------------------------------------------------------------------------
(* What is written to the log, and what it mirrors.                        *)

LEMMA LogFields ==
    ASSUME NEW l, LogOK(l)
    PROVE  /\ l = [header |-> l.header, txns |-> l.txns,
                   effective |-> l.effective, replay |-> l.replay]
           /\ l.header \in FileState
           /\ l.header.ver \in Nat
           /\ l.header.view \in Contents
           /\ l.txns \in BOOLEAN
           /\ l.effective \in BOOLEAN
           /\ Sane(l.replay)
           /\ l.replay.saved_gen \in Nat
           /\ l.replay.saved_gen < l.replay.next_gen
  BY SaneFields DEF LogOK, Log, FileState, Sane

LEMMA HeaderLogFacts ==
    ASSUME NEW f \in FileState
    PROVE  /\ LogOK(HeaderLog(f))
           /\ HeaderLog(f).header = f
           /\ \A s : Sane(s) /\ ~IsDirty(s) /\ s.view = f.view =>
                Aligned(HeaderLog(f).replay, s)
<1>1. f.view \in Contents
  BY DEF FileState
<1>2. /\ HeaderLog(f).header = f
      /\ HeaderLog(f).txns = FALSE
      /\ HeaderLog(f).effective = FALSE
      /\ HeaderLog(f).replay = Fresh(f.view)
  BY DEF HeaderLog
<1>3. /\ ~IsDirty(Fresh(f.view))
      /\ Fresh(f.view).view = f.view
      /\ Fresh(f.view).undo = <<>>
      /\ Fresh(f.view).redo = <<>>
  BY DEF IsDirty, Fresh
<1>4. HeaderLog(f) \in Log(Contents)
  BY <1>1, FreshFacts DEF HeaderLog, Log, Sane
<1>5. LogOK(HeaderLog(f))
  BY <1>1, <1>2, <1>3, <1>4, FreshFacts DEF LogOK
<1> QED
  BY <1>2, <1>3, <1>5, AlignedNoHistory

LEMMA SnapshotLogFacts ==
    ASSUME NEW f \in FileState, NEW view \in Contents, NEW dirty \in BOOLEAN,
           ~dirty => view = f.view
    PROVE  LET l == SnapshotLog(f, view, f.view, dirty)
           IN  /\ LogOK(l)
               /\ l.header = f
               /\ l.replay.undo = <<>>
               /\ l.replay.redo = <<>>
               /\ \A s : Sane(s) /\ s.view = view /\ (IsDirty(s) <=> dirty) =>
                    Aligned(l.replay, s)
<1> DEFINE l == SnapshotLog(f, view, f.view, dirty)
<1>1. /\ l = [header |-> f, txns |-> FALSE, effective |-> dirty \/ view # f.view,
              replay |-> Restored(view, dirty)]
      /\ l.header = f
      /\ l.txns = FALSE
      /\ l.effective = (dirty \/ view # f.view)
      /\ l.replay = Restored(view, dirty)
  BY DEF SnapshotLog, LaidOver
<1>2. /\ l.replay.undo = <<>>
      /\ l.replay.redo = <<>>
      /\ l.replay.view = view
      /\ l.replay.saved_gen = 0
  BY <1>1 DEF Restored
<1>3. /\ Sane(l.replay)
      /\ IsDirty(l.replay) <=> dirty
      /\ Pinned(l.replay, 0, f.view)
  BY <1>1, RestoredFacts
<1>4. l \in Log(Contents)
  BY <1>1, <1>3 DEF Log, Sane
<1> HIDE DEF l
<1>5. LogOK(l)
  BY <1>1, <1>2, <1>3, <1>4 DEF LogOK
<1>6. \A s : Sane(s) /\ s.view = view /\ (IsDirty(s) <=> dirty) => Aligned(l.replay, s)
  BY <1>2, <1>3, AlignedNoHistory
<1> QED
  BY <1>1, <1>2, <1>5, <1>6 DEF l

LEMMA SaneIsSession ==
    ASSUME NEW s, Sane(s)
    PROVE  s \in Session(Views)
<1>1. s \in Session(Contents)
  BY DEF Sane
<1>2. Contents \subseteq Views
  BY DEF Views
<1>3. Entry(Contents) \subseteq Entry(Views)
  BY <1>2 DEF Entry
<1>4. Seq(Entry(Contents)) \subseteq Seq(Entry(Views))
  BY <1>3
<1> QED
  BY <1>1, <1>2, <1>4 DEF Session

LEMMA LogIsLog ==
    ASSUME NEW l, LogOK(l)
    PROVE  l \in Log(Views) /\ l # None
<1>1. l \in Log(Views)
  BY LogFields, SaneIsSession DEF Log
<1> QED
  BY <1>1, NoneAssumption

\* The operations a session can mirror, from s to s2.
Operation(op, s, s2) ==
    \/ op = "edit" /\ \E v \in Contents : s2 = Changed(s, v)
    \/ op = "undo" /\ s.undo # <<>> /\ s2 = Undone(s)
    \/ op = "redo" /\ s.redo # <<>> /\ s2 = Redone(s)

LEMMA OperationSane ==
    ASSUME NEW op, NEW s, NEW s2, Sane(s), Operation(op, s, s2)
    PROVE  /\ Sane(s2)
           /\ s2.view \in Contents
           /\ s2.saved_gen = s.saved_gen
           /\ s.next_gen <= s2.next_gen
           /\ \A g \in Nat : \A w : g < s.next_gen /\ Pinned(s, g, w) => Pinned(s2, g, w)
<1>1. s.next_gen \in Nat
  BY SaneFields
<1>2. CASE op = "edit" /\ \E v \in Contents : s2 = Changed(s, v)
  <2>1. PICK v \in Contents : s2 = Changed(s, v)
    BY <1>2
  <2>2. Sane(s2)
    BY <2>1, ChangedFacts
  <2>3. s2.saved_gen = s.saved_gen /\ s2.next_gen = s.next_gen + 1
    BY <2>1 DEF Changed
  <2>4. \A g \in Nat : \A w : g < s.next_gen /\ Pinned(s, g, w) => Pinned(s2, g, w)
    BY <2>1, PinnedStays
  <2> QED
    BY <1>1, <2>2, <2>3, <2>4, SaneFields
<1>3. CASE op = "undo" /\ s.undo # <<>> /\ s2 = Undone(s)
  <2>1. s2.saved_gen = s.saved_gen /\ s2.next_gen = s.next_gen
    BY <1>3 DEF Undone
  <2> QED
    BY <1>1, <1>3, <2>1, UndoneFacts, PinnedStays, SaneFields
<1>4. CASE op = "redo" /\ s.redo # <<>> /\ s2 = Redone(s)
  <2>1. s2.saved_gen = s.saved_gen /\ s2.next_gen = s.next_gen
    BY <1>4 DEF Redone
  <2> QED
    BY <1>1, <1>4, <2>1, RedoneFacts, PinnedStays, SaneFields
<1> QED
  BY <1>2, <1>3, <1>4 DEF Operation

\* Replaying the record does to the replayed session what the operation did.
LEMMA ReplayFollows ==
    ASSUME NEW op, NEW r, NEW s, NEW s2, Sane(r), Sane(s), Aligned(r, s),
           Operation(op, s, s2),
           op = "undo" => r.undo # <<>>,
           op = "redo" => r.redo # <<>>
    PROVE  LET r2 == Replayed(op, r, s.view, s2.view)
           IN  Operation(op, r, r2) /\ Aligned(r2, s2)
<1>1. r.view = s.view
  BY DEF Aligned, Alike, Here
<1>2. CASE op = "edit"
  <2>1. PICK v \in Contents : s2 = Changed(s, v)
    BY <1>2 DEF Operation
  <2>2. Replayed(op, r, s.view, s2.view) = Changed(r, v)
    BY <1>1, <1>2, <2>1 DEF Replayed, Changed
  <2> QED
    BY <1>2, <2>1, <2>2, AlignedChanged DEF Operation
<1>3. CASE op = "undo"
  <2>1. Replayed(op, r, s.view, s2.view) = Undone(r) /\ s2 = Undone(s)
    BY <1>3 DEF Replayed, Operation
  <2> QED
    BY <1>3, <2>1, AlignedUndone DEF Operation
<1>4. CASE op = "redo"
  <2>1. Replayed(op, r, s.view, s2.view) = Redone(r) /\ s2 = Redone(s)
    BY <1>4 DEF Replayed, Operation
  <2> QED
    BY <1>4, <2>1, AlignedRedone DEF Operation
<1> QED
  BY <1>2, <1>3, <1>4 DEF Operation

LEMMA CountsFacts ==
    ASSUME NEW w \in Writer, NEW n \in Nat, NEW m \in Nat
    PROVE  LET w2 == Counts(w, n, m)
           IN  /\ w2 \in Writer
               /\ w2.header = w.header
               /\ w2.base_gen = w.base_gen
               /\ w2.rebase = w.rebase
               /\ w2.replay_undo = n
               /\ w2.replay_redo = m
  BY DEF Counts, Writer

LEMMA CountedFacts ==
    ASSUME NEW op, NEW w \in Writer, NEW s, NEW s2, Sane(s), Operation(op, s, s2),
           w.replay_undo = Len(s.undo), w.replay_redo = Len(s.redo)
    PROVE  LET w2 == Counted(w, op)
           IN  /\ w2 \in Writer
               /\ w2.header = w.header
               /\ w2.base_gen = w.base_gen
               /\ w2.rebase = w.rebase
               /\ w2.replay_undo = Len(s2.undo)
               /\ w2.replay_redo = Len(s2.redo)
<1> DEFINE n == Len(s2.undo)
           m == Len(s2.redo)
<1>1. Sane(s2)
  BY OperationSane
<1>2. n \in Nat /\ m \in Nat
  BY <1>1, SaneFields
<1>3. Counted(w, op) = Counts(w, n, m)
  <2>1. CASE op = "edit"
    <3>1. PICK v \in Contents : s2 = Changed(s, v)
      BY <2>1 DEF Operation
    <3>2. n = Capped(Len(s.undo) + 1)
      BY <3>1, ChangedFacts
    <3>3. m = 0
      BY <3>1 DEF Changed
    <3> QED
      BY <2>1, <3>2, <3>3 DEF Counted
  <2>2. CASE op = "undo"
    <3>1. s.undo # <<>> /\ s2 = Undone(s)
      BY <2>2 DEF Operation
    <3>2. n = Len(s.undo) - 1 /\ m = Capped(Len(s.redo) + 1)
      BY <3>1, UndoneFacts
    <3> QED
      BY <2>2, <3>2 DEF Counted
  <2>3. CASE op = "redo"
    <3>1. s.redo # <<>> /\ s2 = Redone(s)
      BY <2>3 DEF Operation
    <3>2. n = Capped(Len(s.undo) + 1) /\ m = Len(s.redo) - 1
      BY <3>1, RedoneFacts
    <3> QED
      BY <2>3, <3>2 DEF Counted
  <2> QED
    BY <2>1, <2>2, <2>3 DEF Operation
<1> HIDE DEF n, m
<1>4. LET w2 == Counts(w, n, m)
      IN  /\ w2 \in Writer
          /\ w2.header = w.header
          /\ w2.base_gen = w.base_gen
          /\ w2.rebase = w.rebase
          /\ w2.replay_undo = n
          /\ w2.replay_redo = m
  BY <1>2, CountsFacts
<1> QED
  BY <1>3, <1>4 DEF n, m

LEMMA AppendedFacts ==
    ASSUME NEW op, NEW l, NEW w \in Writer, NEW s, NEW s2, LogOK(l), Sane(s),
           Mirrors(w, l, s), Operation(op, s, s2), CanReplay(w, op)
    PROVE  LET l2 == Appended(l, op, s.view, s2.view)
           IN  /\ LogOK(l2)
               /\ l2.header = l.header
               /\ Mirrors(Counted(w, op), l2, s2)
               /\ Counted(w, op) \in Writer
               /\ Counted(w, op).header = w.header
               /\ Counted(w, op).base_gen = w.base_gen
               /\ Counted(w, op).rebase = w.rebase
<1> DEFINE r == l.replay
           r2 == Replayed(op, r, s.view, s2.view)
           l2 == Appended(l, op, s.view, s2.view)
<1>1. /\ Sane(r)
      /\ Pinned(r, r.saved_gen, l.header.view)
      /\ Aligned(r, s)
      /\ w.replay_undo = Len(r.undo)
      /\ w.replay_redo = Len(r.redo)
      /\ l.header = w.header
      /\ r.saved_gen \in Nat
      /\ r.saved_gen < r.next_gen
  BY LogFields DEF LogOK, Mirrors
<1>2. /\ op = "undo" => r.undo # <<>>
      /\ op = "redo" => r.redo # <<>>
  BY <1>1 DEF CanReplay
<1> HIDE DEF r
<1>3. Operation(op, r, r2) /\ Aligned(r2, s2)
  BY <1>1, <1>2, ReplayFollows
<1> HIDE DEF r2
<1>4. /\ Sane(r2)
      /\ r2.saved_gen = r.saved_gen
      /\ Pinned(r2, r.saved_gen, l.header.view)
  BY <1>1, <1>3, OperationSane
<1>5. /\ l2 = [header |-> l.header, txns |-> TRUE, effective |-> l.effective, replay |-> r2]
      /\ l2.header = l.header
      /\ l2.txns = TRUE
      /\ l2.replay = r2
  BY DEF Appended, r, r2
<1>6. l2 \in Log(Contents)
  BY <1>4, <1>5, LogFields DEF Log, Sane
<1> HIDE DEF l2
<1>7. LogOK(l2)
  BY <1>4, <1>5, <1>6 DEF LogOK
<1>8. LET w2 == Counted(w, op)
      IN  /\ w2 \in Writer
          /\ w2.header = w.header
          /\ w2.base_gen = w.base_gen
          /\ w2.rebase = w.rebase
          /\ w2.replay_undo = Len(r2.undo)
          /\ w2.replay_redo = Len(r2.redo)
  BY <1>1, <1>3, CountedFacts
<1>9. l2 # None
  BY <1>7, LogIsLog
<1>10. Mirrors(Counted(w, op), l2, s2)
  BY <1>1, <1>3, <1>5, <1>8, <1>9 DEF Mirrors
<1> QED
  BY <1>5, <1>7, <1>8, <1>10 DEF l2

-----------------------------------------------------------------------------
(* Rewriting the log.                                                      *)

\* A snapshot taken by a writer whose anchors refer to its header's base.
LEMMA SnapshotOfFacts ==
    ASSUME NEW w \in Writer, NEW d, NEW s, Sane(s),
           AnchorBase(w, d) = w.header.view,
           Pinned(s, s.saved_gen, w.header.view)
    PROVE  /\ LogOK(SnapshotOf(w, d, s))
           /\ SnapshotOf(w, d, s).header = w.header
           /\ SnapshotOf(w, d, s) # None
           /\ Mirrors(Rewound(w), SnapshotOf(w, d, s), s)
           /\ Rewound(w) \in Writer
           /\ Rewound(w).header = w.header
           /\ Rewound(w).base_gen = w.base_gen
           /\ Rewound(w).rebase = w.rebase
<1> DEFINE l == SnapshotOf(w, d, s)
<1>1. /\ s.view \in Contents
      /\ IsDirty(s) \in BOOLEAN
      /\ w.header \in FileState
  BY SaneFields DEF IsDirty, Writer
<1>2. ~IsDirty(s) => s.view = w.header.view
  BY SaneFields DEF IsDirty, Pinned, Here
<1>3. l = SnapshotLog(w.header, s.view, w.header.view, IsDirty(s))
  BY DEF SnapshotOf
<1> HIDE DEF l
<1>4. /\ LogOK(l)
      /\ l.header = w.header
      /\ l.replay.undo = <<>>
      /\ l.replay.redo = <<>>
      /\ Aligned(l.replay, s)
  <2> DEFINE dirty == IsDirty(s)
  <2>1. IsDirty(s) <=> dirty
    OBVIOUS
  <2>2. dirty \in BOOLEAN /\ (~dirty => s.view = w.header.view)
    BY <1>1, <1>2
  <2>3. l = SnapshotLog(w.header, s.view, w.header.view, dirty)
    BY <1>3
  <2> HIDE DEF dirty
  <2>4. LET k == SnapshotLog(w.header, s.view, w.header.view, dirty)
        IN  /\ LogOK(k)
            /\ k.header = w.header
            /\ k.replay.undo = <<>>
            /\ k.replay.redo = <<>>
            /\ \A x : Sane(x) /\ x.view = s.view /\ (IsDirty(x) <=> dirty) =>
                 Aligned(k.replay, x)
    BY <1>1, <2>2, SnapshotLogFacts
  <2> QED
    BY <2>1, <2>3, <2>4
<1>5. /\ Rewound(w) \in Writer
      /\ Rewound(w).header = w.header
      /\ Rewound(w).base_gen = w.base_gen
      /\ Rewound(w).rebase = w.rebase
      /\ Rewound(w).replay_undo = 0
      /\ Rewound(w).replay_redo = 0
  BY CountsFacts DEF Rewound
<1>6. l # None
  BY <1>4, LogIsLog
<1>7. Mirrors(Rewound(w), l, s)
  BY <1>4, <1>5, <1>6 DEF Mirrors
<1> QED
  BY <1>4, <1>5, <1>6, <1>7 DEF l

\* A new writer over the file that is mapped.
LEMMA NewWriterFacts ==
    ASSUME NEW f \in FileState
    PROVE  /\ NewWriter(f) \in Writer
           /\ NewWriter(f) # None
           /\ NewWriter(f).header = f
           /\ AnchorBase(NewWriter(f), f) = f.view
           /\ Rewound(NewWriter(f)) = NewWriter(f)
           /\ NewWriter(f).replay_undo = 0
           /\ NewWriter(f).replay_redo = 0
<1>1. NewWriter(f) \in Writer
  BY DEF NewWriter, Writer
<1> QED
  BY <1>1, NoneAssumption DEF NewWriter, AnchorBase, Rewound, Counts

\* The log such a writer leaves for session s: a snapshot, or just the header.
LEMMA NewLogFacts ==
    ASSUME NEW f \in FileState, NEW s, Sane(s), Pinned(s, s.saved_gen, f.view)
    PROVE  LET l == IF IsDirty(s) THEN SnapshotOf(NewWriter(f), f, s) ELSE HeaderLog(f)
           IN  /\ LogOK(l)
               /\ l.header = f
               /\ Mirrors(NewWriter(f), l, s)
<1> DEFINE w == NewWriter(f)
<1>1. /\ w \in Writer
      /\ w.header = f
      /\ AnchorBase(w, f) = f.view
      /\ Rewound(w) = w
      /\ w.replay_undo = 0
      /\ w.replay_redo = 0
  BY NewWriterFacts
<1> HIDE DEF w
<1>2. CASE IsDirty(s)
  <2>1. LogOK(SnapshotOf(w, f, s)) /\ SnapshotOf(w, f, s).header = f
        /\ Mirrors(Rewound(w), SnapshotOf(w, f, s), s)
    BY <1>1, SnapshotOfFacts
  <2> QED
    BY <1>1, <1>2, <2>1 DEF w
<1>3. CASE ~IsDirty(s)
  <2>1. s.view = f.view
    BY <1>3, SaneFields DEF IsDirty, Pinned, Here
  <2>2. /\ LogOK(HeaderLog(f))
        /\ HeaderLog(f).header = f
        /\ Aligned(HeaderLog(f).replay, s)
    BY <1>3, <2>1, HeaderLogFacts
  <2>3. /\ HeaderLog(f) # None
        /\ Len(HeaderLog(f).replay.undo) = 0
        /\ Len(HeaderLog(f).replay.redo) = 0
    BY <2>2, LogIsLog DEF HeaderLog, Fresh
  <2>4. Mirrors(w, HeaderLog(f), s)
    BY <1>1, <2>2, <2>3 DEF Mirrors
  <2> QED
    BY <1>3, <2>2, <2>4 DEF w
<1> QED
  BY <1>2, <1>3

LEMMA RacedFacts ==
    /\ \A x \in Save \cup {None} :
          /\ Raced(x) \in Save \cup {None}
          /\ Raced(x) = None <=> x = None
          /\ x # None => /\ Raced(x).phase = x.phase
                         /\ Raced(x).view = x.view
                         /\ Raced(x).gen = x.gen
                         /\ Raced(x).raced = TRUE
    /\ \A x \in Staged \cup {None} :
          /\ Raced(x) \in Staged \cup {None}
          /\ Raced(x) = None <=> x = None
          /\ x # None => /\ Raced(x).header = x.header
                         /\ Raced(x).raced = TRUE
<1>1. ASSUME NEW x \in Save
      PROVE  /\ [x EXCEPT !.raced = TRUE] \in Save
             /\ [x EXCEPT !.raced = TRUE].phase = x.phase
             /\ [x EXCEPT !.raced = TRUE].view = x.view
             /\ [x EXCEPT !.raced = TRUE].gen = x.gen
             /\ [x EXCEPT !.raced = TRUE].raced = TRUE
  BY DEF Save
<1>2. ASSUME NEW x \in Staged
      PROVE  /\ [x EXCEPT !.raced = TRUE] \in Staged
             /\ [x EXCEPT !.raced = TRUE].header = x.header
             /\ [x EXCEPT !.raced = TRUE].raced = TRUE
  BY DEF Staged
<1> QED
  BY <1>1, <1>2, NoneAssumption DEF Raced

-----------------------------------------------------------------------------
(* Editing keeps the invariant.                                            *)

\* wal_commit keeps whatever log it leaves readable, and the log of a writer
\* that is still attached mirrors the session it committed.
LEMMA WalCommitFacts ==
    ASSUME IInv, NEW op, NEW s, Operation(op, session, s), WalCommit(op, s)
    PROVE  /\ writer' \in Writer \cup {None}
           /\ writer' # None =>
                /\ writer # None
                /\ writer'.header = writer.header
                /\ writer'.base_gen = writer.base_gen
                /\ writer'.rebase = writer.rebase
                /\ Mirrors(writer', log', s)
           /\ log' # None =>
                /\ log # None
                /\ LogOK(log')
                /\ log'.header = log.header
           /\ writer = None => log' = log
<1>1. CASE writer = None /\ UNCHANGED <<writer, log>>
  BY <1>1 DEF IInv, LogInv
<1>2. CASE writer # None
  <2>1. /\ writer \in Writer
        /\ log # None
        /\ LogOK(log)
        /\ log.header = writer.header
        /\ Mirrors(writer, log, session)
        /\ AnchorBase(writer, doc) = writer.header.view
        /\ Sane(session)
        /\ Pinned(session, session.saved_gen, writer.header.view)
    BY <1>2 DEF IInv, Types, LogInv, WriterInv, SessionInv, Mirrors
  <2>2. Sane(s) /\ Pinned(s, s.saved_gen, writer.header.view)
    BY <2>1, OperationSane, SaneFields DEF Sane
  <2>3. CASE CanReplay(writer, op) /\ writer' = Counted(writer, op)
             /\ log' = Appended(log, op, session.view, s.view)
    BY <1>2, <2>1, <2>3, AppendedFacts
  <2>4. CASE CanReplay(writer, op) /\ writer' = None /\ UNCHANGED log
    BY <1>2, <2>1, <2>4
  <2>5. /\ LogOK(SnapshotOf(writer, doc, s))
        /\ SnapshotOf(writer, doc, s).header = writer.header
        /\ Mirrors(Rewound(writer), SnapshotOf(writer, doc, s), s)
        /\ Rewound(writer) \in Writer
        /\ Rewound(writer).header = writer.header
        /\ Rewound(writer).base_gen = writer.base_gen
        /\ Rewound(writer).rebase = writer.rebase
    BY <2>1, <2>2, SnapshotOfFacts
  <2>6. CASE writer' = Rewound(writer) /\ log' = SnapshotOf(writer, doc, s)
    BY <1>2, <2>1, <2>5, <2>6
  <2>7. CASE RewriteFails(SnapshotOf(writer, doc, s))
    BY <1>2, <2>1, <2>5, <2>7 DEF RewriteFails
  <2> QED
    BY <1>2, <2>3, <2>4, <2>6, <2>7 DEF WalCommit
<1> QED
  BY <1>1, <1>2 DEF WalCommit

LEMMA StepInv ==
    ASSUME IInv, NEW op, NEW s, Operation(op, session, s), Step(op, s)
    PROVE  IInv'
<1>1. /\ up
      /\ session' = s
      /\ save' = Raced(save)
      /\ staged' = Raced(staged)
      /\ up' = up /\ file' = file /\ doc' = doc /\ pending' = pending
      /\ WalCommit(op, s)
  BY DEF Step
<1>2. /\ writer' \in Writer \cup {None}
      /\ writer' # None =>
           /\ writer # None
           /\ writer'.header = writer.header
           /\ writer'.base_gen = writer.base_gen
           /\ writer'.rebase = writer.rebase
           /\ Mirrors(writer', log', s)
      /\ log' # None =>
           /\ log # None
           /\ LogOK(log')
           /\ log'.header = log.header
      /\ writer = None => log' = log
  BY <1>1, WalCommitFacts
<1>3. /\ save \in Save \cup {None}
      /\ staged \in Staged \cup {None}
      /\ Sane(session)
  BY DEF IInv, Types, SessionInv
<1>4. /\ save' \in Save \cup {None}
      /\ save' = None <=> save = None
      /\ save # None => /\ save'.phase = save.phase
                        /\ save'.view = save.view
                        /\ save'.gen = save.gen
                        /\ save'.raced = TRUE
      /\ staged' \in Staged \cup {None}
      /\ staged' = None <=> staged = None
      /\ staged # None => staged'.header = staged.header /\ staged'.raced = TRUE
  BY <1>1, <1>3, RacedFacts
<1>5. Swapped' <=> Swapped
  BY <1>4 DEF Swapped
<1>6. \A h : Older(h)' <=> Older(h)
  BY <1>1, <1>5 DEF Older
<1>7. /\ Sane(s)
      /\ s.saved_gen = session.saved_gen
      /\ session.next_gen <= s.next_gen
      /\ session.next_gen \in Nat
      /\ s.next_gen \in Nat
      /\ \A g \in Nat : \A w : g < session.next_gen /\ Pinned(session, g, w) => Pinned(s, g, w)
  BY <1>3, OperationSane, SaneFields
<1>8. session.saved_gen \in Nat /\ session.saved_gen < session.next_gen
  BY <1>3, SaneFields DEF Sane
<1>9. Types'
  BY <1>1, <1>2, <1>4 DEF IInv, Types
<1>10. DownInv'
  BY <1>1 DEF DownInv
<1>11. SessionInv'
  <2>1. ~Swapped => Pinned(session, session.saved_gen, file.view)
    BY DEF IInv, SessionInv
  <2> QED
    BY <1>1, <1>5, <1>7, <1>8, <2>1 DEF SessionInv
<1>12. SaveInv'
  <2> SUFFICES ASSUME save # None PROVE SaveInv'
    BY <1>4 DEF SaveInv
  <2>1. /\ save.phase = "swapped" => file.view = save.view
        /\ save.phase # "streaming" =>
              save.gen < session.next_gen /\ Pinned(session, save.gen, save.view)
        /\ save.gen \in Nat
    BY <1>3 DEF IInv, SaveInv, Save
  <2>2. save.phase # "streaming" =>
            save.gen < s.next_gen /\ Pinned(s, save.gen, save.view)
    BY <1>7, <2>1
  <2> QED
    BY <1>1, <1>4, <2>1, <2>2 DEF SaveInv
<1>13. LogInv'
  BY <1>2, <1>6 DEF IInv, LogInv
<1>14. WriterInv'
  <2> SUFFICES ASSUME writer' # None PROVE WriterInv'
    BY DEF WriterInv
  <2>1. /\ ~Swapped => writer.header = file
        /\ AnchorBase(writer, doc) = writer.header.view
        /\ Pinned(session, session.saved_gen, writer.header.view)
    BY <1>2 DEF IInv, WriterInv
  <2>2. AnchorBase(writer', doc') = writer.header.view
    BY <1>1, <1>2, <2>1 DEF AnchorBase
  <2>3. Pinned(s, s.saved_gen, writer.header.view)
    BY <1>7, <1>8, <2>1
  <2> QED
    BY <1>1, <1>2, <1>5, <2>1, <2>2, <2>3 DEF WriterInv
<1>15. StagedInv'
  <2>1. staged # None => Older(staged.header)
    BY DEF IInv, StagedInv
  <2> QED
    BY <1>4, <1>6, <2>1 DEF StagedInv
<1>16. PendingInv'
  BY <1>1, <1>2, <1>4 DEF IInv, PendingInv
<1> QED
  BY <1>9, <1>10, <1>11, <1>12, <1>13, <1>14, <1>15, <1>16 DEF IInv

LEMMA EditInv ==
    ASSUME IInv, Edit \/ Undo \/ Redo
    PROVE  IInv'
<1>1. CASE Edit
  <2>1. PICK v \in Contents : Step("edit", Changed(session, v))
    BY <1>1 DEF Edit
  <2>2. Operation("edit", session, Changed(session, v))
    BY DEF Operation
  <2> QED
    BY <2>1, <2>2, StepInv
<1>2. CASE Undo
  <2>1. Step("undo", Undone(session)) /\ Operation("undo", session, Undone(session))
    BY <1>2 DEF Undo, Operation
  <2> QED
    BY <2>1, StepInv
<1>3. CASE Redo
  <2>1. Step("redo", Redone(session)) /\ Operation("redo", session, Redone(session))
    BY <1>3 DEF Redo, Operation
  <2> QED
    BY <2>1, StepInv
<1> QED
  BY <1>1, <1>2, <1>3

-----------------------------------------------------------------------------
(* Saving keeps the invariant.                                             *)

\* A step that moves the save on without replacing or committing the file.
LEMMA SaveMoves ==
    ASSUME IInv, UNCHANGED <<up, file, doc, session, writer, log, staged, pending>>,
           save' \in Save \cup {None}, ~Swapped', ~Swapped, SaveInv', ~up => save' = None
    PROVE  IInv'
<1>1. /\ up' = up /\ file' = file /\ doc' = doc /\ session' = session
      /\ writer' = writer /\ log' = log /\ staged' = staged /\ pending' = pending
  OBVIOUS
<1>2. \A h : Older(h)' <=> Older(h)
  BY <1>1 DEF Older
<1>3. Types' /\ DownInv' /\ PendingInv'
  BY <1>1 DEF IInv, Types, DownInv, PendingInv
<1>4. SessionInv'
  BY <1>1 DEF IInv, SessionInv
<1>5. LogInv'
  BY <1>1, <1>2 DEF IInv, LogInv
<1>6. WriterInv'
  BY <1>1 DEF IInv, WriterInv
<1>7. StagedInv'
  BY <1>1, <1>2 DEF IInv, StagedInv
<1> QED
  BY <1>3, <1>4, <1>5, <1>6, <1>7 DEF IInv

LEMMA SaveBeginInv ==
    ASSUME IInv, SaveBegin
    PROVE  IInv'
<1>1. /\ save = None
      /\ save' = [phase |-> "streaming", view |-> session.view,
                  gen |-> session.content_gen, raced |-> FALSE]
      /\ UNCHANGED <<up, file, doc, session, writer, log, staged, pending>>
      /\ up
  BY DEF SaveBegin
<1>2. Sane(session)
  BY DEF IInv, SessionInv
<1>3. /\ session.view \in Contents
      /\ session.content_gen \in Nat
      /\ Here(session) \in Entries(session)
  BY <1>2, SaneFields
<1>4. save' \in Save
  BY <1>1, <1>3 DEF Save
<1>5. /\ session.content_gen < session.next_gen
      /\ Pinned(session, session.content_gen, session.view)
  BY <1>2, <1>3 DEF Sane, Pinned, Here
<1>6. SaveInv'
  BY <1>1, <1>5 DEF SaveInv
<1>7. ~Swapped /\ ~Swapped'
  BY <1>1 DEF Swapped
<1> QED
  BY <1>1, <1>4, <1>6, <1>7, SaveMoves

LEMMA SaveConfirmInv ==
    ASSUME IInv, SaveConfirm
    PROVE  IInv'
<1>1. /\ save \in Save
      /\ save.phase = "streaming"
      /\ ~save.raced
      /\ save' = [save EXCEPT !.phase = "confirmed"]
      /\ UNCHANGED <<up, file, doc, session, writer, log, staged, pending>>
      /\ up
      /\ save # None
  BY DEF IInv, Types, DownInv, SaveConfirm
<1>2. /\ save' \in Save
      /\ save'.phase = "confirmed"
      /\ save'.view = save.view
      /\ save'.gen = save.gen
      /\ save'.raced = save.raced
  BY <1>1 DEF Save
<1>3. SaveInv'
  BY <1>1, <1>2 DEF IInv, SaveInv
<1>4. ~Swapped /\ ~Swapped'
  BY <1>1, <1>2 DEF Swapped
<1> QED
  BY <1>1, <1>2, <1>3, <1>4, SaveMoves

LEMMA SaveAbortInv ==
    ASSUME IInv, SaveAbort
    PROVE  IInv'
<1>1. /\ save' = None
      /\ save.phase # "swapped"
      /\ UNCHANGED <<up, file, doc, session, writer, log, staged, pending>>
  BY DEF SaveAbort
<1>2. ~Swapped /\ ~Swapped' /\ SaveInv'
  BY <1>1 DEF Swapped, SaveInv
<1> QED
  BY <1>1, <1>2, SaveMoves

\* The file gets an identity that no header in sight has.
LEMMA SaveSwapInv ==
    ASSUME IInv, SaveSwap
    PROVE  IInv'
<1>1. /\ save \in Save
      /\ save # None
      /\ save.phase = "confirmed"
      /\ save' = [save EXCEPT !.phase = "swapped"]
      /\ file' = [ver |-> file.ver + 1, view |-> save.view]
      /\ up' = up /\ doc' = doc /\ session' = session /\ writer' = writer
      /\ log' = log /\ staged' = staged /\ pending' = pending
      /\ up
  BY DEF IInv, Types, DownInv, SaveSwap
<1>2. /\ save' \in Save
      /\ save' # None
      /\ save'.phase = "swapped"
      /\ save'.view = save.view
      /\ save'.gen = save.gen
      /\ save'.raced = save.raced
  <2>1. save' \in Save
    BY <1>1 DEF Save
  <2> QED
    BY <1>1, <2>1, NoneAssumption DEF Save
<1>3. /\ file' \in FileState
      /\ file'.ver = file.ver + 1
      /\ file'.view = save.view
      /\ file.ver \in Nat
      /\ file'.ver \in Nat
  BY <1>1 DEF IInv, Types, FileState, Save
<1>4. ~Swapped /\ Swapped'
  BY <1>1, <1>2 DEF Swapped
<1>5. \A h \in FileState : Older(h) => Older(h)' /\ h # file'
  BY <1>3 DEF Older, FileState
<1>6. Types' /\ DownInv'
  BY <1>1, <1>2, <1>3 DEF IInv, Types, DownInv
<1>7. SessionInv'
  BY <1>1, <1>4 DEF IInv, SessionInv
<1>8. SaveInv'
  BY <1>1, <1>2, <1>3 DEF IInv, SaveInv
<1>9. LogInv'
  <2>1. log # None => LogOK(log) /\ Older(log.header) /\ log.header \in FileState
    BY LogFields DEF IInv, LogInv
  <2> QED
    BY <1>1, <1>5, <2>1 DEF LogInv
<1>10. WriterInv'
  BY <1>1, <1>4 DEF IInv, WriterInv
<1>11. StagedInv'
  <2> SUFFICES ASSUME staged # None PROVE StagedInv'
    BY <1>1 DEF StagedInv
  <2>1. staged.header \in FileState /\ Older(staged.header)
    BY DEF IInv, Types, StagedInv, Staged
  <2>2. Older(staged.header)' /\ staged.header # file'
    BY <1>1, <1>5, <2>1
  <2> QED
    BY <1>1, <2>2 DEF IInv, StagedInv
<1>12. PendingInv'
  <2>1. log # None => log.header # file'
    BY <1>5, LogFields DEF IInv, LogInv
  <2> QED
    BY <1>1, <2>1 DEF IInv, PendingInv
<1> QED
  BY <1>6, <1>7, <1>8, <1>9, <1>10, <1>11, <1>12 DEF IInv

\* The reset log belongs to the file just written, and re-anchoring refers to
\* what was written.
LEMMA SaveCommitInv ==
    ASSUME IInv, SaveCommit
    PROVE  IInv'
<1> DEFINE w == ResetForSave(writer, file, save.view)
           s == MarkedSaved(session, save.gen)
           l == CommittedLog(s)
<1>1. /\ save \in Save
      /\ save # None
      /\ save.phase = "swapped"
      /\ save' = None
      /\ session' = s
      /\ up' = up /\ file' = file /\ doc' = doc /\ staged' = staged /\ pending' = pending
      /\ up
      /\ file \in FileState
  BY DEF IInv, Types, DownInv, SaveCommit
<1>2. /\ file.view = save.view
      /\ save.gen < session.next_gen
      /\ Pinned(session, save.gen, save.view)
      /\ ~save.raced => session.view = save.view /\ session.content_gen = save.gen
      /\ save.gen \in Nat
      /\ Sane(session)
      /\ file.view \in Contents
  BY <1>1 DEF IInv, SaveInv, Save, SessionInv, FileState
<1>3. Swapped /\ ~Swapped'
  BY <1>1 DEF Swapped
<1>4. /\ s \in Session(Contents)
      /\ s.view = session.view
      /\ s.content_gen = session.content_gen
      /\ s.next_gen = session.next_gen
      /\ s.saved_gen = save.gen
      /\ s.undo = session.undo
      /\ s.redo = session.redo
  BY <1>2 DEF MarkedSaved, Sane, Session
<1>5. Here(s) = Here(session) /\ Entries(s) = Entries(session)
  <2> HIDE DEF s
  <2>1. Here(s) = Here(session)
    BY <1>4 DEF Here
  <2> QED
    BY <1>4, <2>1 DEF Entries
<1> HIDE DEF s
<1>6. Sane(s) /\ Pinned(s, s.saved_gen, file.view)
  BY <1>2, <1>4, <1>5 DEF Sane, Pinned
<1>7. /\ w.header = file
      /\ w.replay_undo = 0
      /\ w.replay_redo = 0
      /\ w.base_gen = writer.base_gen + 1
      /\ w.rebase = file.view
      /\ Rewound(w) = w
  BY <1>2 DEF ResetForSave, Rewound, Counts
<1>8. writer # None => w \in Writer /\ AnchorBase(w, doc) = file.view
  <2> SUFFICES ASSUME writer # None PROVE w \in Writer /\ AnchorBase(w, doc) = file.view
    OBVIOUS
  <2>1. writer \in Writer
    BY DEF IInv, Types
  <2>2. writer.base_gen \in Nat
    BY <2>1 DEF Writer
  <2>3. w \in Writer
    BY <1>1, <1>2, <2>2 DEF ResetForSave, Writer
  <2> QED
    BY <1>7, <2>2, <2>3 DEF AnchorBase
<1>9. writer # None => LogOK(l) /\ l.header = file /\ Mirrors(w, l, s)
  <2> SUFFICES ASSUME writer # None
               PROVE  LogOK(l) /\ l.header = file /\ Mirrors(w, l, s)
    OBVIOUS
  <2> HIDE DEF w
  <2>1. CASE save.raced /\ IsDirty(s)
    <3>1. l = SnapshotOf(w, doc, s)
      BY <2>1 DEF CommittedLog, w
    <3>2. /\ LogOK(SnapshotOf(w, doc, s))
          /\ SnapshotOf(w, doc, s).header = w.header
          /\ Mirrors(Rewound(w), SnapshotOf(w, doc, s), s)
      BY <1>6, <1>7, <1>8, SnapshotOfFacts
    <3> QED
      BY <1>7, <3>1, <3>2
  <2>2. CASE ~(save.raced /\ IsDirty(s))
    <3>1. l = HeaderLog(file)
      BY <2>2 DEF CommittedLog
    <3>2. ~IsDirty(s)
      BY <1>2, <1>4, <2>2 DEF IsDirty
    <3>3. s.view = file.view
      BY <1>6, <3>2, SaneFields DEF IsDirty, Pinned, Here
    <3>4. /\ LogOK(HeaderLog(file))
          /\ HeaderLog(file).header = file
          /\ Aligned(HeaderLog(file).replay, s)
      BY <1>1, <1>6, <3>2, <3>3, HeaderLogFacts
    <3>5. /\ HeaderLog(file) # None
          /\ Len(HeaderLog(file).replay.undo) = 0
          /\ Len(HeaderLog(file).replay.redo) = 0
      BY <3>4, LogIsLog DEF HeaderLog, Fresh
    <3> QED
      BY <1>7, <3>1, <3>4, <3>5 DEF Mirrors
  <2> QED
    BY <2>1, <2>2
<1>10. LogOK(HeaderLog(file)) /\ HeaderLog(file).header = file
  BY <1>1, HeaderLogFacts
<1> HIDE DEF w, l
<1>11. \/ writer = None /\ writer' = None /\ log' = log
       \/ writer # None /\ writer' = w /\ log' = l
       \/ writer # None /\ writer' = None /\ log' \in {log, HeaderLog(file), l}
  BY <1>1 DEF SaveCommit, w, l
<1>12. /\ \A h \in FileState : Older(h) => h # file /\ h.ver <= file.ver
       /\ file.ver <= file.ver
  BY <1>1, <1>3 DEF Older, FileState
<1>13. \A h : Older(h)' <=> h.ver <= file.ver
  BY <1>1, <1>3 DEF Older
<1>14. Types'
  BY <1>1, <1>8, <1>11 DEF IInv, Types
<1>15. DownInv' /\ SaveInv'
  BY <1>1 DEF DownInv, SaveInv
<1>16. SessionInv'
  BY <1>1, <1>6 DEF SessionInv
<1>17. LogInv'
  <2>1. log # None => LogOK(log) /\ log.header.ver <= file.ver
    BY <1>12, LogFields DEF IInv, LogInv
  <2> QED
    BY <1>9, <1>10, <1>11, <1>12, <1>13, <2>1 DEF LogInv
<1>18. WriterInv'
  BY <1>1, <1>6, <1>7, <1>8, <1>9, <1>11 DEF WriterInv, AnchorBase
<1>19. StagedInv'
  <2> SUFFICES ASSUME staged # None PROVE StagedInv'
    BY <1>1 DEF StagedInv
  <2>1. staged.header \in FileState /\ Older(staged.header)
    BY DEF IInv, Types, StagedInv, Staged
  <2>2. staged.header # file /\ staged.header.ver <= file.ver
    BY <1>12, <2>1
  <2>3. writer' # None => writer'.header = file
    BY <1>7, <1>11
  <2>4. Older(staged.header)'
    BY <1>1, <1>13, <2>2
  <2> QED
    BY <1>1, <1>4, <2>2, <2>3, <2>4 DEF IInv, StagedInv
<1>20. PendingInv'
  <2>1. log # None => log.header # file
    BY <1>12, LogFields DEF IInv, LogInv
  <2> QED
    BY <1>1, <1>11, <2>1 DEF IInv, PendingInv
<1> QED
  BY <1>14, <1>15, <1>16, <1>17, <1>18, <1>19, <1>20 DEF IInv

-----------------------------------------------------------------------------
(* The policy thread keeps the invariant.                                  *)

\* The writer is dropped and the log left as it is, or readable.
LEMMA WriterDropped ==
    ASSUME IInv, UNCHANGED <<up, file, doc, session, save, pending>>,
           writer' = None, staged' \in {staged, None},
           log' # None => log # None /\ LogOK(log') /\ log'.header = log.header
    PROVE  IInv'
<1>1. /\ up' = up /\ file' = file /\ doc' = doc /\ session' = session
      /\ save' = save /\ pending' = pending
  OBVIOUS
<1>2. Swapped' <=> Swapped
  BY <1>1 DEF Swapped
<1>3. \A h : Older(h)' <=> Older(h)
  BY <1>1, <1>2 DEF Older
<1>4. Types' /\ DownInv' /\ WriterInv'
  BY <1>1 DEF IInv, Types, DownInv, WriterInv
<1>5. SessionInv' /\ SaveInv'
  BY <1>1, <1>2 DEF IInv, SessionInv, SaveInv
<1>6. LogInv'
  BY <1>3 DEF IInv, LogInv
<1>7. StagedInv'
  BY <1>1, <1>3 DEF IInv, StagedInv
<1>8. PendingInv'
  BY <1>1 DEF IInv, PendingInv
<1> QED
  BY <1>4, <1>5, <1>6, <1>7, <1>8 DEF IInv

LEMMA SyncFailsInv ==
    ASSUME IInv, SyncFails
    PROVE  IInv'
<1>1. /\ writer' = None
      /\ UNCHANGED <<up, file, doc, session, save, pending>>
      /\ staged' = staged
      /\ log' = log
  BY DEF SyncFails
<1>2. log # None => LogOK(log)
  BY DEF IInv, LogInv
<1> QED
  BY <1>1, <1>2, WriterDropped

LEMMA StageCompactionInv ==
    ASSUME IInv, StageCompaction
    PROVE  IInv'
<1>1. /\ writer # None
      /\ staged = None
      /\ staged' = [header |-> writer.header, view |-> session.view,
                    on |-> AnchorBase(writer, doc), dirty |-> IsDirty(session),
                    raced |-> FALSE]
      /\ up' = up /\ file' = file /\ doc' = doc /\ session' = session
      /\ writer' = writer /\ log' = log /\ save' = save /\ pending' = pending
  BY DEF StageCompaction
<1>2. /\ writer \in Writer
      /\ log # None
      /\ log.header = writer.header
      /\ Older(log.header)
      /\ AnchorBase(writer, doc) = writer.header.view
      /\ Sane(session)
  BY <1>1 DEF IInv, Types, WriterInv, Mirrors, LogInv, SessionInv
<1>3. /\ writer.header \in FileState
      /\ writer.header.view \in Contents
      /\ session.view \in Views
      /\ IsDirty(session) \in BOOLEAN
  BY <1>2, SaneFields DEF Writer, FileState, Views, IsDirty
<1>4. staged' \in Staged
  BY <1>1, <1>2, <1>3 DEF Staged
<1>5. Swapped' <=> Swapped
  BY <1>1 DEF Swapped
<1>6. \A h : Older(h)' <=> Older(h)
  BY <1>1, <1>5 DEF Older
<1>7. Types'
  BY <1>1, <1>4 DEF IInv, Types
<1>8. DownInv'
  BY <1>1 DEF IInv, DownInv
<1>9. SessionInv' /\ SaveInv'
  BY <1>1, <1>5 DEF IInv, SessionInv, SaveInv
<1>10. LogInv'
  BY <1>1, <1>6 DEF IInv, LogInv
<1>11. WriterInv'
  BY <1>1, <1>5 DEF IInv, WriterInv
<1>12. StagedInv'
  <2>1. /\ staged'.header = writer.header
        /\ staged'.view = session.view
        /\ staged'.on = writer.header.view
        /\ staged'.dirty = IsDirty(session)
        /\ Older(writer.header)
    BY <1>1, <1>2
  <2>2. Older(staged.header)'
    BY <1>1, <1>5, <2>1 DEF Older
  <2>3. IsDirty(session)' = IsDirty(session)
    BY <1>1 DEF IsDirty
  <2>4. staged'.view = session'.view
    BY <1>1, <2>1
  <2>5. staged'.on = staged'.header.view
    BY <2>1
  <2>6. staged'.dirty = IsDirty(session)'
    BY <2>1, <2>3
  <2> QED
    BY <2>2, <2>4, <2>5, <2>6 DEF StagedInv
<1>13. PendingInv'
  BY <1>1 DEF IInv, PendingInv
<1> QED
  BY <1>7, <1>8, <1>9, <1>10, <1>11, <1>12, <1>13 DEF IInv

\* What a compaction that is still current installs.
LEMMA InstallFacts ==
    ASSUME IInv, staged # None, ~staged.raced, writer # None,
           staged.header = writer.header
    PROVE  LET new == SnapshotLog(staged.header, staged.view, staged.on, staged.dirty)
           IN  /\ LogOK(new)
               /\ new.header = log.header
               /\ Mirrors(Rewound(writer), new, session)
               /\ log # None
               /\ Rewound(writer) \in Writer
               /\ Rewound(writer).header = writer.header
               /\ Rewound(writer).base_gen = writer.base_gen
               /\ Rewound(writer).rebase = writer.rebase
<1> DEFINE new == SnapshotLog(staged.header, staged.view, staged.on, staged.dirty)
<1>1. /\ staged.view = session.view
      /\ staged.on = writer.header.view
      /\ staged.dirty = IsDirty(session)
  BY DEF IInv, StagedInv
<1>2. /\ writer \in Writer
      /\ Mirrors(writer, log, session)
      /\ AnchorBase(writer, doc) = writer.header.view
      /\ Pinned(session, session.saved_gen, writer.header.view)
      /\ Sane(session)
  BY DEF IInv, Types, WriterInv, SessionInv
<1>3. new = SnapshotOf(writer, doc, session)
  BY <1>1, <1>2 DEF SnapshotOf
<1>4. /\ LogOK(SnapshotOf(writer, doc, session))
      /\ SnapshotOf(writer, doc, session).header = writer.header
      /\ Mirrors(Rewound(writer), SnapshotOf(writer, doc, session), session)
      /\ Rewound(writer) \in Writer
      /\ Rewound(writer).header = writer.header
      /\ Rewound(writer).base_gen = writer.base_gen
      /\ Rewound(writer).rebase = writer.rebase
  BY <1>2, SnapshotOfFacts
<1> HIDE DEF new
<1> QED
  BY <1>2, <1>3, <1>4 DEF new, Mirrors

LEMMA InstallCompactionInv ==
    ASSUME IInv, InstallCompaction
    PROVE  IInv'
<1> DEFINE new == SnapshotLog(staged.header, staged.view, staged.on, staged.dirty)
<1>1. /\ staged # None
      /\ staged' = None
      /\ up' = up /\ file' = file /\ doc' = doc /\ session' = session
      /\ save' = save /\ pending' = pending
  BY DEF InstallCompaction
<1>2. log # None => LogOK(log)
  BY DEF IInv, LogInv
<1>3. Swapped' <=> Swapped
  BY <1>1 DEF Swapped
<1>4. \A h : Older(h)' <=> Older(h)
  BY <1>1, <1>3 DEF Older
<1>5. CASE UNCHANGED <<writer, log>>
  <2>1. writer' = writer /\ log' = log
    BY <1>5
  <2>2. Types' /\ DownInv' /\ StagedInv' /\ PendingInv'
    BY <1>1, <2>1 DEF IInv, Types, DownInv, StagedInv, PendingInv
  <2>3. SessionInv' /\ SaveInv' /\ WriterInv'
    BY <1>1, <1>3, <2>1 DEF IInv, SessionInv, SaveInv, WriterInv
  <2>4. LogInv'
    BY <1>4, <2>1 DEF IInv, LogInv
  <2> QED
    BY <2>2, <2>3, <2>4 DEF IInv
<1>6. CASE writer' = None /\ UNCHANGED log
  BY <1>1, <1>2, <1>6, WriterDropped
<1>7. CASE /\ ~staged.raced
           /\ writer # None
           /\ staged.header = writer.header
           /\ \/ writer' = Rewound(writer) /\ log' = new
              \/ RewriteFails(new)
  <2>1. /\ LogOK(new)
        /\ new.header = log.header
        /\ Mirrors(Rewound(writer), new, session)
        /\ log # None
        /\ Rewound(writer) \in Writer
        /\ Rewound(writer).header = writer.header
        /\ Rewound(writer).base_gen = writer.base_gen
        /\ Rewound(writer).rebase = writer.rebase
    BY <1>1, <1>7, InstallFacts
  <2> HIDE DEF new
  <2>2. CASE RewriteFails(new)
    <3>1. writer' = None /\ log' \in {log, new}
      BY <2>2 DEF RewriteFails
    <3> QED
      BY <1>1, <1>2, <2>1, <3>1, WriterDropped
  <2>3. CASE writer' = Rewound(writer) /\ log' = new
    <3>1. Types' /\ DownInv' /\ StagedInv'
      BY <1>1, <1>7, <2>1, <2>3 DEF IInv, Types, DownInv, StagedInv
    <3>2. SessionInv' /\ SaveInv'
      BY <1>1, <1>3 DEF IInv, SessionInv, SaveInv
    <3>3. LogInv'
      BY <1>4, <2>1, <2>3 DEF IInv, LogInv
    <3>4. WriterInv'
      BY <1>1, <1>3, <1>7, <2>1, <2>3 DEF IInv, WriterInv, AnchorBase
    <3>5. PendingInv'
      BY <1>1, <1>7 DEF IInv, PendingInv
    <3> QED
      BY <3>1, <3>2, <3>3, <3>4, <3>5 DEF IInv
  <2> QED
    BY <1>7, <2>2, <2>3
<1> QED
  BY <1>5, <1>6, <1>7 DEF InstallCompaction

-----------------------------------------------------------------------------
(* Transitions of the document slot keep the invariant.                    *)

\* A session goes live over the mapped file: focus, reload, recover, discard.
LEMMA GoesLive ==
    ASSUME IInv, up', TransitionsFree, file' = file, doc' = file,
           Sane(session'), Pinned(session', session'.saved_gen, file.view),
           writer' \in Writer \cup {None},
           writer' # None => /\ writer'.header = file
                             /\ AnchorBase(writer', file) = file.view
                             /\ Mirrors(writer', log', session'),
           log' # None => \/ log # None /\ log' = log
                          \/ LogOK(log') /\ log'.header = file,
           save' \in {save, Raced(save)}, staged' \in {staged, Raced(staged)},
           session' = session \/
              (save' = Raced(save) /\ (staged = None \/ staged' = Raced(staged))),
           pending' \in BOOLEAN, pending' => pending /\ writer' = None
    PROVE  IInv'
<1>1. /\ file \in FileState
      /\ file.ver \in Nat
      /\ save \in Save \cup {None}
      /\ staged \in Staged \cup {None}
      /\ save # None => save.phase = "streaming"
  BY DEF IInv, Types, FileState, TransitionsFree
<1>2. /\ save' \in Save \cup {None}
      /\ save' = None <=> save = None
      /\ save # None => save'.phase = "streaming"
      /\ save # None /\ save' # save => save'.raced = TRUE
      /\ save' = Raced(save) /\ save # None => save'.raced = TRUE
      /\ staged' \in Staged \cup {None}
      /\ staged' = None <=> staged = None
      /\ staged # None => staged'.header = staged.header
      /\ staged # None /\ staged' # staged => staged'.raced = TRUE
      /\ staged' = Raced(staged) /\ staged # None => staged'.raced = TRUE
  BY <1>1, RacedFacts
<1>3. ~Swapped /\ ~Swapped'
  BY <1>1, <1>2 DEF Swapped
<1>4. /\ \A h : Older(h)' <=> Older(h)
      /\ Older(file)
  BY <1>1, <1>3 DEF Older
<1>5. Types'
  BY <1>1, <1>2 DEF Types
<1>6. DownInv'
  BY DEF DownInv
<1>7. SessionInv'
  BY <1>3 DEF SessionInv
<1>8. SaveInv'
  <2> SUFFICES ASSUME save # None PROVE SaveInv'
    BY <1>2 DEF SaveInv
  <2>1. CASE save' = Raced(save)
    BY <1>2, <2>1 DEF SaveInv
  <2>2. CASE save' = save /\ session' = session
    BY <1>2, <2>2 DEF IInv, SaveInv
  <2> QED
    BY <2>1, <2>2
<1>9. LogInv'
  <2>1. log # None => LogOK(log) /\ Older(log.header)
    BY DEF IInv, LogInv
  <2>2. log' # None => LogOK(log') /\ (log'.header = file \/ (log' = log /\ log # None))
    BY <2>1
  <2>3. log' # None => log'.header.ver <= file.ver
    BY <1>1, <2>1, <2>2 DEF Older
  <2> QED
    BY <1>3, <2>2, <2>3 DEF LogInv, Older
<1>10. WriterInv'
  BY <1>3 DEF WriterInv
<1>11. StagedInv'
  <2> SUFFICES ASSUME staged # None PROVE StagedInv'
    BY <1>2 DEF StagedInv
  <2>1. Older(staged.header)
    BY DEF IInv, StagedInv
  <2>2. staged'.header.ver <= file'.ver /\ ~Swapped'
    BY <1>2, <1>3, <2>1 DEF Older
  <2>3. CASE staged'.raced
    BY <2>2, <2>3 DEF StagedInv, Older
  <2>4. CASE ~staged'.raced
    <3>1. staged' = staged /\ session' = session
      BY <1>2, <2>4
    <3>2. /\ staged.view = session.view
          /\ staged.on = staged.header.view
          /\ staged.header = file => staged.dirty = IsDirty(session)
      BY <2>4, <3>1 DEF IInv, StagedInv
    <3>3. IsDirty(session)' = IsDirty(session)
      BY <3>1 DEF IsDirty
    <3>4. staged'.view = session'.view /\ staged'.on = staged'.header.view
      BY <3>1, <3>2
    <3>5. staged'.header = file' => staged'.dirty = IsDirty(session)'
      BY <3>1, <3>2, <3>3
    <3>6. writer' # None => writer'.header = file'
      OBVIOUS
    <3> QED
      BY <2>2, <3>4, <3>5, <3>6 DEF StagedInv, Older
  <2> QED
    BY <2>3, <2>4
<1>12. PendingInv'
  BY <1>2 DEF IInv, PendingInv
<1> QED
  BY <1>5, <1>6, <1>7, <1>8, <1>9, <1>10, <1>11, <1>12 DEF IInv

\* attach_live_wal over the file that is mapped.
LEMMA AttachFacts ==
    ASSUME IInv, doc' = file, NEW s, NEW undecided \in BOOLEAN,
           Sane(s), Pinned(s, s.saved_gen, file.view), AttachLive(s, undecided)
    PROVE  /\ writer' \in Writer \cup {None}
           /\ writer' # None => /\ ~undecided
                                /\ writer'.header = file
                                /\ AnchorBase(writer', file) = file.view
                                /\ Mirrors(writer', log', s)
           /\ log' # None => \/ log # None /\ log' = log
                             \/ LogOK(log') /\ log'.header = file
<1> DEFINE w == NewWriter(file)
           l == IF IsDirty(s) THEN SnapshotOf(w, file, s) ELSE HeaderLog(file)
<1>1. file \in FileState
  BY DEF IInv, Types
<1>2. /\ w \in Writer
      /\ w.header = file
      /\ AnchorBase(w, file) = file.view
  BY <1>1, NewWriterFacts
<1>3. LogOK(l) /\ l.header = file /\ Mirrors(w, l, s)
  BY <1>1, NewLogFacts
<1>4. LogOK(HeaderLog(file)) /\ HeaderLog(file).header = file
  BY <1>1, HeaderLogFacts
<1>5. AttachedLog(s) = l
  BY DEF AttachedLog
<1> HIDE DEF w, l
<1>6. \/ undecided /\ writer' = None /\ log' = log
      \/ ~undecided /\ writer' = w /\ log' = l
      \/ ~undecided /\ writer' = None /\ log' \in {log, HeaderLog(file), l}
  BY <1>5 DEF AttachLive, w
<1> QED
  BY <1>2, <1>3, <1>4, <1>6

LEMMA RefocusInv ==
    ASSUME IInv, doc = file, Refocus
    PROVE  IInv'
<1>1. /\ up
      /\ TransitionsFree
      /\ up' = up /\ file' = file /\ doc' = doc /\ session' = session
      /\ save' = save /\ staged' = staged /\ pending' = pending
      /\ AttachLive(session, pending)
  BY DEF Refocus
<1>2. Sane(session) /\ Pinned(session, session.saved_gen, file.view) /\ pending \in BOOLEAN
  BY <1>1 DEF IInv, Types, SessionInv, TransitionsFree, Swapped
<1>3. /\ writer' \in Writer \cup {None}
      /\ writer' # None => /\ ~pending
                           /\ writer'.header = file
                           /\ AnchorBase(writer', file) = file.view
                           /\ Mirrors(writer', log', session)
      /\ log' # None => \/ log # None /\ log' = log
                        \/ LogOK(log') /\ log'.header = file
  BY <1>1, <1>2, AttachFacts
<1>4. Sane(session') /\ Pinned(session', session'.saved_gen, file.view)
      /\ (writer' # None => Mirrors(writer', log', session'))
  BY <1>1, <1>2, <1>3
<1>5. pending' \in BOOLEAN /\ (pending' => pending /\ writer' = None)
  BY <1>1, <1>2, <1>3
<1> QED
  BY <1>1, <1>3, <1>4, <1>5, GoesLive

LEMMA ReloadInv ==
    ASSUME IInv, Reload
    PROVE  IInv'
<1>1. /\ up
      /\ TransitionsFree
      /\ doc' = file
      /\ session' = Fresh(file.view)
      /\ save' = Raced(save)
      /\ staged' = Raced(staged)
      /\ AttachLive(session', pending)
      /\ up' = up /\ file' = file /\ pending' = pending
  BY DEF Reload
<1>2. file.view \in Contents /\ pending \in BOOLEAN
  BY DEF IInv, Types, FileState
<1>3. Sane(session') /\ Pinned(session', session'.saved_gen, file.view)
  BY <1>1, <1>2, FreshFacts
<1>4. /\ writer' \in Writer \cup {None}
      /\ writer' # None => /\ ~pending
                           /\ writer'.header = file
                           /\ AnchorBase(writer', file) = file.view
                           /\ Mirrors(writer', log', session')
      /\ log' # None => \/ log # None /\ log' = log
                        \/ LogOK(log') /\ log'.header = file
  BY <1>1, <1>2, <1>3, AttachFacts
<1>5. pending' \in BOOLEAN /\ (pending' => pending /\ writer' = None)
  BY <1>1, <1>2, <1>4
<1> QED
  BY <1>1, <1>3, <1>4, <1>5, GoesLive

LEMMA DiscardInv ==
    ASSUME IInv, doc = file, Discard
    PROVE  IInv'
<1>1. /\ up
      /\ pending
      /\ TransitionsFree
      /\ pending' = FALSE
      /\ up' = up /\ file' = file /\ doc' = doc /\ session' = session
      /\ save' = save /\ staged' = staged
      /\ \/ writer' = NewWriter(file) /\ log' = AttachedLog(session)
         \/ writer' = None /\ log' \in {None, HeaderLog(file), AttachedLog(session)}
  BY DEF Discard
<1>2. /\ Sane(session)
      /\ Pinned(session, session.saved_gen, file.view)
      /\ file \in FileState
  BY <1>1 DEF IInv, Types, SessionInv, TransitionsFree, Swapped
<1>3. LET l == IF IsDirty(session) THEN SnapshotOf(NewWriter(file), file, session)
               ELSE HeaderLog(file)
      IN  LogOK(l) /\ l.header = file /\ Mirrors(NewWriter(file), l, session)
  BY <1>2, NewLogFacts
<1>4. /\ LogOK(AttachedLog(session))
      /\ AttachedLog(session).header = file
      /\ Mirrors(NewWriter(file), AttachedLog(session), session)
  BY <1>1, <1>3 DEF AttachedLog
<1>5. /\ LogOK(HeaderLog(file))
      /\ HeaderLog(file).header = file
      /\ NewWriter(file) \in Writer
      /\ NewWriter(file).header = file
      /\ AnchorBase(NewWriter(file), file) = file.view
  BY <1>2, HeaderLogFacts, NewWriterFacts
<1>6. /\ writer' \in Writer \cup {None}
      /\ writer' # None => /\ writer'.header = file
                           /\ AnchorBase(writer', file) = file.view
                           /\ Mirrors(writer', log', session)
      /\ log' # None => LogOK(log') /\ log'.header = file
  BY <1>1, <1>4, <1>5
<1>7. /\ Sane(session')
      /\ Pinned(session', session'.saved_gen, file.view)
      /\ writer' # None => Mirrors(writer', log', session')
  BY <1>1, <1>2, <1>6
<1> QED
  BY <1>1, <1>6, <1>7, GoesLive

LEMMA RecoverInv ==
    ASSUME IInv, Recover
    PROVE  IInv'
<1>1. /\ up
      /\ pending
      /\ TransitionsFree
      /\ log # None
      /\ log.header = file
      /\ up' = up /\ file' = file /\ doc' = doc /\ staged' = staged
  BY DEF Recover
<1>2. /\ doc = file
      /\ writer = None
      /\ staged = None
      /\ file \in FileState
      /\ LogOK(log)
      /\ Sane(log.replay)
      /\ Pinned(log.replay, log.replay.saved_gen, file.view)
      /\ Sane(session)
      /\ Pinned(session, session.saved_gen, file.view)
  BY <1>1 DEF IInv, Types, PendingInv, LogInv, LogOK, SessionInv, TransitionsFree, Swapped
<1>3. LET l == IF IsDirty(log.replay) THEN SnapshotOf(NewWriter(file), file, log.replay)
               ELSE HeaderLog(file)
      IN  LogOK(l) /\ l.header = file /\ Mirrors(NewWriter(file), l, log.replay)
  BY <1>2, NewLogFacts
<1>4. /\ LogOK(Rearmed)
      /\ Rearmed.header = file
      /\ Mirrors(NewWriter(file), Rearmed, log.replay)
  BY <1>2, <1>3 DEF Rearmed
<1>5. /\ LogOK(HeaderLog(file))
      /\ HeaderLog(file).header = file
      /\ NewWriter(file) \in Writer
      /\ NewWriter(file).header = file
      /\ AnchorBase(NewWriter(file), file) = file.view
  BY <1>2, HeaderLogFacts, NewWriterFacts
<1>6. CASE /\ session' = log.replay
           /\ pending' = FALSE
           /\ save' = Raced(save)
           /\ \/ writer' = NewWriter(file) /\ log' = Rearmed
              \/ writer' = None /\ log' \in {log, HeaderLog(file), Rearmed}
  <2>1. /\ writer' \in Writer \cup {None}
        /\ writer' # None => /\ writer'.header = file
                             /\ AnchorBase(writer', file) = file.view
                             /\ Mirrors(writer', log', session')
        /\ log' # None => \/ log # None /\ log' = log
                          \/ LogOK(log') /\ log'.header = file
    BY <1>1, <1>4, <1>5, <1>6
  <2>2. Sane(session') /\ Pinned(session', session'.saved_gen, file.view)
    BY <1>2, <1>6
  <2> QED
    BY <1>1, <1>2, <1>6, <2>1, <2>2, GoesLive
<1>7. CASE /\ log' \in {log, HeaderLog(file), Rearmed}
           /\ session' = session /\ pending' = pending /\ save' = save /\ writer' = writer
  <2>1. log' # None => \/ log # None /\ log' = log
                       \/ LogOK(log') /\ log'.header = file
    BY <1>1, <1>4, <1>5, <1>7
  <2>2. Sane(session') /\ Pinned(session', session'.saved_gen, file.view)
    BY <1>2, <1>7
  <2> QED
    BY <1>1, <1>2, <1>7, <2>1, <2>2, GoesLive
<1> QED
  BY <1>6, <1>7 DEF Recover

\* Closing, shutting down and crashing leave a log that a reader may use.
LEMMA GoneInv ==
    ASSUME IInv, Gone,
           log' # None => \/ log # None /\ log' = log
                          \/ LogOK(log') /\ log'.header = file
    PROVE  IInv'
<1>1. /\ up' = FALSE
      /\ session' = Fresh(file.view)
      /\ doc' = file
      /\ writer' = None /\ save' = None /\ staged' = None
      /\ pending' = FALSE
      /\ file' = file
  BY DEF Gone
<1>2. file \in FileState /\ file.ver \in Nat /\ file.view \in Contents
  BY DEF IInv, Types, FileState
<1>3. ~Swapped'
  BY <1>1 DEF Swapped
<1>4. Types'
  BY <1>1, <1>2 DEF Types
<1>5. DownInv' /\ SaveInv' /\ WriterInv' /\ StagedInv' /\ PendingInv'
  BY <1>1 DEF DownInv, SaveInv, WriterInv, StagedInv, PendingInv
<1>6. SessionInv'
  BY <1>1, <1>2, FreshFacts DEF SessionInv
<1>7. LogInv'
  <2>1. log # None => LogOK(log) /\ log.header.ver <= file.ver
    BY DEF IInv, LogInv, Older
  <2>2. log' # None => LogOK(log') /\ log'.header.ver <= file.ver
    BY <1>2, <2>1
  <2> QED
    BY <1>1, <1>3, <2>2 DEF LogInv, Older
<1> QED
  BY <1>4, <1>5, <1>6, <1>7 DEF IInv

LEMMA EndsInv ==
    ASSUME IInv, Close \/ Shutdown \/ Crash \/ CrashInAttach
    PROVE  IInv'
<1>1. file \in FileState
  BY DEF IInv, Types
<1>2. LogOK(HeaderLog(file)) /\ HeaderLog(file).header = file
  BY <1>1, HeaderLogFacts
<1>3. Gone
  BY DEF Close, Shutdown, Crash, CrashInAttach
<1>4. log' \in {log, None, HeaderLog(file)}
  BY DEF Close, Shutdown, Crash, CrashInAttach
<1> QED
  BY <1>2, <1>3, <1>4, GoneInv

LEMMA OpenInv ==
    ASSUME IInv, Open
    PROVE  IInv'
<1>1. /\ ~up
      /\ up' = TRUE
      /\ doc' = file
      /\ session' = Fresh(file.view)
      /\ file' = file /\ save' = save /\ staged' = staged
  BY DEF Open
<1>2. /\ writer = None
      /\ save = None
      /\ staged = None
      /\ file \in FileState
      /\ file.view \in Contents
  BY <1>1 DEF IInv, DownInv, Types, FileState
<1>3. /\ Sane(session')
      /\ Pinned(session', session'.saved_gen, file.view)
      /\ ~IsDirty(session')
  BY <1>1, <1>2, FreshFacts DEF IsDirty, Fresh
<1>4. ~Swapped /\ ~Swapped'
  BY <1>1, <1>2 DEF Swapped
<1>5. LET l == IF IsDirty(session') THEN SnapshotOf(NewWriter(file), file, session')
               ELSE HeaderLog(file)
      IN  LogOK(l) /\ l.header = file /\ Mirrors(NewWriter(file), l, session')
  BY <1>2, <1>3, NewLogFacts
<1>6. /\ LogOK(HeaderLog(file))
      /\ HeaderLog(file).header = file
      /\ Mirrors(NewWriter(file), HeaderLog(file), session')
      /\ NewWriter(file) \in Writer
      /\ NewWriter(file).header = file
      /\ AnchorBase(NewWriter(file), file) = file.view
  BY <1>2, <1>3, <1>5, NewWriterFacts
<1>7. \/ writer' = None /\ log' \in {log, None} /\ pending' \in BOOLEAN
      \/ writer' = NewWriter(file) /\ log' = HeaderLog(file) /\ pending' = FALSE
  BY <1>2 DEF Open
<1>8. Types'
  BY <1>1, <1>2, <1>6, <1>7 DEF Types
<1>9. DownInv' /\ SaveInv' /\ StagedInv'
  BY <1>1, <1>2 DEF DownInv, SaveInv, StagedInv
<1>10. SessionInv'
  BY <1>1, <1>3 DEF SessionInv
<1>11. LogInv'
  <2>1. log # None => LogOK(log) /\ log.header.ver <= file.ver
    BY DEF IInv, LogInv, Older
  <2>2. file.ver <= file.ver
    BY <1>2 DEF FileState
  <2> QED
    BY <1>1, <1>4, <1>6, <1>7, <2>1, <2>2 DEF LogInv, Older
<1>12. WriterInv'
  BY <1>1, <1>3, <1>6, <1>7 DEF WriterInv
<1>13. PendingInv'
  BY <1>1, <1>2, <1>7 DEF PendingInv
<1> QED
  BY <1>8, <1>9, <1>10, <1>11, <1>12, <1>13 DEF IInv

-----------------------------------------------------------------------------
(* The invariant, and what follows from it.                                *)

LEMMA InitInv == Init => IInv
<1> SUFFICES ASSUME Init PROVE IInv
  OBVIOUS
<1>1. file \in FileState /\ file.view \in Contents
  BY DEF Init, FileState
<1>2. Sane(session) /\ Pinned(session, session.saved_gen, file.view)
  BY <1>1, FreshFacts DEF Init
<1> QED
  BY <1>1, <1>2 DEF Init, IInv, Types, DownInv, SessionInv, SaveInv, LogInv, WriterInv,
                    StagedInv, PendingInv, Swapped

LEMMA StutterInv == IInv /\ UNCHANGED vars => IInv'
<1> SUFFICES ASSUME IInv, UNCHANGED vars PROVE IInv'
  OBVIOUS
<1>1. /\ up' = up /\ file' = file /\ doc' = doc /\ session' = session
      /\ writer' = writer /\ log' = log /\ save' = save /\ staged' = staged
      /\ pending' = pending
  BY DEF vars
<1> QED
  BY <1>1 DEF IInv, Types, DownInv, SessionInv, SaveInv, LogInv, WriterInv, StagedInv,
              PendingInv, Swapped, Older

LEMMA NextInv == IInv /\ [Next]_vars => IInv'
<1> SUFFICES ASSUME IInv, [Next]_vars PROVE IInv'
  OBVIOUS
<1>1. CASE Edit \/ Undo \/ Redo
  BY <1>1, EditInv
<1>2. CASE SaveBegin
  BY <1>2, SaveBeginInv
<1>3. CASE SaveConfirm
  BY <1>3, SaveConfirmInv
<1>4. CASE SaveAbort
  BY <1>4, SaveAbortInv
<1>5. CASE SaveSwap
  BY <1>5, SaveSwapInv
<1>6. CASE SaveCommit
  BY <1>6, SaveCommitInv
<1>7. CASE SyncFails
  BY <1>7, SyncFailsInv
<1>8. CASE StageCompaction
  BY <1>8, StageCompactionInv
<1>9. CASE InstallCompaction
  BY <1>9, InstallCompactionInv
<1>10. CASE Reload
  BY <1>10, ReloadInv
<1>11. CASE Close \/ Shutdown \/ Crash \/ CrashInAttach
  BY <1>11, EndsInv
<1>12. CASE Open
  BY <1>12, OpenInv
<1>13. CASE Recover
  BY <1>13, RecoverInv
<1>14. CASE doc = file /\ Refocus
  BY <1>14, RefocusInv
<1>15. CASE doc = file /\ Discard
  BY <1>15, DiscardInv
<1>16. CASE UNCHANGED vars
  BY <1>16, StutterInv
<1> QED
  BY <1>1, <1>2, <1>3, <1>4, <1>5, <1>6, <1>7, <1>8, <1>9, <1>10, <1>11, <1>12, <1>13,
     <1>14, <1>15, <1>16 DEF Next, Common

\* The inductive invariant holds throughout every behavior of the editor.
THEOREM Invariance == Spec => []IInv
<1>1. Init => IInv
  BY InitInv
<1>2. IInv /\ [Next]_vars => IInv'
  BY NextInv
<1> QED
  BY <1>1, <1>2, PTL DEF Spec

\* Type correctness of the session, the log, the writer and what is in flight.
THEOREM TypeCorrect == Spec => []TypeOK
<1>1. IInv => TypeOK
  BY SaneIsSession, LogIsLog DEF IInv, Types, SessionInv, LogInv, TypeOK
<1> QED
  BY <1>1, Invariance, PTL

\* After any mix of edits, undos, saves, compactions and I/O failures, what a
\* restart would recover is the live view, and it offers it when it is unsaved.
THEOREM RecoveryIsFaithful == Spec => []RecoveryFaithful
<1>1. ASSUME IInv PROVE RecoveryFaithful
  <2> SUFFICES ASSUME writer # None, ~(Swapped /\ save.raced)
               PROVE  /\ RecoveredView(log, file) = session.view
                      /\ IsDirty(session) /\ ~Swapped => Inspect(log, file) = "recoverable"
    BY DEF RecoveryFaithful
  <2>1. /\ log # None
        /\ LogOK(log)
        /\ Older(log.header)
        /\ Aligned(log.replay, session)
        /\ ~Swapped => log.header = file
        /\ file \in FileState
    BY <1>1 DEF IInv, Types, LogInv, WriterInv, Mirrors
  <2>2. /\ log.replay.view = session.view
        /\ IsDirty(log.replay) <=> IsDirty(session)
    BY <2>1 DEF Aligned, Alike, Here, IsDirty
  <2>3. ~log.txns => (log.effective <=> IsDirty(log.replay) \/ log.replay.view # log.header.view)
    BY <2>1 DEF LogOK
  <2>4. CASE ~Swapped
    BY <2>1, <2>2, <2>3, <2>4 DEF RecoveredView, Inspect
  <2>5. CASE Swapped
    <3>1. ~save.raced /\ save # None /\ save.phase = "swapped"
      BY <2>5 DEF Swapped
    <3>2. file.view = session.view
      BY <1>1, <3>1 DEF IInv, SaveInv
    <3>3. log.header # file
      BY <2>1, <2>5 DEF Older, FileState
    <3> QED
      BY <2>1, <2>5, <3>2, <3>3 DEF RecoveredView, Inspect
  <2> QED
    BY <2>4, <2>5
<1> QED
  BY <1>1, Invariance, PTL

\* A recovered session undoes and redoes through the views the live one would.
THEOREM HistoryIsFaithful == Spec => []HistoryFaithful
<1>1. ASSUME IInv PROVE HistoryFaithful
  <2> SUFFICES ASSUME writer # None PROVE HistoryFaithful
    BY DEF HistoryFaithful
  <2>1. Aligned(log.replay, session) /\ LogOK(log) /\ Sane(session)
    BY <1>1 DEF IInv, WriterInv, Mirrors, LogInv, SessionInv
  <2>2. /\ DOMAIN log.replay.undo = 1..Len(log.replay.undo)
        /\ DOMAIN log.replay.redo = 1..Len(log.replay.redo)
        /\ DOMAIN session.undo = 1..Len(session.undo)
        /\ DOMAIN session.redo = 1..Len(session.redo)
        /\ Len(log.replay.undo) \in Nat /\ Len(log.replay.redo) \in Nat
        /\ Len(session.undo) \in Nat /\ Len(session.redo) \in Nat
    BY <2>1, SaneFields DEF LogOK
  <2>3. IsDirty(log.replay) <=> IsDirty(session)
    BY <2>1 DEF Aligned, Alike, Here, IsDirty
  <2>4. \A i \in DOMAIN log.replay.undo :
            i \in DOMAIN session.undo /\ log.replay.undo[i].view = session.undo[i].view
    BY <2>1, <2>2 DEF Aligned, Above, Alike
  <2>5. \A i \in DOMAIN log.replay.redo :
            i \in DOMAIN session.redo /\ log.replay.redo[i].view = session.redo[i].view
    BY <2>1, <2>2 DEF Aligned, Above, Alike
  <2> QED
    BY <2>3, <2>4, <2>5 DEF HistoryFaithful
<1> QED
  BY <1>1, Invariance, PTL

\* The stack depths the writer counts are those of the replaying session.
THEOREM CountersAreExact == Spec => []CountersExact
<1>1. IInv => CountersExact
  BY DEF IInv, WriterInv, Mirrors, CountersExact
<1> QED
  BY <1>1, Invariance, PTL

\* No log that still matches the file restores a view nobody made.
THEOREM NothingCorruptRestored == Spec => []NoCorruptRestore
<1>1. ASSUME IInv PROVE NoCorruptRestore
  BY <1>1, LogFields, SaneFields, CorruptAssumption DEF IInv, LogInv, NoCorruptRestore
<1> QED
  BY <1>1, Invariance, PTL

\* A session that reads clean shows what is on disk.
THEOREM CleanIsSaved == Spec => []CleanMeansSaved
<1>1. ASSUME IInv PROVE CleanMeansSaved
  BY <1>1, SaneFields DEF IInv, SessionInv, CleanMeansSaved, Pinned, IsDirty, Here
<1> QED
  BY <1>1, Invariance, PTL

\* Nothing unsaved and nothing logged means no recovery is offered.
THEOREM NoFalseOffers == Spec => []NoFalseOffer
<1>1. ASSUME IInv PROVE NoFalseOffer
  <2> SUFFICES ASSUME writer # None, ~Swapped, ~log.txns, ~IsDirty(session)
               PROVE  Inspect(log, file) = "clean"
    BY DEF NoFalseOffer
  <2>1. /\ log # None
        /\ LogOK(log)
        /\ Aligned(log.replay, session)
        /\ log.header = file
        /\ Pinned(session, session.saved_gen, file.view)
        /\ Sane(session)
    BY <1>1 DEF IInv, LogInv, WriterInv, Mirrors, SessionInv
  <2>2. session.view = file.view
    BY <2>1, SaneFields DEF Pinned, IsDirty, Here
  <2>3. log.replay.view = session.view /\ ~IsDirty(log.replay)
    BY <2>1 DEF Aligned, Alike, Here, IsDirty
  <2>4. ~log.effective
    BY <2>1, <2>2, <2>3 DEF LogOK
  <2> QED
    BY <2>1, <2>4 DEF Inspect
<1> QED
  BY <1>1, Invariance, PTL

\* Two logs over one header that replay to one view are the same to a restart.
LEMMA SameRecovered ==
    ASSUME NEW k, NEW l, NEW f, LogOK(k), LogOK(l), k.header = l.header,
           k.replay.view = l.replay.view
    PROVE  RecoveredView(k, f) = RecoveredView(l, f)
<1>1. /\ k # None
      /\ l # None
      /\ ~k.txns => (k.effective <=> IsDirty(k.replay) \/ k.replay.view # k.header.view)
      /\ ~l.txns => (l.effective <=> IsDirty(l.replay) \/ l.replay.view # l.header.view)
  BY LogIsLog DEF LogOK
<1>2. CASE k.header # f
  BY <1>1, <1>2 DEF RecoveredView, Inspect
<1>3. CASE k.header = f
  BY <1>1, <1>3 DEF RecoveredView, Inspect
<1> QED
  BY <1>2, <1>3

\* Installing a compaction staged off the lock changes nothing a restart sees.
THEOREM CompactionIsInvisible == Spec => CompactionInvisible
<1> DEFINE A == staged # None /\ staged' = None /\ up' =>
                    RecoveredView(log', file') = RecoveredView(log, file)
           new == SnapshotLog(staged.header, staged.view, staged.on, staged.dirty)
<1>1. ASSUME IInv, [Next]_vars PROVE [A]_vars
  <2> SUFFICES ASSUME staged # None, staged' = None, up'
               PROVE  RecoveredView(log', file') = RecoveredView(log, file)
    OBVIOUS
  <2>1. up /\ staged \in Staged
    BY <1>1 DEF IInv, DownInv, Types
  <2>2. Raced(staged) # None
    BY <2>1, RacedFacts
  <2>3. CASE InstallCompaction
    <3>1. CASE log' = log
      BY <2>3, <3>1 DEF InstallCompaction
    <3>2. CASE log' # log
      <4>1. /\ ~staged.raced
            /\ writer # None
            /\ staged.header = writer.header
            /\ log' = new
            /\ file' = file
        BY <2>3, <3>2 DEF InstallCompaction, RewriteFails
      <4>2. /\ LogOK(new)
            /\ new.header = log.header
            /\ Mirrors(Rewound(writer), new, session)
        BY <1>1, <4>1, InstallFacts
      <4>3. LogOK(log) /\ Mirrors(writer, log, session)
        BY <1>1, <4>1 DEF IInv, LogInv, WriterInv, Mirrors
      <4> HIDE DEF new
      <4>4. new.replay.view = log.replay.view
        BY <4>2, <4>3 DEF Mirrors, Aligned, Alike, Here
      <4> QED
        BY <4>1, <4>2, <4>3, <4>4, SameRecovered
    <3> QED
      BY <3>1, <3>2
  <2>4. CASE Edit \/ Undo \/ Redo \/ Reload
    BY <2>2, <2>4 DEF Edit, Undo, Redo, Step, Reload
  <2>5. CASE \/ SaveBegin \/ SaveConfirm \/ SaveAbort \/ SaveSwap \/ SaveCommit
             \/ SyncFails \/ StageCompaction \/ Recover \/ Refocus \/ Discard
             \/ UNCHANGED vars
    BY <2>5 DEF SaveBegin, SaveConfirm, SaveAbort, SaveSwap, SaveCommit, SyncFails,
                StageCompaction, Recover, Refocus, Discard, vars
  <2>6. CASE Close \/ Shutdown \/ Crash \/ CrashInAttach \/ Open
    BY <2>1, <2>6 DEF Close, Shutdown, Crash, CrashInAttach, Gone, Open
  <2> QED
    BY <1>1, <2>3, <2>4, <2>5, <2>6 DEF Next, Common
<1>2. Spec => [][A]_vars
  <2> HIDE DEF A
  <2> QED
    BY <1>1, Invariance, PTL DEF Spec
<1> QED
  BY <1>2 DEF CompactionInvisible

=============================================================================
