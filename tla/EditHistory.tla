---------------------------- MODULE EditHistory ----------------------------
(***************************************************************************)
(* The history half of one EditSession (edit/history.rs, edit/mod.rs): the *)
(* content generation, the two bounded stacks, undo, redo, and the saved    *)
(* marker that dirtiness is measured against.                               *)
(*                                                                         *)
(* What the overlay shows is abstracted to a `view', a member of Views; its *)
(* lines are left out.  A history entry restores a view, so it holds the    *)
(* view itself instead of the inverse steps that rebuild it.  `revision' is *)
(* not kept: every operation below bumps it, and whoever compares revisions *)
(* keeps a flag that those operations raise.                                *)
(***************************************************************************)
EXTENDS Naturals, Sequences

CONSTANTS
    Contents,      \* what a document can show
    Corrupt,       \* a view no user ever made: overlay applied to wrong lines
    HistoryLimit   \* HISTORY_LIMIT, the cap of each history stack

ASSUME CorruptAssumption == Corrupt \notin Contents
ASSUME HistoryLimitAssumption == HistoryLimit \in Nat \ {0}

Views == Contents \cup {Corrupt}

Entry(V) == [view : V, gen : Nat]

\* A session whose view and whole history lie in V.
Session(V) ==
    [view : V, content_gen : Nat, next_gen : Nat, saved_gen : Nat,
     undo : Seq(Entry(V)), redo : Seq(Entry(V))]

-----------------------------------------------------------------------------
(* Stacks keep their top at index 1.                                       *)

\* push_history: a full stack forgets its oldest entry.
Push(stack, e) ==
    [i \in 1..(IF Len(stack) < HistoryLimit THEN Len(stack) + 1 ELSE Len(stack))
        |-> IF i = 1 THEN e ELSE stack[i - 1]]

Pop(stack) == [i \in 1..(Len(stack) - 1) |-> stack[i + 1]]

\* The entry that brings session s back to where it is now.
Here(s) == [view |-> s.view, gen |-> s.content_gen]

-----------------------------------------------------------------------------
\* EditSession::default over a document showing v.
Fresh(v) ==
    [view |-> v, content_gen |-> 0, next_gen |-> 1, saved_gen |-> 0,
     undo |-> <<>>, redo |-> <<>>]

\* finish_change: a mutation that really changed the overlay.
Changed(s, v) ==
    [view |-> v, content_gen |-> s.next_gen,
     next_gen |-> s.next_gen + 1, saved_gen |-> s.saved_gen,
     undo |-> Push(s.undo, Here(s)), redo |-> <<>>]

\* undo() and redo(), when there is something to undo or redo.
Undone(s) ==
    [view |-> s.undo[1].view, content_gen |-> s.undo[1].gen,
     next_gen |-> s.next_gen, saved_gen |-> s.saved_gen,
     undo |-> Pop(s.undo), redo |-> Push(s.redo, Here(s))]

Redone(s) ==
    [view |-> s.redo[1].view, content_gen |-> s.redo[1].gen,
     next_gen |-> s.next_gen, saved_gen |-> s.saved_gen,
     undo |-> Push(s.undo, Here(s)), redo |-> Pop(s.redo)]

\* Mutant of Restored: the snapshot's dirty flag is dropped.
RestoredClean(v, dirty) ==
    [view |-> v, content_gen |-> 0, next_gen |-> 2,
     saved_gen |-> 0, undo |-> <<>>, redo |-> <<>>]

\* restore_overlay: the overlay comes back, the history does not.
Restored(v, dirty) ==
    [view |-> v, content_gen |-> IF dirty THEN 1 ELSE 0, next_gen |-> 2,
     saved_gen |-> 0, undo |-> <<>>, redo |-> <<>>]

\* Mutant of MarkedSaved: mark_saved, which takes the live generation.
MarkedSavedLive(s, gen) == [s EXCEPT !.saved_gen = s.content_gen]

\* mark_saved_from: the snapshot's generation is what reached the disk.
MarkedSaved(s, gen) == [s EXCEPT !.saved_gen = gen]

IsDirty(s) == s.content_gen # s.saved_gen

\* revision() = 0: nothing has happened to this session since it was made.
\* Every operation that bumps the revision also leaves next_gen above 1.
Untouched(s) == s.next_gen = 1
=============================================================================
