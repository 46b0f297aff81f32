---------------------------- MODULE ViewHistory ----------------------------
(***************************************************************************)
(* What an EditSession promises about its history, lines left out: a       *)
(* change replaces the view and can be undone and redone, exactly, as far  *)
(* as the stacks reach.  `CrashLog' relies on this; `Overlay' implements   *)
(* it with sparse patches and inverse steps.                               *)
(***************************************************************************)
EXTENDS EditHistory

VARIABLE session

Init == session = Fresh(session.view)

(* s is the session before a step, t the one after it.                     *)

Change(s, t) == t = Changed(s, t.view)

Undo(s, t) == s.undo # <<>> /\ t = Undone(s)

Redo(s, t) == s.redo # <<>> /\ t = Redone(s)

\* Any content so far may be the one that reached the disk.
MarkSaved(s, t) == t.saved_gen < s.next_gen /\ t = MarkedSaved(s, t.saved_gen)

Next == \E s \in {session}, t \in {session'} :
           Change(s, t) \/ Undo(s, t) \/ Redo(s, t) \/ MarkSaved(s, t)

Spec == Init /\ [][Next]_session
=============================================================================
