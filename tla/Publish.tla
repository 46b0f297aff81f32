------------------------------ MODULE Publish -------------------------------
(***************************************************************************)
(* How finished bytes take the name of a file (fsync.rs), and those who do  *)
(* it: a transform, a save over a file or to a new one, a sort in place or an  *)
(* export of the server, and a split, which publishes its parts one by one  *)
(* and takes them back when one fails.  Every rename and removal may fail, and  *)
(* the program may be killed between any two of them.                       *)
(***************************************************************************)
EXTENDS Integers

CONSTANTS
    Writers,      \* threads and processes that publish
    Manners,      \* "replace", "create", "keep" (the server's), "split"
    Parts,        \* how many files a split makes
    MaxRuns       \* bound: publications begun in one behaviour

ASSUME PublishConstants == Parts \in Nat \ {0} /\ MaxRuns \in Nat

VARIABLES
    named,        \* what each name holds
    aside,        \* what its aside name holds
    staged,       \* what the stage of each writer holds
    pub,          \* manner, number, target, part in hand and answer of each writer
    \* What the properties speak of, and no step reads:
    begun,        \* publications begun
    owner,        \* the last publication begun over a name
    last,         \* what the name held last
    before,       \* what the names held when a writer began
    met           \* the names over which two publications have met

files == <<named, aside, staged>>
story == <<begun, owner, before, met>>
pubVars == <<files, pub, begun, owner, last, before, met>>

Names == 1 .. Parts
NoFile == -1
Half == -2                        \* a stage that is not finished
Leftover == -3                    \* what an earlier publication left aside
Original == 0
Bytes == {NoFile, Half, Leftover, Original} \cup 1 .. MaxRuns
Running == {"check", "write", "rename", "clear", "move", "promote", "restore", "drop", "published",
            "discard", "undo"}

Touched(p) == IF p.manner = "split" THEN Names ELSE {p.name}
Target(w) == pub[w].name
PubAt(w, pc) == pub[w].pc = pc
Onto(p, pc) == [p EXCEPT !.pc = pc]
Then(w, pc) == pub' = [pub EXCEPT ![w] = Onto(pub[w], pc)]
Holds(n, c) == named' = [named EXCEPT ![n] = c]
Exists(n) == named[n] # NoFile
\* A split, a save to a new file and whatever was not told to overwrite
\* must not find their target there.
Occupied(w) == pub[w].new /\ Exists(Target(w))
\* keep_stage_error: a finished stage may hold the only copy of what was saved.
Keeps(p) == p.manner = "keep" /\ p.whole
\* A removal whose error is ignored.
UnlinkedAt(f, x) == f' \in {f, [f EXCEPT ![x] = NoFile]}
Follow == last' = [n \in Names |-> IF named'[n] # NoFile THEN named'[n] ELSE last[n]]

-----------------------------------------------------------------------------
Begun(m, n, new) ==
    [manner |-> m, new |-> new, id |-> begun + 1, name |-> IF m = "split" THEN 1 ELSE n,
     made |-> 0, pc |-> "check", whole |-> FALSE, tidy |-> TRUE]

Publishes(w) ==
    /\ pub[w].pc \notin Running /\ begun < MaxRuns
    /\ \E m \in Manners, n \in Names, new \in BOOLEAN :
          LET p == Begun(m, n, new)
          IN  /\ m \in {"create", "split"} => new
              /\ pub' = [pub EXCEPT ![w] = p]
              /\ owner' = [x \in Names |-> IF x \in Touched(p) THEN begun + 1 ELSE owner[x]]
              /\ met' = met \cup {x \in Touched(p) :
                            \E v \in Writers : pub[v].pc \in Running /\ x \in Touched(pub[v])}
    /\ begun' = begun + 1
    /\ before' = [before EXCEPT ![w] = named]
    /\ staged' = [staged EXCEPT ![w] = NoFile]
    /\ UNCHANGED <<named, aside, last>>

Check(w) ==
    /\ PubAt(w, "check")
    /\ Then(w, IF Occupied(w) THEN "discard" ELSE "write")
    /\ UNCHANGED <<files, last, story>>

Finished(p) == [p EXCEPT !.pc = "rename", !.whole = TRUE]

\* The bytes, flushed and synced; an error may leave what was written.
Write(w) ==
    /\ PubAt(w, "write")
    /\ \/ staged' = [staged EXCEPT ![w] = pub[w].id] /\ pub' = [pub EXCEPT ![w] = Finished(pub[w])]
       \/ staged' = [staged EXCEPT ![w] = Half] /\ Then(w, "discard")
    /\ UNCHANGED <<named, aside, last, story>>

\* The stage takes the name; a renamed file replaces the one that was there.
Takes(w, pc) ==
    /\ Holds(Target(w), staged[w]) /\ staged' = [staged EXCEPT ![w] = NoFile]
    /\ Then(w, pc) /\ Follow

\* replace_with_staged_by: the rename, and where it fails the way round.
Rename(w) ==
    /\ PubAt(w, "rename")
    /\ \/ Takes(w, "published") /\ UNCHANGED aside
       \/ /\ Then(w, IF Exists(Target(w)) /\ pub[w].manner # "create" THEN "clear" ELSE "discard")
          /\ UNCHANGED <<files, last>>
    /\ UNCHANGED story

\* rename_via_aside: what an earlier publication left goes, then the target
\* is moved there, if it exists.
ClearAside(w) ==
    /\ PubAt(w, "clear")
    /\ \/ Exists(Target(w)) /\ UnlinkedAt(aside, Target(w)) /\ Then(w, "move")
       \/ ~Exists(Target(w)) /\ Then(w, "promote") /\ UNCHANGED aside
    /\ UNCHANGED <<named, staged, last, story>>

PutAside(w) ==
    /\ PubAt(w, "move")
    /\ \/ /\ Exists(Target(w))
          /\ aside' = [aside EXCEPT ![Target(w)] = named[Target(w)]]
          /\ Holds(Target(w), NoFile) /\ Then(w, "promote")
       \/ Then(w, "discard") /\ UNCHANGED <<named, aside>>
    /\ UNCHANGED <<staged, last, story>>

Promote(w) ==
    /\ PubAt(w, "promote")
    /\ \/ Takes(w, "drop") /\ UNCHANGED aside
       \/ Then(w, "restore") /\ UNCHANGED <<files, last>>
    /\ UNCHANGED story

Unrestored(p) == [p EXCEPT !.pc = "discard", !.tidy = FALSE]

\* The promotion failed: the old file gets its name back, if that works.
Restore(w) ==
    /\ PubAt(w, "restore")
    /\ LET n == Target(w)
       IN  \/ /\ aside[n] # NoFile /\ Holds(n, aside[n])
              /\ aside' = [aside EXCEPT ![n] = NoFile] /\ Then(w, "discard")
           \/ /\ pub' = [pub EXCEPT ![w] = Unrestored(pub[w])]
              /\ UNCHANGED <<named, aside>>
    /\ Follow /\ UNCHANGED <<staged, story>>

DropAside(w) ==
    /\ PubAt(w, "drop")
    /\ UnlinkedAt(aside, Target(w)) /\ Then(w, "published")
    /\ UNCHANGED <<named, staged, last, story>>

\* split_by_lines_inner goes on to its next part; the others have ended.
OnwardEarly(p) ==                \* counts a part before it is made
    IF p.manner = "split" /\ p.name < Parts
    THEN [p EXCEPT !.name = p.name + 1, !.made = p.name + 1, !.pc = "check",
                   !.whole = FALSE]
    ELSE [p EXCEPT !.pc = "ok"]
Onward(p) ==
    IF p.manner = "split" /\ p.name < Parts
    THEN [p EXCEPT !.name = p.name + 1, !.made = p.name, !.pc = "check",
                   !.whole = FALSE]
    ELSE [p EXCEPT !.pc = "ok"]

Installed(w) ==
    /\ PubAt(w, "published")
    /\ pub' = [pub EXCEPT ![w] = Onward(pub[w])]
    /\ UNCHANGED <<files, last, story>>

\* A failed publication: a stage that can be made again goes, a finished
\* one of the server stays.
Dropped(p) ==
    IF p.manner = "split" THEN [p EXCEPT !.pc = "undo", !.name = 1] ELSE [p EXCEPT !.pc = "failed"]

DropStage(w) ==
    /\ PubAt(w, "discard")
    /\ IF Keeps(pub[w]) THEN UNCHANGED staged ELSE UnlinkedAt(staged, w)
    /\ pub' = [pub EXCEPT ![w] = Dropped(pub[w])]
    /\ UNCHANGED <<named, aside, last, story>>

\* A failed split removes the parts it has made, by their names, if it can.
TakenBack(p, gone) == [p EXCEPT !.name = p.name + 1, !.tidy = p.tidy /\ gone]

TakeBack(w) ==
    /\ PubAt(w, "undo")
    /\ \/ /\ Target(w) <= pub[w].made
          /\ \E gone \in BOOLEAN :
                /\ Holds(Target(w), IF gone THEN NoFile ELSE named[Target(w)])
                /\ pub' = [pub EXCEPT ![w] = TakenBack(pub[w], gone)]
          /\ last' = IF named[Target(w)] = pub[w].id
                     THEN [last EXCEPT ![Target(w)] = named'[Target(w)]] ELSE last
       \/ Target(w) > pub[w].made /\ Then(w, "failed") /\ UNCHANGED <<named, last>>
    /\ UNCHANGED <<aside, staged, story>>

\* The process ends where it is; a stage it was writing is what it was.
PubDies(w) ==
    /\ pub[w].pc \in Running
    /\ \/ UNCHANGED staged
       \/ PubAt(w, "write") /\ staged' = [staged EXCEPT ![w] = Half]
    /\ Then(w, "crashed")
    /\ UNCHANGED <<named, aside, last, story>>

-----------------------------------------------------------------------------
Idle == [manner |-> "replace", new |-> FALSE, id |-> 0, name |-> 1, made |-> 0, pc |-> "idle",
         whole |-> FALSE, tidy |-> TRUE]

PubInit ==
    /\ named \in [Names -> {NoFile, Original}]
    /\ \E c \in {NoFile, Leftover} : aside = [n \in Names |-> c]
    /\ staged = [w \in Writers |-> NoFile]
    /\ pub = [w \in Writers |-> Idle]
    /\ begun = 0 /\ owner = [n \in Names |-> 0] /\ last = named
    /\ before = [w \in Writers |-> named] /\ met = {}

PubStep(w) == Publishes(w) \/ Check(w) \/ Write(w) \/ Rename(w) \/ ClearAside(w) \/ PutAside(w)
              \/ Promote(w) \/ Restore(w) \/ DropAside(w) \/ Installed(w) \/ DropStage(w)
              \/ TakeBack(w) \/ PubDies(w)
PubNext == \E w \in Writers : PubStep(w)
PubSpec == PubInit /\ [][PubNext]_pubVars

-----------------------------------------------------------------------------
Publication == [manner : Manners \cup {"replace"}, new : BOOLEAN, id : 0 .. MaxRuns,
                name : Names, made : 0 .. (Parts - 1),
                pc : Running \cup {"idle", "ok", "failed", "crashed"},
                whole : BOOLEAN, tidy : BOOLEAN]

PubTypeOK ==
    /\ named \in [Names -> Bytes] /\ aside \in [Names -> Bytes]
    /\ staged \in [Writers -> Bytes]
    /\ pub \in [Writers -> Publication]
    /\ begun \in 0 .. MaxRuns /\ owner \in [Names -> 0 .. MaxRuns]
    /\ last \in [Names -> Bytes] /\ before \in [Writers -> [Names -> Bytes]]
    /\ met \in SUBSET Names

\* A name over which no two publications have met; of them, those w began last.
Quiet == Names \ met
Own(w) == {n \in Quiet : n \in Touched(pub[w]) /\ owner[n] = pub[w].id}

\* No name, and no aside name, ever holds part of a file.
OnlyWhole == \A n \in Names : named[n] # Half /\ aside[n] # Half

\* What a name held last is under it or under its aside name, whatever
\* failed and wherever the program was killed.
CopyStays == \A n \in Quiet : last[n] # NoFile => last[n] \in {named[n], aside[n]}

\* An answer is true of the disk: all of it is published, or everything is
\* as it was before, and what the server finished is still in its stage.
AnswerTold ==
    \A w \in Writers :
        /\ pub[w].pc = "ok" => \A n \in Own(w) : named[n] = pub[w].id
        /\ pub[w].pc = "failed" /\ pub[w].tidy => \A n \in Own(w) : named[n] = before[w][n]
        /\ pub[w].pc = "failed" /\ Keeps(pub[w]) => staged[w] = pub[w].id

\* A failed or interrupted publication never costs a copy: the name keeps
\* the complete old file or has the complete new one (replace_with_staged),
\* a split that fails takes back its own parts and no other file, and one
\* that succeeds has them all.
PublishedWhole == OnlyWhole /\ CopyStays /\ AnswerTold

\* Not so where two publications meet: they check before they rename, a
\* refused split takes back by their names parts that another one made, and
\* on the way round one removes what the other moved to their aside name.
CopyAlways == \A n \in Names : last[n] # NoFile => last[n] \in {named[n], aside[n]}
=============================================================================
