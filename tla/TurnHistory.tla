----------------------------- MODULE TurnHistory -----------------------------
(***************************************************************************)
(* What /undo and /redo promise, without snapshots, commits or records: a  *)
(* history of turns, each of them the files as it found them and as it     *)
(* left them.  Undoing the newest turn that still shows moves the files it *)
(* changed back and nothing else, and redoing moves them forward again.    *)
(* TurnUndo implements this for the files a snapshot holds.                *)
(***************************************************************************)
EXTENDS Integers, Sequences

CONSTANTS Tracked, File

VARIABLES
    files,    \* the user's files
    done,     \* the turns that can be undone, oldest first
    open,     \* the newest of them is still running
    undone    \* the undos that can be redone, newest last

vars == <<files, done, open, undone>>

Tree == [Tracked -> File]
Moved(t) == {p \in Tracked : t.start[p] # t.end[p]}
Newest(s) == s[Len(s)]
PutBack(from, paths) == [p \in Tracked |-> IF p \in paths THEN from[p] ELSE files[p]]
IsTailOf(t, s) == \E k \in 1 .. Len(s) + 1 : t = SubSeq(s, k, Len(s))

Init == files \in Tree /\ done = <<>> /\ open = FALSE /\ undone = <<>>

\* Somebody edits files: while a turn runs, its end moves along.
Edit ==
    /\ files' \in Tree
    /\ done' = IF open THEN [done EXCEPT ![Len(done)].end = files'] ELSE done
    /\ UNCHANGED <<open, undone>>

\* A turn is about to change files.  What could be redone is forgotten.  A
\* turn that finds the files as the one before it did takes its place.
Begin ==
    /\ ~open
    /\ LET t == [start |-> files, end |-> files]
       IN IF done # <<>> /\ Newest(done).start = files
          THEN done' = [done EXCEPT ![Len(done)] = t]
          ELSE IsTailOf(done', Append(done, t)) /\ done' # <<>>
    /\ open' = TRUE
    /\ undone' = <<>>
    /\ UNCHANGED files

Finish == open /\ open' = FALSE /\ UNCHANGED <<files, done, undone>>

\* A single file or hunk taken back is a turn of its own.
TakeBack ==
    /\ ~open
    /\ files' \in Tree
    /\ IsTailOf(done', Append(done, [start |-> files, end |-> files']))
    /\ done' # <<>>
    /\ undone' = <<>>
    /\ UNCHANGED open

\* Turns the files show nothing of are passed over.
PassOver(n) == \A i \in n+1 .. Len(done) : done[i].start = files

Forget ==
    /\ ~open
    /\ \E n \in 0..Len(done) : PassOver(n) /\ done' = SubSeq(done, 1, n)
    /\ UNCHANGED <<files, open, undone>>

\* Undo turn `n`; where `over` is FALSE its files are as it left them.
Undo(over) ==
    /\ ~open
    /\ \E n \in 1..Len(done) :
         LET t == done[n] IN
         /\ PassOver(n)
         /\ over \/ \A p \in Moved(t) : files[p] = t.end[p]
         /\ files' = PutBack(t.start, Moved(t))
         /\ done' = SubSeq(done, 1, n - 1)
         /\ IsTailOf(undone', Append(undone,
                [before |-> files, after |-> files', paths |-> Moved(t), turn |-> t]))
    /\ undone' # <<>>
    /\ UNCHANGED open

\* Redo the newest undo; where `over` is FALSE its files are as it left them.
Redo(over) ==
    /\ ~open
    /\ undone # <<>>
    /\ LET u == Newest(undone)
       IN /\ over \/ \A p \in u.paths : files[p] = u.after[p]
          /\ files' = PutBack(u.before, u.paths)
          /\ IsTailOf(done', Append(done, u.turn))
    /\ done' # <<>>
    /\ undone' = SubSeq(undone, 1, Len(undone) - 1)
    /\ UNCHANGED open

\* What an audit changed is put back as it closes, and can be redone.
RollBack ==
    /\ ~open
    /\ \E left \in Tree :
         LET t == [start |-> files, end |-> left] IN
         IsTailOf(undone', Append(undone,
             [before |-> left, after |-> files, paths |-> Moved(t), turn |-> t]))
    /\ undone' # <<>>
    /\ UNCHANGED <<files, done, open>>

Next == \/ Edit \/ Begin \/ Finish \/ TakeBack \/ Forget
        \/ \E over \in BOOLEAN : Undo(over) \/ Redo(over)
        \/ RollBack

Spec == Init /\ [][Next]_vars
=============================================================================
