------------------------------ MODULE TurnUndo ------------------------------
(***************************************************************************)
(* What Ryter keeps of a session so that a build turn can be undone: the   *)
(* stack of checkpoints in meta.json, the record of what each turn left,   *)
(* and the undos that can be redone.  The user's own editor works on the   *)
(* same files the whole time, and the process may die in any turn.         *)
(*                                                                         *)
(* A snapshot of the working files is the tree it holds.  A checkpoint is  *)
(* named by its commit, which git derives from the tree and the second it  *)
(* was made in, so a commit is a tree and a time.  Gitignored files are in *)
(* no snapshot; the turn's record saves each one before it is written.     *)
(***************************************************************************)
EXTENDS Integers, SequencesExt, FiniteSetsExt

CONSTANTS
    Tracked,        \* paths a snapshot holds: tracked or untracked, not ignored
    Ignored,        \* gitignored paths
    Content,        \* what a file may hold
    Absent,         \* in place of a content: there is no such file
    None,           \* no commit, no snapshot
    CheckpointCap,  \* checkpoints a session keeps (50 in the code)
    RedoCap,        \* undos a session keeps for /redo (20 in the code)
    Seconds,        \* how far the clock may move between two checkpoints
    MaxTurns,       \* bound: turns begun
    MaxEdits,       \* bound: edits the user makes
    Others,         \* which other events happen: reverts, audits, writes with no
                    \* checkpoint, and what goes wrong
    MaxOthers       \* bound: how many of those happen in all

ASSUME ConstantsAssumption ==
    /\ Tracked \cap Ignored = {}
    /\ Absent \notin Content
    /\ None \notin [Tracked -> Content \cup {Absent}]
    /\ CheckpointCap \in Nat \ {0}
    /\ RedoCap \in Nat \ {0}
    /\ Seconds \subseteq Nat
    /\ Others \subseteq {"unkept", "revert", "failed revert", "audit", "crash"}
    /\ {MaxTurns, MaxEdits, MaxOthers} \subseteq Nat

VARIABLES
    work,             \* the user's files
    checkpoints,      \* Meta::checkpoints, oldest first
    turn_records,     \* Meta::turn_records
    redo,             \* Meta::redo, newest last
    turn_checkpoint,  \* Meta::turn_checkpoint
    phase,            \* the worker: idle, in a turn, in a turn that took its checkpoint
    said,             \* how the last command answered
    clock,            \* seconds, as the commits record them
    count,            \* how often each bounded event has happened
    past,             \* history: for each checkpoint, what the turn really did
    future            \* history: for each undo, the files around it

meta == <<checkpoints, turn_records, redo, turn_checkpoint>>
history == <<past, future>>
vars == <<work, checkpoints, turn_records, redo, turn_checkpoint, phase, said, clock, count,
          past, future>>

-----------------------------------------------------------------------------
Paths == Tracked \cup Ignored
File == Content \cup {Absent}
Tree == [Tracked -> File]
Commit == [tree : Tree, at : Nat]
SavedFile == [before : File, after : File]
SavedFiles == UNION {[D -> SavedFile] : D \in SUBSET Ignored}
NothingSaved == [p \in {} |-> [before |-> Absent, after |-> Absent]]
TurnRecord == [after : Tree \cup {None}, ignored : SavedFiles]
NoRecord == [after |-> None, ignored |-> NothingSaved]
NothingWritten == [p \in {} |-> Absent]
Redo == [checkpoint : Commit, record : TurnRecord, files : Tree, undone : Tree,
         paths : SUBSET Tracked, ignored : SavedFiles, audit : BOOLEAN]

\* The events with a bound, and the room left for one of them.
Events == {"turn", "edit", "unkept", "revert", "failed revert", "audit", "crash"}
Room(e) ==
    CASE e = "turn" -> count[e] < MaxTurns
      [] e = "edit" -> count[e] < MaxEdits
      [] OTHER      -> e \in Others /\ MapThenSumSet(LAMBDA o : count[o], Others) < MaxOthers
Spend(e) == Room(e) /\ count' = [count EXCEPT ![e] = @ + 1]

Snapshot == [p \in Tracked |-> work[p]]
Between(from, to) == {p \in Tracked : from[p] # to[p]}
KeepNewestWrong(s, n) == IF Len(s) > n + 1 THEN SubSeq(s, Len(s) - n, Len(s)) ELSE s
KeepNewest(s, n) == IF Len(s) > n THEN SubSeq(s, Len(s) - n + 1, Len(s)) ELSE s
With(f, k, x) == [j \in DOMAIN f \cup {k} |-> IF j = k THEN x ELSE f[j]]
Record(c) == IF c \in DOMAIN turn_records THEN turn_records[c] ELSE NoRecord

\* (The operators named ...Wrong are bugs this code could have had, for the
\* checks to find; nothing uses them.)
WithRecordWrong(live, c, r) == [k \in {c} |-> r]

\* The records once `c` has record `r`: only those of the live checkpoints stay.
WithRecord(live, c, r) ==
    [k \in (DOMAIN turn_records \cap ToSet(live)) \cup {c} |->
        IF k = c THEN r ELSE turn_records[k]]

-----------------------------------------------------------------------------
(* Turns.  A turn that takes no checkpoint (another hat, a build turn that *)
(* only reads) goes from "turn" straight to its end.                       *)

BeginTurn ==
    /\ phase = "idle"
    /\ Spend("turn")
    /\ phase' = "turn"
    /\ said' = ""
    /\ UNCHANGED <<work, meta, clock, history>>

\* Before the first call of a build turn that may change a file.  A
\* snapshot the newest checkpoint already holds is not pushed again, and
\* the turn then starts from that checkpoint.
CheckpointBeforeBuild ==
    /\ phase = "turn"
    /\ \E dt \in Seconds : clock' = clock + dt
    /\ LET same  == checkpoints # <<>> /\ Last(checkpoints).tree = Snapshot
           start == IF same THEN Last(checkpoints) ELSE [tree |-> Snapshot, at |-> clock']
           fresh == [start |-> work, end |-> work, kind |-> "turn",
                     wrote |-> IF same THEN Last(past).wrote ELSE NothingWritten,
                     turns |-> IF same THEN Last(past).turns + 1 ELSE 1]
       IN /\ checkpoints' = IF same THEN checkpoints
                            ELSE KeepNewest(Append(checkpoints, start), CheckpointCap)
          /\ past' = IF same THEN Append(Front(past), fresh)
                     ELSE KeepNewest(Append(past, fresh), CheckpointCap)
          /\ turn_checkpoint' = start
          /\ turn_records' = WithRecord(checkpoints', start, NoRecord)
    /\ redo' = <<>>
    /\ future' = <<>>
    /\ phase' = "changing"
    /\ said' = ""
    /\ UNCHANGED <<work, count>>

\* A call that takes no checkpoint writes a file all the same: would_change
\* says no to record_decision, to a plan or a run file saved and to a command
\* passed as one that only reads; and git may have no place for snapshots.
WriteUnkept(p, c) ==
    /\ phase = "turn"
    /\ Spend("unkept")
    /\ work' = [work EXCEPT ![p] = c]
    /\ said' = ""
    /\ UNCHANGED <<meta, phase, clock, history>>

\* A tool call of a turn that has its checkpoint writes or deletes a file a
\* snapshot holds.
ToolWrite(p, c) ==
    /\ phase = "changing"
    /\ p \in Tracked
    /\ work' = [work EXCEPT ![p] = c]
    /\ said' = ""
    /\ UNCHANGED <<meta, phase, clock, count, history>>

\* ... saved again at every write.
SaveIgnoredWrong(p) ==
    /\ phase = "changing"
    /\ p \in Ignored
    /\ LET r == Record(turn_checkpoint)
           f == [before |-> work[p], after |-> Absent]
       IN turn_records' = WithRecord(checkpoints, turn_checkpoint,
                              [r EXCEPT !.ignored = With(@, p, f)])
    /\ past' = [past EXCEPT ![Len(past)].wrote =
                    IF p \in DOMAIN @ THEN @ ELSE With(@, p, work[p])]
    /\ said' = ""
    /\ UNCHANGED <<work, checkpoints, redo, turn_checkpoint, phase, clock, count, future>>

\* What a gitignored file held goes on the turn's record, once, before
\* `write` or `search_replace` writes it.
SaveIgnored(p) ==
    /\ phase = "changing"
    /\ p \in Ignored \ DOMAIN Record(turn_checkpoint).ignored
    /\ LET r == Record(turn_checkpoint)
           f == [before |-> work[p], after |-> Absent]
       IN turn_records' = WithRecord(checkpoints, turn_checkpoint,
                              [r EXCEPT !.ignored = With(@, p, f)])
    /\ past' = [past EXCEPT ![Len(past)].wrote =
                    IF p \in DOMAIN @ THEN @ ELSE With(@, p, work[p])]
    /\ said' = ""
    /\ UNCHANGED <<work, checkpoints, redo, turn_checkpoint, phase, clock, count, future>>

WriteIgnored(p, c) ==
    /\ phase = "changing"
    /\ p \in DOMAIN Record(turn_checkpoint).ignored
    /\ work' = [work EXCEPT ![p] = c]
    /\ said' = ""
    /\ UNCHANGED <<meta, phase, clock, count, history>>

\* What the record of the newest turn is once its end is snapshotted.
Finished(r) == [after |-> Snapshot,
                ignored |-> [p \in DOMAIN r.ignored |->
                                [before |-> r.ignored[p].before, after |-> work[p]]]]

\* However the turn ends, the record of `turn_checkpoint` is finished if it
\* is not yet: in a turn that took no checkpoint, an earlier turn's.
EndTurn ==
    /\ phase \in {"turn", "changing"}
    /\ turn_records' =
         IF turn_checkpoint \in DOMAIN turn_records /\ Record(turn_checkpoint).after = None
         THEN WithRecord(checkpoints, turn_checkpoint, Finished(Record(turn_checkpoint)))
         ELSE turn_records
    /\ past' = IF phase = "changing" THEN [past EXCEPT ![Len(past)].end = work] ELSE past
    /\ phase' = "idle"
    /\ said' = ""
    /\ UNCHANGED <<work, checkpoints, redo, turn_checkpoint, clock, count, future>>

\* The process dies in a turn and the session is resumed: what meta.json
\* holds is all that is left.
Crash ==
    /\ phase \in {"turn", "changing"}
    /\ Spend("crash")
    /\ past' = IF phase = "changing"
               THEN [past EXCEPT ![Len(past)].end = work, ![Len(past)].kind = "crashed"]
               ELSE past
    /\ phase' = "idle"
    /\ said' = ""
    /\ UNCHANGED <<work, meta, clock, future>>

\* The user edits a file in an editor, whatever Ryter is doing.
UserEdit(p, c) ==
    /\ c # work[p]
    /\ Spend("edit")
    /\ work' = [work EXCEPT ![p] = c]
    /\ said' = ""
    /\ UNCHANGED <<meta, phase, clock, history>>

-----------------------------------------------------------------------------
(* /undo.  The newest checkpoints that the files already match, and whose  *)
(* turns saved no ignored file, are passed over for good; `n` is where the *)
(* search stops, 0 when it runs out.                                       *)

Passed(i) == /\ Record(checkpoints[i]).ignored = NothingSaved
             /\ checkpoints[i].tree = Snapshot

Reached(n) == /\ n \in 0..Len(checkpoints)
              /\ n > 0 => ~Passed(n)
              /\ \A i \in n+1 .. Len(checkpoints) : Passed(i)

\* ... as undo was before turns had a record of their end.
EndWrong(c) == Snapshot

\* Where the turn from checkpoint `c` ended: now, when nothing recorded it.
End(c) == IF Record(c).after = None THEN Snapshot ELSE Record(c).after
TurnPaths(c) == Between(c.tree, End(c))

\* ... compared with where the turn started.
ClashWrong(c) == TurnPaths(c) \cap Between(c.tree, Snapshot)

\* The files of the turn that are no longer as it left them.
Clash(c) == (TurnPaths(c) \cap Between(End(c), Snapshot))
              \cup {p \in DOMAIN Record(c).ignored : work[p] # Record(c).ignored[p].after}

UndoNothing ==
    /\ phase = "idle"
    /\ Reached(0)
    /\ checkpoints' = <<>>
    /\ past' = <<>>
    /\ said' = "nothing to undo"
    /\ UNCHANGED <<work, turn_records, redo, turn_checkpoint, phase, clock, count, future>>

UndoRefused ==
    /\ phase = "idle"
    /\ \E n \in 1..Len(checkpoints) :
         /\ Reached(n)
         /\ Clash(checkpoints[n]) # {}
         /\ checkpoints' = SubSeq(checkpoints, 1, n)
         /\ past' = SubSeq(past, 1, n)
    /\ said' = "not undone"
    /\ UNCHANGED <<work, turn_records, redo, turn_checkpoint, phase, clock, count, future>>

\* ... the whole snapshot put back.
UndoneFilesWrong(c) == [p \in Paths |-> IF p \in Tracked THEN c.tree[p] ELSE work[p]]

\* The files once the turn from `c` is undone, and what the undo keeps of
\* them as they are now.
UndoneFiles(c) ==
    [p \in Paths |-> IF p \in TurnPaths(c) THEN c.tree[p]
                     ELSE IF p \in DOMAIN Record(c).ignored THEN Record(c).ignored[p].before
                     ELSE work[p]]
SavedNow(c) ==
    [p \in DOMAIN Record(c).ignored |->
        [before |-> work[p], after |-> Record(c).ignored[p].before]]

UndoDone(force) ==
    /\ phase = "idle"
    /\ \E n \in 1..Len(checkpoints) :
         LET c == checkpoints[n] IN
         /\ Reached(n)
         /\ force \/ Clash(c) = {}
         /\ work' = UndoneFiles(c)
         /\ checkpoints' = SubSeq(checkpoints, 1, n - 1)
         /\ redo' = KeepNewest(Append(redo,
                        [checkpoint |-> c, record |-> Record(c), files |-> Snapshot,
                         undone |-> [p \in Tracked |-> work'[p]], paths |-> TurnPaths(c),
                         ignored |-> SavedNow(c), audit |-> FALSE]), RedoCap)
         /\ turn_checkpoint' = IF n > 1 THEN checkpoints[n-1] ELSE None
         /\ said' = IF Clash(c) = {} THEN "undone" ELSE "undone over edits"
         /\ past' = SubSeq(past, 1, n - 1)
         /\ future' = KeepNewest(Append(future,
                        [before |-> work, after |-> work', turn |-> past[n]]), RedoCap)
    /\ UNCHANGED <<turn_records, phase, clock, count>>

-----------------------------------------------------------------------------
(* /redo: the last undo reversed.                                          *)

\* ... the tracked files not looked at.
RedoClashWrong(r) == {p \in DOMAIN r.ignored : work[p] # r.ignored[p].after}

RedoClash(r) == (r.paths \cap Between(r.undone, Snapshot))
                  \cup {p \in DOMAIN r.ignored : work[p] # r.ignored[p].after}

RedoneFiles(r) ==
    [p \in Paths |-> IF p \in r.paths THEN r.files[p]
                     ELSE IF p \in DOMAIN r.ignored THEN r.ignored[p].before
                     ELSE work[p]]

RedoRefused ==
    /\ phase = "idle"
    /\ redo # <<>>
    /\ RedoClash(Last(redo)) # {}
    /\ said' = "not redone"
    /\ UNCHANGED <<work, meta, phase, clock, count, history>>

\* ... the turn's record not put back with its checkpoint.
RedoDoneWrong(force) ==
    /\ phase = "idle"
    /\ redo # <<>>
    /\ LET r == Last(redo) IN
         /\ force \/ RedoClash(r) = {}
         /\ work' = RedoneFiles(r)
         /\ redo' = Front(redo)
         /\ checkpoints' = KeepNewest(Append(checkpoints, r.checkpoint), CheckpointCap)
         /\ turn_checkpoint' = r.checkpoint
         /\ said' = IF RedoClash(r) = {} THEN "redone" ELSE "redone over edits"
    /\ past' = KeepNewest(Append(past, Last(future).turn), CheckpointCap)
    /\ future' = Front(future)
    /\ UNCHANGED <<turn_records, phase, clock, count>>

RedoDone(force) ==
    /\ phase = "idle"
    /\ redo # <<>>
    /\ LET r == Last(redo) IN
         /\ force \/ RedoClash(r) = {}
         /\ work' = RedoneFiles(r)
         /\ redo' = Front(redo)
         /\ checkpoints' = KeepNewest(Append(checkpoints, r.checkpoint), CheckpointCap)
         /\ turn_records' = WithRecord(checkpoints', r.checkpoint, r.record)
         /\ turn_checkpoint' = r.checkpoint
         /\ said' = IF RedoClash(r) = {} THEN "redone" ELSE "redone over edits"
    /\ past' = KeepNewest(Append(past, Last(future).turn), CheckpointCap)
    /\ future' = Front(future)
    /\ UNCHANGED <<phase, clock, count>>

-----------------------------------------------------------------------------
(* A file or a hunk put back from /changes is kept like a turn, with its   *)
(* own checkpoint.  "Last turn" stays where the turn began.                *)

\* The checkpoint of a revert is pushed whatever the newest one holds.
RevertCheckpoint ==
    /\ phase = "idle"
    /\ \E dt \in Seconds : clock' = clock + dt
    /\ turn_checkpoint' = IF turn_checkpoint # None \/ checkpoints = <<>> THEN turn_checkpoint
                          ELSE Last(checkpoints)
    /\ checkpoints' = KeepNewest(Append(checkpoints, [tree |-> Snapshot, at |-> clock']),
                                 CheckpointCap)

Revert(p, c) ==
    /\ p \in Tracked /\ c # work[p]
    /\ Spend("revert")
    /\ RevertCheckpoint
    /\ work' = [work EXCEPT ![p] = c]
    /\ turn_records' = WithRecord(checkpoints', [tree |-> Snapshot, at |-> clock'],
                          [after |-> [Snapshot EXCEPT ![p] = c], ignored |-> NothingSaved])
    /\ redo' = <<>>
    /\ past' = KeepNewest(Append(past, [start |-> work, end |-> work', kind |-> "revert",
                                        wrote |-> NothingWritten, turns |-> 1]), CheckpointCap)
    /\ future' = <<>>
    /\ said' = ""
    /\ UNCHANGED phase

\* The file moved under the panel: the hunk is not there any more.  The
\* checkpoint is already pushed, and nothing is recorded for it.
RevertFails ==
    /\ Spend("failed revert")
    /\ RevertCheckpoint
    /\ past' = KeepNewest(Append(past, [start |-> work, end |-> work, kind |-> "failed",
                                        wrote |-> NothingWritten, turns |-> 1]), CheckpointCap)
    /\ said' = ""
    /\ UNCHANGED <<work, turn_records, redo, phase, future>>

-----------------------------------------------------------------------------
(* An audit turn that changed files: they are put back when it closes, and *)
(* that counts as an undo.  AuditRollback has the rollback itself; here no *)
(* one else touches the files while the audit runs.                        *)
AuditRolledBack(left) ==
    /\ phase = "turn"
    /\ left # Snapshot
    /\ Spend("audit")
    /\ \E dt \in Seconds : clock' = clock + dt
    /\ LET undone == [tree |-> Snapshot, at |-> clock']
           leftWork == [p \in Paths |-> IF p \in Tracked THEN left[p] ELSE work[p]]
       IN /\ redo' = KeepNewest(Append(redo,
                 [checkpoint |-> undone, record |-> [after |-> left, ignored |-> NothingSaved],
                  files |-> left, undone |-> Snapshot, paths |-> Between(Snapshot, left),
                  ignored |-> NothingSaved, audit |-> TRUE]), RedoCap)
          /\ future' = KeepNewest(Append(future,
                 [before |-> leftWork, after |-> work,
                  turn |-> [start |-> work, end |-> leftWork, kind |-> "audit",
                            wrote |-> NothingWritten, turns |-> 1]]), RedoCap)
    /\ said' = ""
    /\ UNCHANGED <<work, checkpoints, turn_records, turn_checkpoint, phase, past>>

-----------------------------------------------------------------------------
Init ==
    /\ work \in [Paths -> File]
    /\ checkpoints = <<>>
    /\ turn_records = [c \in {} |-> NoRecord]
    /\ redo = <<>>
    /\ turn_checkpoint = None
    /\ phase = "idle"
    /\ said = ""
    /\ clock = 0
    /\ count = [e \in Events |-> 0]
    /\ past = <<>>
    /\ future = <<>>

Next ==
    \/ BeginTurn
    \/ CheckpointBeforeBuild
    \/ \E p \in Paths, c \in File : WriteUnkept(p, c)
    \/ \E p \in Tracked, c \in File : ToolWrite(p, c)
    \/ \E p \in Ignored : SaveIgnored(p)
    \/ \E p \in Ignored, c \in File : WriteIgnored(p, c)
    \/ EndTurn
    \/ Crash
    \/ \E p \in Paths, c \in File : UserEdit(p, c)
    \/ UndoNothing
    \/ UndoRefused
    \/ \E force \in BOOLEAN : UndoDone(force)
    \/ RedoRefused
    \/ \E force \in BOOLEAN : RedoDone(force)
    \/ \E p \in Tracked, c \in File : Revert(p, c)
    \/ RevertFails
    \/ \E left \in Tree : AuditRolledBack(left)

Spec == Init /\ [][Next]_vars

-----------------------------------------------------------------------------
Turn == [start : [Paths -> File], end : [Paths -> File], kind : {"turn", "revert", "audit", "crashed", "failed"},
         wrote : UNION {[D -> File] : D \in SUBSET Ignored}, turns : Nat]

\* The types of the state, and the two caps the session keeps to.
TypeOK ==
    /\ work \in [Paths -> File]
    /\ checkpoints \in Seq(Commit) /\ Len(checkpoints) <= CheckpointCap
    /\ DOMAIN turn_records \subseteq Commit
    /\ turn_records \in [DOMAIN turn_records -> TurnRecord]
    /\ redo \in Seq(Redo) /\ Len(redo) <= RedoCap
    /\ turn_checkpoint \in Commit \cup {None}
    /\ phase \in {"idle", "turn", "changing"}
    /\ said \in {"", "undone", "undone over edits", "not undone", "nothing to undo",
                 "redone", "redone over edits", "not redone"}
    /\ clock \in Nat
    /\ count \in [Events -> Nat]
    /\ past \in Seq(Turn) /\ Len(past) = Len(checkpoints)
    /\ future \in Seq([before : [Paths -> File], after : [Paths -> File], turn : Turn])
    /\ Len(future) = Len(redo)

-----------------------------------------------------------------------------
(* What undo and redo promise, said of what the turns really did (`past`   *)
(* and `future`), not of what Ryter recorded of them.                      *)

Moved(t) == {p \in Tracked : t.start[p] # t.end[p]}

\* The turn ran to its end, and its end is on record.
Recorded(t) == t.kind \notin {"crashed", "failed"}

UndoneAsPromised(t) ==
    \A p \in Tracked :
        IF p \in Moved(t) THEN work[p] = t.end[p] /\ work'[p] = t.start[p]
        ELSE work'[p] = work[p]

\* An /undo that went ahead without naming a file edited since puts back
\* exactly what the turn changed from its checkpoint on: each of those files
\* was still as the turn left it, each goes back to how the checkpoint found
\* it, and every other tracked file stays as it is, whatever was undone,
\* redone or edited in between.  What a turn wrote before its checkpoint, or
\* without one, is nobody's to undo.
UndoPutsBackTheTurn ==
    [][said' = "undone" =>
         LET t == past[Len(checkpoints') + 1] IN Recorded(t) => UndoneAsPromised(t)]_vars

\* docs/guide.md, "`/undo` puts back what the last build turn changed, and
\* only that": the same of every turn, one that was cut short too.
UndoPutsBackOnlyTheTurn ==
    [][said' = "undone" => UndoneAsPromised(past[Len(checkpoints') + 1])]_vars

\* Over the user's edits too (`/undo force`), nothing but the turn's own
\* files moves.
ForcedUndoKeepsOtherFiles ==
    [][said' = "undone over edits" =>
         LET t == past[Len(checkpoints') + 1]
         IN Recorded(t) => \A p \in Tracked \ Moved(t) : work'[p] = work[p]]_vars

\* A gitignored file the turn wrote with `write` or `search_replace` goes
\* back to what it held when it first did so, and no other gitignored file
\* moves, as long as the turn's checkpoint was its own.
UndoPutsBackIgnored ==
    [][said' \in {"undone", "undone over edits"} =>
         LET t == past[Len(checkpoints') + 1]
         IN t.turns = 1 =>
              \A p \in Ignored :
                 work'[p] = IF p \in DOMAIN t.wrote THEN t.wrote[p] ELSE work[p]]_vars

\* A /redo that went ahead without naming a file brings every file the undo
\* moved back to how the undo found it, an edit of the user's it was forced
\* over included, and moves nothing else.
RedoReversesTheUndo ==
    [][said' = "redone" =>
         LET u == Last(future)
         IN \A p \in Paths :
              IF u.before[p] # u.after[p]
              THEN work[p] = u.after[p] /\ work'[p] = u.before[p]
              ELSE work'[p] = work[p]]_vars

\* Undo and redo, as often as one likes, are never refused over a tracked
\* file where nothing wrote to it but turns that have their checkpoint, and
\* reverts.  Three things besides the user's own edits lead to a refusal: a
\* turn that was cut short; an audit's redone changes, which may lie on a file
\* an earlier undo put back; and a later turn that wrote the file without a
\* checkpoint (would_change), for which the refusal says "you changed" it when
\* the user did not.
NoFalseRefusal ==
    phase = "idle" /\ (\A e \in {"edit", "unkept", "crash", "audit"} : count[e] = 0) =>
        /\ \A n \in 1..Len(checkpoints) :
              Reached(n) => Clash(checkpoints[n]) \cap Tracked = {}
        /\ redo # <<>> => RedoClash(Last(redo)) \cap Tracked = {}

\* The records kept are those of the checkpoints kept: each checkpoint's
\* end is on record between turns, and says where its turn really ended.
RecordsSayWhatHappened ==
    \A n \in 1..Len(checkpoints) :
        LET c == checkpoints[n] IN
        /\ \A p \in Tracked : c.tree[p] = past[n].start[p]
        /\ (phase = "idle" \/ n < Len(checkpoints)) /\ Recorded(past[n]) =>
              /\ Record(c).after # None
              /\ \A p \in Tracked : Record(c).after[p] = past[n].end[p]

-----------------------------------------------------------------------------
(* What all of this comes to for the files a snapshot holds: TurnHistory.  *)
(* A checkpoint with its record is a turn.  One whose end is not on record *)
(* ends as the files are now.                                              *)

TurnOf(c, record) ==
    [start |-> c.tree, end |-> IF record.after = None THEN Snapshot ELSE record.after]

Done == [n \in 1..Len(checkpoints) |-> TurnOf(checkpoints[n], Record(checkpoints[n]))]

Undone == [n \in 1..Len(redo) |->
              [before |-> redo[n].files, after |-> redo[n].undone, paths |-> redo[n].paths,
               turn |-> TurnOf(redo[n].checkpoint, redo[n].record)]]

History == INSTANCE TurnHistory WITH
    files <- Snapshot, done <- Done, open <- phase = "changing", undone <- Undone

\* Of the files a snapshot holds, the session does what TurnHistory promises
\* and nothing else: `undo_with`, `redo_with` and the rest of agent.rs, read
\* from what meta.json holds.
ImplementsTurnHistory == History!Spec
=============================================================================
