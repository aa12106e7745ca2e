------------------------------ MODULE Storage -------------------------------
(***************************************************************************)
(* What Ryter keeps for a project, and its cleanup: the refs that hold     *)
(* checkpoints (git.rs, checkpoint), the commits each session's meta.json  *)
(* names, and /storage, which removes old sessions and the refs nothing    *)
(* names while turns, undos and redos go on (storage.rs); with the         *)
(* project's running total, read from ledgers that are removed             *)
(* (project.rs).                                                           *)
(*                                                                         *)
(* A commit is its number in the order commits were made.  A ref is named  *)
(* by its session, its use and a number, as the code does.  The working    *)
(* names "review" and "now", an audit's refs and pages are left out, and   *)
(* so are sessions whose index cannot be read, the index's                 *)
(* turn_checkpoint, which only holds more, and the end a turn without a    *)
(* checkpoint gives one that was cut short.                                *)
(***************************************************************************)
EXTENDS Integers, Sequences, FiniteSets

CONSTANTS
    Sessions,
    Active,         \* bound: the sessions that anything happens in
    Mine,           \* the session open where /storage is used
    Readers,        \* other Ryters that bring the project's total up to date
    None,
    CheckpointCap,  \* 50
    RedoCap,        \* 20
    Also,           \* bound: what happens besides turns: undos with redos, reverts
    MaxCommits, MaxDays, MaxRows, MaxCrashes,   \* bounds
    MaxDuring       \* bound: commits there are while a cleanup is under way

ASSUME StorageAssumption ==
    /\ Mine \in Sessions /\ Active \subseteq Sessions /\ IsFiniteSet(Sessions)
    /\ None \notin Readers /\ "cleaner" \notin Readers /\ None \notin Nat
    /\ {CheckpointCap, RedoCap} \subseteq Nat \ {0}
    /\ Also \subseteq {"undo", "revert"}
    /\ {MaxCommits, MaxDays, MaxRows, MaxCrashes, MaxDuring} \subseteq Nat

VARIABLES
    refs,         \* refs/ryter/undo/: name -> commit
    made,         \* the day each commit was made
    day,
    alive,        \* sessions that have a folder
    checkpoints,  \* Meta::checkpoints, oldest first
    records,      \* Meta::turn_records: a checkpoint -> what the turn left, or None
    redo,         \* Meta::redo
    used,         \* Meta::updated_at, as a day
    phase,        \* what the session's Ryter is in the middle of
    hand,         \* what it has in memory only
    rows,         \* rows of spend.jsonl
    cache,        \* projects/<project>.json: the rows of each log that the total counts
    copy,         \* what a process read of it and has not written back, or None
    clean,        \* the cleanup: a preview, and what the yes to it has done
    crashes,
    lost,         \* history: sessions whose refs may have gone astray, see RefsHold
    late          \* history: sessions whose last rows may be missed, see RemovedStaysCounted

meta == <<checkpoints, records, redo>>
money == <<rows, cache, copy, late>>
vars == <<refs, made, day, alive, checkpoints, records, redo, used, phase, hand, rows, cache,
          copy, clean, crashes, lost, late>>

-----------------------------------------------------------------------------
Last(s) == s[Len(s)]
AllButLast(s) == SubSeq(s, 1, Len(s) - 1)
Elements(s) == {s[i] : i \in 1..Len(s)}
\* Without the drain.
KeepNewestWrong(s, cap) == s
KeepNewest(s, cap) == IF Len(s) > cap THEN SubSeq(s, Len(s) - cap + 1, Len(s)) ELSE s
Put(f, x, y) == [z \in DOMAIN f \cup {x} |-> IF z = x THEN y ELSE f[z]]
Without(f, gone) == [z \in DOMAIN f \ gone |-> f[z]]

Commits == 1..Len(made)
NewCommit == Len(made) + 1
Room == NewCommit <= IF clean.at = "none" THEN MaxCommits ELSE MaxDuring
Name(s, what, n) == <<s, what, n>>
Owner(n) == n[1]

\* set_turn_record: only live checkpoints need one.
Recorded(s, live, c, after) ==
    [k \in (DOMAIN records[s] \cap Elements(live)) \cup {c} |->
        IF k = c THEN after ELSE records[s][k]]

InRedo(r) == {r.checkpoint, r.after, r.files, r.undone} \ {None}

\* object_ids: every commit the index names.
Named(s) ==
    Elements(checkpoints[s]) \cup DOMAIN records[s]
      \cup ({records[s][c] : c \in DOMAIN records[s]} \ {None})
      \cup UNION {InRedo(redo[s][i]) : i \in 1..Len(redo[s])}

\* session.touch: the stamp of the index is new, and a preview that lists the
\* session is out of date.
Touch(s) ==
    /\ used' = [used EXCEPT ![s] = day]
    /\ clean' = [clean EXCEPT !.touched = @ \cup ({s} \cap clean.sessions)]

Idle(s) == s \in alive /\ phase[s] = "idle"

\* The next checkpoint's ref is named for its place in the list.
Place(s) == Name(s, "turn", Len(checkpoints[s]) + 1)

-----------------------------------------------------------------------------
(* A session's work: agent.rs, checkpoint_before_build, undo_with,         *)
(* redo_with, revert_recorded.  Each save of the index is a step of its    *)
(* own where it changes what the index names; a snapshot goes with the     *)
(* save that follows where its name is new.  Which files anything changed  *)
(* is not looked at, so a snapshot may be the same as the last one and an  *)
(* undo may pass over a checkpoint at any time.                            *)

\* The snapshot is taken and its ref moved; nothing is saved yet.
Take(s, next) ==
    /\ Idle(s) /\ Room
    /\ made' = Append(made, day)
    /\ refs' = Put(refs, Place(s), NewCommit)
    /\ hand' = [hand EXCEPT ![s] = {NewCommit}]
    /\ phase' = [phase EXCEPT ![s] = next]
    /\ UNCHANGED <<day, alive, meta, used, money, clean, crashes, lost>>

\* push_checkpoint, of what is in hand.
Push(s, next) ==
    /\ \E c \in hand[s] :
         checkpoints' = [checkpoints EXCEPT ![s] = KeepNewest(Append(@, c), CheckpointCap)]
    /\ lost' = IF Len(checkpoints[s]) >= CheckpointCap THEN lost \cup {s} ELSE lost
    /\ hand' = [hand EXCEPT ![s] = {}]
    /\ phase' = [phase EXCEPT ![s] = next]
    /\ Touch(s)
    /\ UNCHANGED <<refs, made, day, alive, records, redo, money, crashes>>

TakeCheckpoint(s) == Take(s, "taken")

PushTurn(s) == phase[s] = "taken" /\ Push(s, "pushed")

\* set_turn_checkpoint and set_turn_record: the turn has no end yet.  A snapshot
\* of the same files as the last one is not kept twice.
RecordTurn(s) ==
    /\ phase[s] \in {"taken", "pushed"} /\ (phase[s] = "taken" => checkpoints[s] # <<>>)
    /\ records' = [records EXCEPT
           ![s] = Recorded(s, checkpoints[s], Last(checkpoints[s]), None)]
    /\ hand' = [hand EXCEPT ![s] = {}]
    /\ phase' = [phase EXCEPT ![s] = IF redo[s] = <<>> THEN "turn" ELSE "recorded"]
    /\ Touch(s)
    /\ UNCHANGED <<refs, made, day, alive, checkpoints, redo, money, crashes, lost>>

\* clear_redo, the last save before a turn goes on and after a revert; where
\* there is nothing to clear, nothing is saved.
ClearRedo(s) ==
    /\ phase[s] \in {"recorded", "kept"}
    /\ redo' = [redo EXCEPT ![s] = <<>>]
    /\ phase' = [phase EXCEPT ![s] = IF @ = "recorded" THEN "turn" ELSE "idle"]
    /\ Touch(s)
    /\ UNCHANGED <<refs, made, day, alive, checkpoints, records, hand, money, crashes, lost>>

\* How a turn or a revert left the files: the snapshot `name`, and the record
\* that names it.
RecordEnd(s, name, next) ==
    /\ Room
    /\ made' = Append(made, day)
    /\ refs' = Put(refs, name, NewCommit)
    /\ records' = [records EXCEPT
           ![s] = Recorded(s, checkpoints[s], Last(checkpoints[s]), NewCommit)]
    /\ phase' = [phase EXCEPT ![s] = next]
    /\ Touch(s)
    /\ UNCHANGED <<day, alive, checkpoints, redo, hand, money, crashes, lost>>

EndTurn(s) ==
    /\ phase[s] = "turn"
    /\ RecordEnd(s, Name(s, "after", Last(checkpoints[s])), "idle")

\* A file or a hunk put back from /changes: its checkpoint is pushed whatever
\* the last one holds.
RevertTakes(s) == "revert" \in Also /\ Take(s, "reverting")
RevertPushes(s) == phase[s] = "reverting" /\ Push(s, "reverted")

\* The number is the one its checkpoint took: past the cap it is one more, of a
\* session that is in `lost` by then.
RevertRecords(s) ==
    /\ phase[s] = "reverted"
    /\ RecordEnd(s, Name(s, "reverted", Len(checkpoints[s])),
                 IF redo[s] = <<>> THEN "idle" ELSE "kept")

\* The file moved under the panel.  Its checkpoint stays pushed, and so do the
\* redos, the last of which may have had the ref that it took.
RevertFails(s) ==
    /\ phase[s] = "reverted"
    /\ phase' = [phase EXCEPT ![s] = "idle"]
    /\ lost' = IF redo[s] # <<>> THEN lost \cup {s} ELSE lost
    /\ UNCHANGED <<refs, made, day, alive, meta, used, hand, money, clean, crashes>>

\* The files as they are, under the name the undo's redo will have.
UndoBegins(s) ==
    /\ "undo" \in Also
    /\ Idle(s) /\ Room
    /\ made' = Append(made, day)
    /\ refs' = Put(refs, Name(s, "redo", Len(redo[s]) + 1), NewCommit)
    /\ hand' = [hand EXCEPT ![s] = {NewCommit}]
    /\ phase' = [phase EXCEPT ![s] = "undoing"]
    /\ UNCHANGED <<day, alive, meta, used, money, clean, crashes, lost>>

\* A checkpoint the files already match is passed over: there is no redo of it.
UndoPassesOver(s) ==
    /\ phase[s] = "undoing" /\ checkpoints[s] # <<>>
    /\ checkpoints' = [checkpoints EXCEPT ![s] = AllButLast(@)]
    /\ Touch(s)
    /\ UNCHANGED <<refs, made, day, alive, records, redo, phase, hand, money, crashes, lost>>

\* It is refused, or finds nothing to undo.
UndoStops(s) ==
    /\ phase[s] = "undoing"
    /\ hand' = [hand EXCEPT ![s] = {}]
    /\ phase' = [phase EXCEPT ![s] = "idle"]
    /\ UNCHANGED <<refs, made, day, alive, meta, used, money, clean, crashes, lost>>

\* The files are put back, and pop_checkpoint is saved before push_redo.
UndoPops(s) ==
    /\ phase[s] = "undoing" /\ checkpoints[s] # <<>> /\ Room
    /\ made' = Append(made, day)
    /\ refs' = Put(refs, Name(s, "undone", Len(redo[s]) + 1), NewCommit)
    /\ LET c == Last(checkpoints[s])
       IN hand' = [hand EXCEPT ![s] =
              {[checkpoint |-> c, files |-> now, undone |-> NewCommit,
                after |-> IF c \in DOMAIN records[s] THEN records[s][c] ELSE None] : now \in @}]
    /\ checkpoints' = [checkpoints EXCEPT ![s] = AllButLast(@)]
    /\ phase' = [phase EXCEPT ![s] = "undone"]
    /\ Touch(s)
    /\ UNCHANGED <<day, alive, records, redo, money, crashes, lost>>

UndoPushes(s) ==
    /\ phase[s] = "undone"
    /\ \E r \in hand[s] : redo' = [redo EXCEPT ![s] = KeepNewest(Append(@, r), RedoCap)]
    /\ lost' = IF Len(redo[s]) >= RedoCap THEN lost \cup {s} ELSE lost
    /\ hand' = [hand EXCEPT ![s] = {}]
    /\ phase' = [phase EXCEPT ![s] = "idle"]
    /\ Touch(s)
    /\ UNCHANGED <<refs, made, day, alive, checkpoints, records, money, crashes>>

\* The files are as they were, and pop_redo is saved before push_checkpoint:
\* in between, only memory holds what was undone.
RedoPops(s) ==
    /\ Idle(s) /\ redo[s] # <<>>
    /\ hand' = [hand EXCEPT ![s] = {[Last(redo[s]) EXCEPT !.files = None, !.undone = None]}]
    /\ redo' = [redo EXCEPT ![s] = AllButLast(@)]
    /\ phase' = [phase EXCEPT ![s] = "redoing"]
    /\ Touch(s)
    /\ UNCHANGED <<refs, made, day, alive, checkpoints, records, money, crashes, lost>>

\* The checkpoint comes last, wherever it was: when an undo passed over others
\* meanwhile, or what was between them died with a process, its ref is named
\* for another place.
RedoPushes(s) ==
    /\ phase[s] = "redoing"
    /\ \E r \in hand[s] :
         /\ checkpoints' = [checkpoints EXCEPT ![s] =
                               KeepNewest(Append(@, r.checkpoint), CheckpointCap)]
         /\ lost' = IF \/ Len(checkpoints[s]) >= CheckpointCap
                       \/ \E n \in DOMAIN refs : n # Place(s) /\ refs[n] = r.checkpoint
                    THEN lost \cup {s} ELSE lost
    /\ phase' = [phase EXCEPT ![s] = "redone"]
    /\ Touch(s)
    /\ UNCHANGED <<refs, made, day, alive, records, redo, hand, money, crashes>>

RedoRecords(s) ==
    /\ phase[s] = "redone"
    /\ \E r \in hand[s] :
         records' = [records EXCEPT
             ![s] = Recorded(s, checkpoints[s], r.checkpoint, r.after)]
    /\ hand' = [hand EXCEPT ![s] = {}]
    /\ phase' = [phase EXCEPT ![s] = "idle"]
    /\ Touch(s)
    /\ UNCHANGED <<refs, made, day, alive, checkpoints, redo, money, crashes, lost>>

\* From its snapshot on, a turn or a revert has taken the ref its redos may
\* count on, and gives them up.
GivesUpRedo(s) ==
    phase[s] \in {"taken", "pushed", "recorded", "reverting", "reverted", "kept"}

\* The process dies and the session is resumed from what is on the disk, or an
\* error ends the command between two saves.
Crash(s) ==
    /\ s \in alive /\ phase[s] # "idle" /\ crashes < MaxCrashes
    /\ crashes' = crashes + 1
    /\ phase' = [phase EXCEPT ![s] = "idle"]
    /\ hand' = [hand EXCEPT ![s] = {}]
    /\ lost' = IF GivesUpRedo(s) /\ redo[s] # <<>> THEN lost \cup {s} ELSE lost
    /\ UNCHANGED <<refs, made, day, alive, meta, used, money, clean>>

\* Between turns and in them, and not in the middle of one of the above.
Working(s) == s \in alive /\ phase[s] \in {"idle", "turn"}

\* A call is charged: its row, and totals in the index under the old stamp.
\* A cleanup that has counted the rows cannot see it, unless something else
\* stamps the session before the index is read again.
SpendRow(s) ==
    /\ Working(s) /\ rows[s] < MaxRows
    /\ rows' = [rows EXCEPT ![s] = @ + 1]
    /\ late' = IF \/ clean.at = "counted" /\ s \in clean.sessions \ clean.touched
                  \/ clean.at = "removing" /\ s \in clean.still
               THEN late \cup {s} ELSE late
    /\ UNCHANGED <<refs, made, day, alive, meta, used, phase, hand, cache, copy, clean,
                   crashes, lost>>

\* Anything else that is said or set in the session.
Save(s) ==
    /\ Working(s)
    /\ Touch(s)
    /\ UNCHANGED <<refs, made, day, alive, meta, phase, hand, money, crashes, lost>>

\* Its folder goes with its index, and a Ryter that has it open can write to it
\* no more.
Remove(s) ==
    /\ alive' = alive \ {s}
    /\ checkpoints' = [checkpoints EXCEPT ![s] = <<>>]
    /\ records' = [records EXCEPT ![s] = <<>>]
    /\ redo' = [redo EXCEPT ![s] = <<>>]
    /\ used' = [used EXCEPT ![s] = 0]
    /\ phase' = [phase EXCEPT ![s] = "idle"]
    /\ hand' = [hand EXCEPT ![s] = {}]

\* /sessions, d: nothing is counted first.
DeleteSession(s) ==
    /\ s \in alive
    /\ Remove(s)
    /\ late' = late \cup {s}
    /\ UNCHANGED <<refs, made, day, rows, cache, copy, clean, crashes, lost>>

\* No command takes a day from a snapshot to the save that names it.
NextDay ==
    /\ day < MaxDays
    /\ \A s \in alive : phase[s] \notin {"taken", "reverting", "undoing", "undone"}
    /\ day' = day + 1
    /\ UNCHANGED <<refs, made, alive, meta, used, phase, hand, money, clean, crashes, lost>>

-----------------------------------------------------------------------------
(* The running total: project.rs, project_spend.  The file is read, then   *)
(* every log that is left, then the file is written in one go.             *)

ReadTotal(r) ==
    /\ copy[r] = None
    /\ r = "cleaner" => clean.at = "counting"
    /\ copy' = [copy EXCEPT ![r] = cache]
    /\ UNCHANGED <<refs, made, day, alive, meta, used, phase, hand, rows, cache, late, clean,
                   crashes, lost>>

WriteTotal(r) ==
    /\ copy[r] # None
    /\ cache' = [s \in Sessions |-> IF s \in alive THEN rows[s] ELSE copy[r][s]]
    /\ copy' = [copy EXCEPT ![r] = None]
    /\ clean' = IF r = "cleaner" THEN [clean EXCEPT !.at = "counted"] ELSE clean
    /\ UNCHANGED <<refs, made, day, alive, meta, used, phase, hand, rows, late, crashes, lost>>

-----------------------------------------------------------------------------
(* The cleanup: storage.rs, report, plan and apply; panel/storage.rs asks. *)

NoCleanup == [at |-> "none", sessions |-> {}, refs |-> {}, touched |-> {}, still |-> {},
              now |-> 0]

\* Report::hold_without.
Hold(c, today, gone) ==
    CASE made[c] = today -> "recent"
      [] made[c] # today /\ \E s \in alive \ gone : c \in Named(s) -> "in use"
      [] OTHER -> "free"

\* The preview.  A cleanup of old sessions takes the checkpoints only they
\* reach, or that are named for them.  One that would remove nothing is not
\* asked about.
Show(kind) ==
    /\ clean.at = "none" /\ Len(made) <= MaxDuring
    /\ LET gone == IF kind = "unreachable" THEN {}
                   ELSE {s \in alive \ {Mine} : used[s] < day}
           free == {n \in DOMAIN refs : Hold(refs[n], day, gone) = "free"}
           takes == IF kind = "unreachable" THEN free
                    ELSE {n \in free : \/ Hold(refs[n], day, {}) = "in use"
                                       \/ Owner(n) \in gone}
       IN /\ gone # {} \/ takes # {}
          /\ clean' = [NoCleanup EXCEPT !.at = "shown", !.sessions = gone,
                                        !.refs = {<<n, refs[n]>> : n \in takes}]
    /\ UNCHANGED <<refs, made, day, alive, meta, used, phase, hand, money, crashes, lost>>

\* With the total brought up to date after the logs are gone.
YesWrong ==
    /\ clean.at = "shown"
    /\ clean' = [clean EXCEPT !.now = day, !.at = "counted"]
    /\ UNCHANGED <<refs, made, day, alive, meta, used, phase, hand, money, crashes, lost>>

\* The yes: what these sessions spent is counted before their logs go.
Yes ==
    /\ clean.at = "shown"
    /\ clean' = [clean EXCEPT !.now = day,
                             !.at = IF clean.sessions = {} THEN "removing" ELSE "counting"]
    /\ UNCHANGED <<refs, made, day, alive, meta, used, phase, hand, money, crashes, lost>>

\* Everything is read again: a session used since the preview stays.
ReadAgain ==
    /\ clean.at = "counted"
    /\ LET still == (clean.sessions \cap alive) \ clean.touched
       IN clean' = [NoCleanup EXCEPT !.at = "removing", !.refs = clean.refs, !.now = clean.now,
                                     !.still = still]
    /\ UNCHANGED <<refs, made, day, alive, meta, used, phase, hand, money, crashes, lost>>

RemoveOne(s) ==
    /\ clean.at = "removing" /\ s \in clean.still
    /\ Remove(s)
    /\ clean' = [clean EXCEPT !.still = @ \ {s}]
    /\ UNCHANGED <<refs, made, day, money, crashes, lost>>

\* With what the preview showed free taken as it was.
ReadRefsWrong ==
    /\ clean.at = "removing" /\ clean.still = {}
    /\ clean' = [NoCleanup EXCEPT !.at = "deleting", !.refs = clean.refs]
    /\ UNCHANGED <<refs, made, day, alive, meta, used, phase, hand, money, crashes, lost>>

\* ... and again with the sessions gone: of what was shown, what is free now
\* goes, and when nothing is, that is all.
ReadRefs ==
    /\ clean.at = "removing" /\ clean.still = {}
    /\ LET goes == {p \in clean.refs :
                      /\ p[1] \in DOMAIN refs /\ refs[p[1]] = p[2]
                      /\ Hold(p[2], clean.now, {}) = "free"}
       IN /\ clean' = IF goes = {} THEN NoCleanup
                      ELSE [NoCleanup EXCEPT !.at = "deleting", !.refs = goes]
          /\ lost' = lost \cup {s \in alive : /\ phase[s] \in {"undone", "redoing", "redone"}
                                             /\ \E r \in hand[s], p \in goes : p[2] \in InRedo(r)}
    /\ UNCHANGED <<refs, made, day, alive, meta, used, phase, hand, money, crashes>>

\* With refs deleted by name alone.
DeleteWrong ==
    /\ clean.at = "deleting"
    /\ refs' = Without(refs, {p[1] : p \in clean.refs})
    /\ clean' = NoCleanup
    /\ UNCHANGED <<made, day, alive, meta, used, phase, hand, money, crashes, lost>>

\* delete_refs: each only if it still points where it did.
Delete ==
    /\ clean.at = "deleting"
    /\ refs' = Without(refs, {n \in DOMAIN refs : <<n, refs[n]>> \in clean.refs})
    /\ clean' = NoCleanup
    /\ UNCHANGED <<made, day, alive, meta, used, phase, hand, money, crashes, lost>>

\* The preview is closed, or its Ryter ends at any step.
GiveUp ==
    /\ clean.at # "none"
    /\ clean' = NoCleanup
    /\ copy' = [copy EXCEPT !["cleaner"] = None]
    /\ UNCHANGED <<refs, made, day, alive, meta, used, phase, hand, rows, cache, late, crashes,
                   lost>>

-----------------------------------------------------------------------------
Init ==
    /\ refs = <<>> /\ made = <<>> /\ day = 0
    /\ alive = Sessions
    /\ checkpoints = [s \in Sessions |-> <<>>]
    /\ records = [s \in Sessions |-> <<>>]
    /\ redo = [s \in Sessions |-> <<>>]
    /\ used = [s \in Sessions |-> 0]
    /\ phase = [s \in Sessions |-> "idle"]
    /\ hand = [s \in Sessions |-> {}]
    /\ rows = [s \in Sessions |-> 0]
    /\ cache = [s \in Sessions |-> 0]
    /\ copy = [r \in Readers \cup {"cleaner"} |-> None]
    /\ clean = NoCleanup
    /\ crashes = 0 /\ lost = {} /\ late = {}

Next ==
    \/ \E s \in Active :
         \/ TakeCheckpoint(s) \/ PushTurn(s) \/ RecordTurn(s)
         \/ ClearRedo(s) \/ EndTurn(s)
         \/ RevertTakes(s) \/ RevertPushes(s) \/ RevertRecords(s) \/ RevertFails(s)
         \/ UndoBegins(s) \/ UndoPassesOver(s) \/ UndoStops(s) \/ UndoPops(s) \/ UndoPushes(s)
         \/ RedoPops(s) \/ RedoPushes(s) \/ RedoRecords(s)
         \/ Crash(s) \/ SpendRow(s) \/ Save(s) \/ DeleteSession(s)
    \/ \E s \in Sessions : RemoveOne(s)
    \/ \E r \in Readers \cup {"cleaner"} : ReadTotal(r) \/ WriteTotal(r)
    \/ \E kind \in {"unreachable", "older"} : Show(kind)
    \/ Yes \/ ReadAgain \/ ReadRefs \/ Delete \/ GiveUp \/ NextDay

Spec == Init /\ [][Next]_vars

-----------------------------------------------------------------------------
Names == Sessions \X {"turn", "after", "reverted", "redo", "undone"} \X (Nat \ {0})
Phases == {"idle", "taken", "pushed", "recorded", "turn", "reverting", "reverted", "kept",
           "undoing", "undone", "redoing", "redone"}

TypeOK ==
    /\ DOMAIN refs \subseteq Names /\ \A n \in DOMAIN refs : refs[n] \in Commits
    /\ made \in Seq(0..MaxDays) /\ day \in 0..MaxDays
    /\ alive \subseteq Sessions
    /\ \A s \in Sessions :
         /\ checkpoints[s] \in Seq(Commits) /\ Len(checkpoints[s]) <= CheckpointCap
         /\ Len(redo[s]) <= RedoCap
         /\ Named(s) \subseteq Commits
         /\ phase[s] \in Phases
    /\ used \in [Sessions -> 0..MaxDays]
    /\ rows \in [Sessions -> 0..MaxRows]
    /\ cache \in [Sessions -> 0..MaxRows]
    /\ copy \in [Readers \cup {"cleaner"} -> [Sessions -> 0..MaxRows] \cup {None}]
    /\ clean.at \in {"none", "shown", "counting", "counted", "removing", "deleting"}
    /\ clean.sessions \cup clean.touched \cup clean.still \cup lost \cup late
         \subseteq Sessions
    /\ crashes \in 0..MaxCrashes

\* What is in memory only.
Unsaved(s) ==
    IF phase[s] \in {"undone", "redoing", "redone"} THEN UNION {InRedo(r) : r \in hand[s]}
    ELSE hand[s]

\* What a session can still be asked to put back: its checkpoints with the ends
\* of their turns, its redos while they stand, and what is on its way from one
\* list to the other.
Needs(s) ==
    Elements(checkpoints[s])
      \cup ({records[s][c] : c \in DOMAIN records[s] \cap Elements(checkpoints[s])} \ {None})
      \cup (IF GivesUpRedo(s) THEN {} ELSE UNION {InRedo(redo[s][i]) : i \in 1..Len(redo[s])})
      \cup Unsaved(s)

\* Every commit a live session can put back has a ref, so git keeps it,
\* through turns, reverts, undos, redos and deaths and whatever a cleanup does
\* meanwhile: a plan made before a turn, an undo or a redo never takes what it
\* came to need.  Left out are sessions that have reached a cap; that have put
\* a checkpoint back at another place than its ref is named for, after an undo
\* that passed over others or died between its saves; in which a revert failed,
\* or a turn or a revert died, while there were undos to redo; and whose undo
\* or redo a cleanup read between its saves, to take what was in memory only.
RefsHold ==
    \A s \in alive \ lost : \A c \in Needs(s) : \E n \in DOMAIN refs : refs[n] = c

\* The same of every live session: what session.rs and the guide say of the
\* last fifty checkpoints.  A name is made of how many there are, so past the
\* cap each turn takes the ref of the turn before it.
CheckpointsKeepTheirRefs ==
    \A s \in alive : \A c \in Elements(checkpoints[s]) : \E n \in DOMAIN refs : refs[n] = c

\* What a session removed by the cleanup had spent is in the project's total,
\* up to what it wrote after the cleanup last looked at it.
RemovedStaysCounted ==
    \A s \in (Sessions \ alive) \ late : cache[s] = rows[s]
=============================================================================
