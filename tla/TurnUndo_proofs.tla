-------------------------- MODULE TurnUndo_proofs ---------------------------
(* Proofs about TurnUndo, for any files, contents and caps, and any number *)
(* of turns, edits and mishaps: its types, what the records say, what undo *)
(* and redo do, that neither is refused falsely, and that all of it is     *)
(* TurnHistory's.                                                          *)
EXTENDS TurnUndo, SequenceTheorems, TLAPS

LEMMA ConstantsType ==
    /\ Tracked \cap Ignored = {}
    /\ CheckpointCap \in Nat \ {0} /\ RedoCap \in Nat \ {0} /\ Seconds \subseteq Nat
    /\ None \notin Tree
  BY ConstantsAssumption DEF Tree, File

-----------------------------------------------------------------------------
(* The lists that are kept short.                                          *)

LEMMA KeepNewestType ==
    ASSUME NEW S, NEW s \in Seq(S), NEW n \in Nat
    PROVE  /\ KeepNewest(s, n) \in Seq(S)
           /\ Len(KeepNewest(s, n)) = IF Len(s) > n THEN n ELSE Len(s)
  BY DEF KeepNewest

\* A list grown by one and cut to the newest `n`.
Kept(S, s, e, n) ==
    /\ KeepNewest(Append(s, e), n) \in Seq(S)
    /\ Len(KeepNewest(Append(s, e), n)) = IF Len(s) + 1 > n THEN n ELSE Len(s) + 1
    /\ Len(KeepNewest(Append(s, e), n)) \in 1..n
    /\ KeepNewest(Append(s, e), n) # <<>>

LEMMA KeepAppended ==
    ASSUME NEW S, NEW s \in Seq(S), NEW e \in S, NEW n \in Nat \ {0}
    PROVE  Kept(S, s, e, n)
  <1>1. Append(s, e) \in Seq(S) /\ Len(Append(s, e)) = Len(s) + 1 /\ Len(s) \in Nat
    OBVIOUS
  <1>2. /\ KeepNewest(Append(s, e), n) \in Seq(S)
        /\ Len(KeepNewest(Append(s, e), n)) = IF Len(s) + 1 > n THEN n ELSE Len(s) + 1
    BY <1>1, KeepNewestType
  <1> QED BY <1>1, <1>2 DEF Kept

LEMMA PrefixType ==
    ASSUME NEW S, NEW s \in Seq(S), NEW n \in 0..Len(s)
    PROVE  SubSeq(s, 1, n) \in Seq(S) /\ Len(SubSeq(s, 1, n)) = n
  OBVIOUS

LEMMA FrontType ==
    ASSUME NEW S, NEW s \in Seq(S), s # <<>>
    PROVE  /\ Front(s) \in Seq(S) /\ Len(Front(s)) = Len(s) - 1
           /\ Last(s) \in S /\ Len(s) \in Nat \ {0}
  <1>1. Len(s) \in Nat \ {0}
    BY EmptySeq
  <1>2. Front(s) \in Seq(S) /\ Len(Front(s)) = Len(s) - 1
    <2> DEFINE n == Len(s) - 1
    <2>1. n \in 0..Len(s)
      BY <1>1
    <2> HIDE DEF n
    <2>2. SubSeq(s, 1, n) \in Seq(S) /\ Len(SubSeq(s, 1, n)) = n
      BY <2>1
    <2> QED BY <2>2 DEF Front, n
  <1>3. Last(s) \in S
    BY <1>1 DEF Last
  <1> QED BY <1>1, <1>2, <1>3

-----------------------------------------------------------------------------
(* What is recorded.                                                       *)

Files == [Paths -> File]

LEMMA SnapshotType ==
    ASSUME work \in Files
    PROVE  Snapshot \in Tree
  BY DEF Snapshot, Tree, Files, Paths

LEMMA NothingSavedType == NothingSaved \in SavedFiles /\ NoRecord \in TurnRecord
  <1>1. NothingSaved \in [{} -> SavedFile]
    BY DEF NothingSaved
  <1>2. NothingSaved \in SavedFiles
    BY <1>1 DEF SavedFiles
  <1> QED BY <1>2 DEF NoRecord, TurnRecord

Records == UNION {[D -> TurnRecord] : D \in SUBSET Commit}

LEMMA RecordType ==
    ASSUME turn_records \in Records, NEW c
    PROVE  Record(c) \in TurnRecord
  BY NothingSavedType DEF Record, Records

LEMMA WithRecordType ==
    ASSUME turn_records \in Records, NEW live, NEW c \in Commit, NEW r \in TurnRecord
    PROVE  WithRecord(live, c, r) \in Records
  <1>1. PICK D \in SUBSET Commit : turn_records \in [D -> TurnRecord]
    BY DEF Records
  <1> DEFINE E == (DOMAIN turn_records \cap ToSet(live)) \cup {c}
  <1>2. E \in SUBSET Commit
    BY <1>1
  <1>3. WithRecord(live, c, r) \in [E -> TurnRecord]
    BY <1>1 DEF WithRecord
  <1> QED BY <1>2, <1>3 DEF Records

\* TypeOK says of the records that they are such records.
LEMMA RecordsType ==
    ASSUME NEW f
    PROVE  (DOMAIN f \subseteq Commit /\ f \in [DOMAIN f -> TurnRecord]) <=> f \in Records
  BY DEF Records

LEMMA EndType ==
    ASSUME turn_records \in Records, work \in Files, NEW c \in Commit
    PROVE  End(c) \in Tree /\ TurnPaths(c) \in SUBSET Tracked
  BY RecordType, SnapshotType DEF End, TurnPaths, Between, TurnRecord

LEMMA UndoneFilesType ==
    ASSUME turn_records \in Records, work \in Files, NEW c \in Commit
    PROVE  UndoneFiles(c) \in Files
  <1>1. ASSUME NEW p \in DOMAIN Record(c).ignored PROVE Record(c).ignored[p].before \in File
    <2>1. Record(c).ignored \in SavedFiles
      BY RecordType DEF TurnRecord
    <2> QED BY <2>1 DEF SavedFiles, SavedFile
  <1>2. ASSUME NEW p \in TurnPaths(c) PROVE c.tree[p] \in File
    BY <1>2 DEF TurnPaths, Between, Commit, Tree
  <1>3. \A p \in Paths : work[p] \in File
    BY DEF Files
  <1> QED BY <1>1, <1>2, <1>3 DEF UndoneFiles, Files

LEMMA SavedNowType ==
    ASSUME turn_records \in Records, work \in Files, NEW c \in Commit
    PROVE  SavedNow(c) \in SavedFiles
  <1>1. PICK D \in SUBSET Ignored : Record(c).ignored \in [D -> SavedFile]
    BY RecordType DEF TurnRecord, SavedFiles
  <1>2. SavedNow(c) \in [D -> SavedFile]
    BY <1>1 DEF SavedNow, SavedFile, Files, Paths
  <1> QED BY <1>2 DEF SavedFiles

LEMMA FinishedType ==
    ASSUME work \in Files, NEW r \in TurnRecord
    PROVE  Finished(r) \in TurnRecord
  <1>1. PICK D \in SUBSET Ignored : r.ignored \in [D -> SavedFile]
    BY DEF TurnRecord, SavedFiles
  <1>2. [p \in DOMAIN r.ignored |-> [before |-> r.ignored[p].before, after |-> work[p]]]
           \in [D -> SavedFile]
    BY <1>1 DEF SavedFile, Files, Paths
  <1> QED BY <1>2, SnapshotType DEF Finished, TurnRecord, SavedFiles

LEMMA RedoneFilesType ==
    ASSUME work \in Files, NEW r \in Redo
    PROVE  RedoneFiles(r) \in Files
  <1>1. PICK D \in SUBSET Ignored : r.ignored \in [D -> SavedFile]
    BY DEF Redo, SavedFiles
  <1>2. \A p \in DOMAIN r.ignored : r.ignored[p].before \in File
    BY <1>1 DEF SavedFile
  <1>3. \A p \in r.paths : r.files[p] \in File
    BY DEF Redo, Tree
  <1>4. \A p \in Paths : work[p] \in File
    BY DEF Files
  <1> QED BY <1>2, <1>3, <1>4 DEF RedoneFiles, Files

\* A saved file joins a record; what it held joins what the turn wrote.
LEMMA SavedJoins ==
    ASSUME NEW r \in TurnRecord, NEW p \in Ignored, NEW f \in SavedFile
    PROVE  [r EXCEPT !.ignored = With(@, p, f)] \in TurnRecord
  <1>1. PICK D \in SUBSET Ignored : r.ignored \in [D -> SavedFile]
    BY DEF TurnRecord, SavedFiles
  <1>2. With(r.ignored, p, f) \in [D \cup {p} -> SavedFile]
    BY <1>1 DEF With
  <1>3. With(r.ignored, p, f) \in SavedFiles
    BY <1>2 DEF SavedFiles
  <1> QED BY <1>3 DEF TurnRecord

-----------------------------------------------------------------------------
(* Type correctness.                                                       *)

Said == {"", "undone", "undone over edits", "not undone", "nothing to undo",
         "redone", "redone over edits", "not redone"}
Undo == [before : Files, after : Files, turn : Turn]

\* TypeOK, in the form the steps are proved in: the lists, each with the
\* history that goes along with it, and a turn that changes files has its
\* checkpoint.
Lists == /\ checkpoints \in Seq(Commit) /\ past \in Seq(Turn)
         /\ Len(past) = Len(checkpoints) /\ Len(checkpoints) <= CheckpointCap
Undos == /\ redo \in Seq(Redo) /\ future \in Seq(Undo)
         /\ Len(future) = Len(redo) /\ Len(redo) <= RedoCap
Rest == /\ phase \in {"idle", "turn", "changing"} /\ said \in Said /\ clock \in Nat
        /\ count \in [Events -> Nat]
Typed == /\ work \in Files /\ Lists /\ Undos /\ Rest /\ turn_records \in Records
         /\ turn_checkpoint \in Commit \cup {None}
         /\ phase = "changing" => checkpoints # <<>> /\ turn_checkpoint \in Commit

LEMMA TypedIsTypeOK == Typed => TypeOK
  BY RecordsType DEF Typed, TypeOK, Lists, Undos, Rest, Said, Undo, Files

LEMMA InitTyped == Init => Typed
  <1> SUFFICES ASSUME Init PROVE Typed
    OBVIOUS
  <1>1. turn_records \in Records
    <2>1. turn_records \in [{} -> TurnRecord]
      BY DEF Init
    <2> QED BY <2>1 DEF Records
  <1>2. Lists /\ Undos
    <2>1. 0 <= CheckpointCap /\ 0 <= RedoCap
      BY ConstantsType
    <2>2. \A S : <<>> \in Seq(S) /\ Len(<<>>) = 0
      BY EmptySeq
    <2> QED BY <2>1, <2>2 DEF Init, Lists, Undos
  <1>3. Rest
    BY DEF Init, Rest, Said
  <1> QED BY <1>1, <1>2, <1>3 DEF Init, Typed, Files

LEMMA SpendType ==
    ASSUME count \in [Events -> Nat], NEW e \in Events, Spend(e)
    PROVE  count' \in [Events -> Nat]
  <1>1. count[e] + 1 \in Nat
    OBVIOUS
  <1> QED BY <1>1 DEF Spend

LEMMA RoundTyped ==
    ASSUME Typed, BeginTurn \/ EndTurn \/ Crash
    PROVE  Typed'
  <1> USE DEF Typed
  <1>0. ASSUME NEW k, past' = [past EXCEPT ![Len(past)] = k], k \in Turn, past # <<>>
        PROVE  past' \in Seq(Turn) /\ Len(past') = Len(past)
    BY <1>0 DEF Lists
  <1>1. CASE BeginTurn
    BY <1>1, SpendType DEF BeginTurn, Events, meta, history, Lists, Undos, Rest, Said
  <1>e. ASSUME phase = "changing"
        PROVE  past # <<>> /\ Len(past) \in 1..Len(past) /\ past[Len(past)] \in Turn
    BY <1>e DEF Lists
  <1>2. CASE EndTurn
    <2>1. Lists'
      <3>1. CASE phase = "changing"
        <4>1. [past[Len(past)] EXCEPT !.end = work] \in Turn
          BY <1>e, <3>1 DEF Turn, Files
        <4>2. past' = [past EXCEPT ![Len(past)] = [past[Len(past)] EXCEPT !.end = work]]
          BY <1>2, <1>e, <3>1 DEF EndTurn, Lists, Turn
        <4> QED BY <1>0, <1>2, <1>e, <3>1, <4>1, <4>2 DEF EndTurn, Lists
      <3>2. CASE phase # "changing"
        BY <1>2, <3>2 DEF EndTurn, Lists
      <3> QED BY <3>1, <3>2
    <2>2. turn_records' \in Records
      <3>1. CASE turn_checkpoint \in DOMAIN turn_records
        <4>1. turn_checkpoint \in Commit
          BY <3>1 DEF Records
        <4>2. Record(turn_checkpoint) \in TurnRecord
          BY RecordType
        <4>3. Finished(Record(turn_checkpoint)) \in TurnRecord
          BY <4>2, FinishedType
        <4>4. WithRecord(checkpoints, turn_checkpoint, Finished(Record(turn_checkpoint))) \in Records
          BY <4>1, <4>3, WithRecordType
        <4> QED BY <1>2, <4>4 DEF EndTurn
      <3>2. CASE turn_checkpoint \notin DOMAIN turn_records
        BY <1>2, <3>2 DEF EndTurn
      <3> QED BY <3>1, <3>2
    <2>3. Rest' /\ Undos'
      BY <1>2 DEF EndTurn, Rest, Undos, Said
    <2> QED BY <1>2, <2>1, <2>2, <2>3 DEF EndTurn
  <1>3. CASE Crash
    <2>1. Lists'
      <3>1. CASE phase = "changing"
        <4> DEFINE t == [past[Len(past)] EXCEPT !.end = work, !.kind = "crashed"]
        <4>1. t \in Turn
          BY <1>e, <3>1 DEF Turn, Files
        <4>2. past' = [past EXCEPT ![Len(past)] = t]
          BY <1>3, <1>e, <3>1 DEF Crash, Lists, Turn
        <4> HIDE DEF t
        <4> QED BY <1>0, <1>3, <1>e, <3>1, <4>1, <4>2 DEF Crash, Lists, meta
      <3>2. CASE phase # "changing"
        BY <1>3, <3>2 DEF Crash, Lists, meta
      <3> QED BY <3>1, <3>2
    <2>2. Rest' /\ Undos'
      BY <1>3, SpendType DEF Crash, Events, Rest, Undos, Said, meta
    <2> QED BY <1>3, <2>1, <2>2 DEF Crash, meta
  <1> QED BY <1>1, <1>2, <1>3

\* The files and a clock's second make a commit.
LEMMA CommitType ==
    ASSUME work \in Files, NEW at \in Nat
    PROVE  [tree |-> Snapshot, at |-> at] \in Commit
  BY SnapshotType DEF Commit

LEMMA CheckpointPushed ==
    ASSUME Lists, NEW c \in Commit, NEW t \in Turn,
           checkpoints' = KeepNewest(Append(checkpoints, c), CheckpointCap),
           past' = KeepNewest(Append(past, t), CheckpointCap)
    PROVE  Lists' /\ checkpoints' # <<>>
  <1>0. CheckpointCap \in Nat \ {0}
    BY ConstantsType
  <1>1. checkpoints \in Seq(Commit) /\ past \in Seq(Turn) /\ Len(past) = Len(checkpoints)
    BY DEF Lists
  <1>2. \A S : \A s \in Seq(S), e \in S : Kept(S, s, e, CheckpointCap)
    BY <1>0, KeepAppended
  <1>3. Kept(Commit, checkpoints, c, CheckpointCap) /\ Kept(Turn, past, t, CheckpointCap)
    BY <1>1, <1>2
  <1> QED BY <1>0, <1>1, <1>3 DEF Lists, Kept

LEMMA UndoPushed ==
    ASSUME Undos, NEW r \in Redo, NEW u \in Undo,
           redo' = KeepNewest(Append(redo, r), RedoCap),
           future' = KeepNewest(Append(future, u), RedoCap)
    PROVE  Undos'
  <1>0. RedoCap \in Nat \ {0}
    BY ConstantsType
  <1>1. redo \in Seq(Redo) /\ future \in Seq(Undo) /\ Len(future) = Len(redo)
    BY DEF Undos
  <1>2. \A S : \A s \in Seq(S), e \in S : Kept(S, s, e, RedoCap)
    BY <1>0, KeepAppended
  <1>3. Kept(Redo, redo, r, RedoCap) /\ Kept(Undo, future, u, RedoCap)
    BY <1>1, <1>2
  <1> QED BY <1>0, <1>1, <1>3 DEF Undos, Kept

LEMMA UndosForgotten ==
    ASSUME redo' = <<>>, future' = <<>>
    PROVE  Undos'
  <1>1. 0 <= RedoCap
    BY ConstantsType
  <1>2. \A S : <<>> \in Seq(S) /\ Len(<<>>) = 0
    BY EmptySeq
  <1> QED BY <1>1, <1>2 DEF Undos

LEMMA CheckpointTyped ==
    ASSUME Typed, CheckpointBeforeBuild
    PROVE  Typed'
  <1> USE DEF Typed
  <1>1. clock' \in Nat
    <2>1. PICK dt \in Seconds : clock' = clock + dt
      BY DEF CheckpointBeforeBuild
    <2> QED BY <2>1, ConstantsType DEF Rest
  <1> DEFINE same  == checkpoints # <<>> /\ Last(checkpoints).tree = Snapshot
             start == IF same THEN Last(checkpoints) ELSE [tree |-> Snapshot, at |-> clock']
             fresh == [start |-> work, end |-> work, kind |-> "turn",
                       wrote |-> IF same THEN Last(past).wrote ELSE NothingWritten,
                       turns |-> IF same THEN Last(past).turns + 1 ELSE 1]
  <1>2. /\ checkpoints' = IF same THEN checkpoints
                           ELSE KeepNewest(Append(checkpoints, start), CheckpointCap)
        /\ past' = IF same THEN Append(Front(past), fresh)
                   ELSE KeepNewest(Append(past, fresh), CheckpointCap)
        /\ turn_checkpoint' = start
        /\ turn_records' = WithRecord(checkpoints', start, NoRecord)
    BY DEF CheckpointBeforeBuild
  <1>3. ASSUME same
        PROVE  /\ Last(checkpoints) \in Commit /\ Last(past) \in Turn
               /\ Front(past) \in Seq(Turn) /\ Len(Front(past)) = Len(past) - 1
               /\ Len(past) \in Nat \ {0}
    <2>1. checkpoints # <<>> /\ past # <<>>
      BY <1>3 DEF Lists
    <2> QED BY <2>1, FrontType DEF Lists
  <1>4. start \in Commit
    BY <1>1, <1>3, CommitType
  <1>5. fresh \in Turn
    <2>1. NothingWritten \in UNION {[D -> File] : D \in SUBSET Ignored}
      <3>1. NothingWritten \in [{} -> File]
        BY DEF NothingWritten
      <3> QED BY <3>1
    <2> QED BY <1>3, <2>1 DEF Turn, Files
  <1> HIDE DEF same, start, fresh
  <1>6. Lists' /\ checkpoints' # <<>>
    <2>1. CASE same
      <3>1. /\ Append(Front(past), fresh) \in Seq(Turn)
            /\ Len(Append(Front(past), fresh)) = Len(past)
        BY <1>3, <1>5, <2>1
      <3>2. checkpoints # <<>>
        BY <2>1 DEF same
      <3> QED BY <1>2, <2>1, <3>1, <3>2 DEF Lists
    <2>2. CASE ~same
      BY <1>2, <1>4, <1>5, <2>2, CheckpointPushed
    <2> QED BY <2>1, <2>2
  <1>7. turn_records' \in Records
    BY <1>2, <1>4, NothingSavedType, WithRecordType
  <1>8. Undos'
    <2>1. redo' = <<>> /\ future' = <<>>
      BY DEF CheckpointBeforeBuild
    <2> QED BY <2>1, UndosForgotten
  <1>9. Rest' /\ work' \in Files
    BY <1>1 DEF CheckpointBeforeBuild, Rest, Said
  <1> QED BY <1>2, <1>4, <1>6, <1>7, <1>8, <1>9

\* What changes only the files, what is said and what is counted.
LEMMA WriteTyped ==
    ASSUME Typed,
           \/ \E p \in Tracked, c \in File : ToolWrite(p, c)
           \/ \E p \in Ignored, c \in File : WriteIgnored(p, c)
           \/ \E p \in Paths, c \in File : UserEdit(p, c)
           \/ \E p \in Paths, c \in File : WriteUnkept(p, c)
           \/ RedoRefused
    PROVE  Typed'
  <1> USE DEF Typed
  <1>1. ASSUME NEW p \in Paths, NEW c \in File, work' = [work EXCEPT ![p] = c]
        PROVE  work' \in Files
    BY <1>1 DEF Files
  <1>2. ASSUME NEW p \in Tracked, NEW c \in File, ToolWrite(p, c)
        PROVE  Typed'
    BY <1>1, <1>2 DEF ToolWrite, Paths, meta, history, Lists, Undos, Rest, Said
  <1>3. ASSUME NEW p \in Ignored, NEW c \in File, WriteIgnored(p, c)
        PROVE  Typed'
    BY <1>1, <1>3 DEF WriteIgnored, Paths, meta, history, Lists, Undos, Rest, Said
  <1>4. ASSUME NEW p \in Paths, NEW c \in File, UserEdit(p, c)
        PROVE  Typed'
    BY <1>1, <1>4, SpendType DEF UserEdit, Events, meta, history, Lists, Undos, Rest, Said
  <1>5. ASSUME NEW p \in Paths, NEW c \in File, WriteUnkept(p, c)
        PROVE  Typed'
    BY <1>1, <1>5, SpendType DEF WriteUnkept, Events, meta, history, Lists, Undos, Rest, Said
  <1>6. ASSUME RedoRefused PROVE Typed'
    BY <1>6 DEF RedoRefused, meta, history, Lists, Undos, Rest, Said
  <1> QED BY <1>2, <1>3, <1>4, <1>5, <1>6

LEMMA SaveIgnoredTyped ==
    ASSUME Typed, NEW p \in Ignored, SaveIgnored(p)
    PROVE  Typed'
  <1> USE DEF Typed
  <1>1. turn_records' \in Records
    <2> DEFINE r == Record(turn_checkpoint)
               f == [before |-> work[p], after |-> Absent]
               s == [r EXCEPT !.ignored = With(@, p, f)]
    <2>1. turn_checkpoint \in Commit
      BY DEF SaveIgnored
    <2>2. f \in SavedFile
      BY DEF SavedFile, Files, Paths, File
    <2>3. s \in TurnRecord
      BY <2>2, RecordType, SavedJoins
    <2>4. turn_records' = WithRecord(checkpoints, turn_checkpoint, s)
      BY DEF SaveIgnored
    <2> HIDE DEF s
    <2> QED BY <2>1, <2>3, <2>4, WithRecordType
  <1>2. Lists'
    <2> DEFINE t == past[Len(past)]
               w == IF p \in DOMAIN t.wrote THEN t.wrote ELSE With(t.wrote, p, work[p])
    <2>0. phase = "changing"
      BY DEF SaveIgnored
    <2>1. past # <<>> /\ Len(past) \in 1..Len(past) /\ t \in Turn
      BY <2>0 DEF Lists
    <2>2. past' = [past EXCEPT ![Len(past)] = [t EXCEPT !.wrote = w]]
      BY <2>1 DEF SaveIgnored, Lists, Turn
    <2>3. [t EXCEPT !.wrote = w] \in Turn
      <3>1. PICK D \in SUBSET Ignored : t.wrote \in [D -> File]
        BY <2>1 DEF Turn
      <3>2. work[p] \in File
        BY DEF Files, Paths
      <3>3. With(t.wrote, p, work[p]) \in [D \cup {p} -> File]
        BY <3>1, <3>2 DEF With
      <3>4. w \in UNION {[E -> File] : E \in SUBSET Ignored}
        BY <3>1, <3>3
      <3> HIDE DEF w
      <3> QED BY <2>1, <3>4 DEF Turn
    <2> HIDE DEF w
    <2>4. past' \in Seq(Turn) /\ Len(past') = Len(past)
      BY <2>1, <2>2, <2>3 DEF Lists
    <2> QED BY <2>4 DEF SaveIgnored, Lists
  <1> QED BY <1>1, <1>2 DEF SaveIgnored, Undos, Rest, Said

\* An undo that stops short of putting anything back.
LEMMA UndoLooksTyped ==
    ASSUME Typed, UndoNothing \/ UndoRefused
    PROVE  Typed'
  <1> USE DEF Typed
  <1>1. ASSUME NEW n \in 0..Len(checkpoints),
               checkpoints' = SubSeq(checkpoints, 1, n), past' = SubSeq(past, 1, n)
        PROVE  Lists'
    BY <1>1, PrefixType, ConstantsType DEF Lists
  <1>2. CASE UndoNothing
    <2>1. Lists'
      <3>1. \A S : <<>> \in Seq(S) /\ Len(<<>>) = 0
        BY EmptySeq
      <3>2. checkpoints' = <<>> /\ past' = <<>>
        BY <1>2 DEF UndoNothing
      <3>3. 0 <= CheckpointCap
        BY ConstantsType
      <3> QED BY <3>1, <3>2, <3>3 DEF Lists
    <2> QED BY <1>2, <2>1 DEF UndoNothing, Undos, Rest, Said
  <1>3. CASE UndoRefused
    <2>1. Lists'
      <3>1. PICK n \in 1..Len(checkpoints) :
               checkpoints' = SubSeq(checkpoints, 1, n) /\ past' = SubSeq(past, 1, n)
        BY <1>3 DEF UndoRefused
      <3>2. n \in 0..Len(checkpoints)
        BY <3>1
      <3> QED BY <1>1, <3>1, <3>2
    <2> QED BY <1>3, <2>1 DEF UndoRefused, Undos, Rest, Said
  <1> QED BY <1>2, <1>3

LEMMA UndoDoneTyped ==
    ASSUME Typed, NEW force \in BOOLEAN, UndoDone(force)
    PROVE  Typed'
  <1> USE DEF Typed
  <1>1. PICK n \in 1..Len(checkpoints) :
          LET c == checkpoints[n] IN
          /\ work' = UndoneFiles(c)
          /\ checkpoints' = SubSeq(checkpoints, 1, n - 1)
          /\ redo' = KeepNewest(Append(redo,
                         [checkpoint |-> c, record |-> Record(c), files |-> Snapshot,
                          undone |-> [p \in Tracked |-> work'[p]], paths |-> TurnPaths(c),
                          ignored |-> SavedNow(c), audit |-> FALSE]), RedoCap)
          /\ turn_checkpoint' = IF n > 1 THEN checkpoints[n-1] ELSE None
          /\ past' = SubSeq(past, 1, n - 1)
          /\ future' = KeepNewest(Append(future,
                         [before |-> work, after |-> work', turn |-> past[n]]), RedoCap)
    BY DEF UndoDone
  <1> DEFINE c == checkpoints[n]
             r == [checkpoint |-> c, record |-> Record(c), files |-> Snapshot,
                   undone |-> [p \in Tracked |-> work'[p]], paths |-> TurnPaths(c),
                   ignored |-> SavedNow(c), audit |-> FALSE]
             u == [before |-> work, after |-> work', turn |-> past[n]]
  <1>2. c \in Commit /\ past[n] \in Turn
    BY DEF Lists
  <1>3. work' \in Files
    BY <1>1, <1>2, UndoneFilesType
  <1>4. r \in Redo
    <2>1. [p \in Tracked |-> work'[p]] \in Tree
      BY <1>3 DEF Files, Paths, Tree
    <2>2. Record(c) \in TurnRecord
      BY RecordType
    <2>3. Snapshot \in Tree
      BY SnapshotType
    <2>4. TurnPaths(c) \in SUBSET Tracked /\ SavedNow(c) \in SavedFiles
      BY <1>2, EndType, SavedNowType
    <2> QED BY <1>2, <2>1, <2>2, <2>3, <2>4 DEF Redo
  <1>5. u \in Undo
    BY <1>2, <1>3 DEF Undo
  <1>6. redo' = KeepNewest(Append(redo, r), RedoCap) /\ future' = KeepNewest(Append(future, u), RedoCap)
    BY <1>1
  <1> HIDE DEF r, u
  <1>7. Undos'
    BY <1>4, <1>5, <1>6, UndoPushed
  <1>8. Lists'
    <2> DEFINE m == n - 1
    <2>1. m \in 0..Len(checkpoints) /\ m <= CheckpointCap
      BY ConstantsType DEF Lists
    <2>2. checkpoints' = SubSeq(checkpoints, 1, m) /\ past' = SubSeq(past, 1, m)
      BY <1>1
    <2> HIDE DEF m
    <2> QED BY <2>1, <2>2, PrefixType DEF Lists
  <1>9. turn_checkpoint' \in Commit \cup {None}
    BY <1>1 DEF Lists
  <1> QED BY <1>3, <1>7, <1>8, <1>9 DEF UndoDone, Rest, Said

LEMMA RedoDoneTyped ==
    ASSUME Typed, NEW force \in BOOLEAN, RedoDone(force)
    PROVE  Typed'
  <1> USE DEF Typed
  <1> DEFINE r == Last(redo)
  <1>1. /\ redo # <<>>
        /\ work' = RedoneFiles(r)
        /\ redo' = Front(redo) /\ future' = Front(future)
        /\ checkpoints' = KeepNewest(Append(checkpoints, r.checkpoint), CheckpointCap)
        /\ past' = KeepNewest(Append(past, Last(future).turn), CheckpointCap)
        /\ turn_records' = WithRecord(checkpoints', r.checkpoint, r.record)
        /\ turn_checkpoint' = r.checkpoint
    BY DEF RedoDone
  <1>2. future # <<>>
    BY <1>1 DEF Undos
  <1>3. r \in Redo /\ Front(redo) \in Seq(Redo) /\ Len(Front(redo)) = Len(redo) - 1
    BY <1>1, FrontType DEF Undos
  <1>4. Last(future) \in Undo /\ Front(future) \in Seq(Undo) /\ Len(Front(future)) = Len(future) - 1
    BY <1>2, FrontType DEF Undos
  <1> HIDE DEF r
  <1>5. r.checkpoint \in Commit /\ r.record \in TurnRecord
    BY <1>3 DEF Redo
  <1>6. Last(future).turn \in Turn
    BY <1>4 DEF Undo
  <1>7. Lists' /\ checkpoints' # <<>>
    BY <1>1, <1>5, <1>6, CheckpointPushed
  <1>8. Undos'
    BY <1>1, <1>3, <1>4, ConstantsType DEF Undos
  <1>9. work' \in Files
    BY <1>1, <1>3, RedoneFilesType
  <1>10. turn_records' \in Records
    BY <1>1, <1>5, WithRecordType
  <1> QED BY <1>1, <1>5, <1>7, <1>8, <1>9, <1>10 DEF RedoDone, Rest, Said

LEMMA NothingWrittenType == NothingWritten \in UNION {[D -> File] : D \in SUBSET Ignored}
  <1>1. NothingWritten \in [{} -> File]
    BY DEF NothingWritten
  <1> QED BY <1>1

\* A revert, one that fails too, pushes its checkpoint.
LEMMA RevertPushes ==
    ASSUME Typed, RevertCheckpoint, NEW t \in Turn,
           past' = KeepNewest(Append(past, t), CheckpointCap)
    PROVE  /\ clock' \in Nat
           /\ [tree |-> Snapshot, at |-> clock'] \in Commit
           /\ turn_checkpoint' \in Commit \cup {None}
           /\ Lists' /\ checkpoints' # <<>>
  <1> USE DEF Typed
  <1>1. clock' \in Nat
    <2>1. PICK dt \in Seconds : clock' = clock + dt
      BY DEF RevertCheckpoint
    <2> QED BY <2>1, ConstantsType DEF Rest
  <1> DEFINE c == [tree |-> Snapshot, at |-> clock']
  <1>2. c \in Commit
    BY <1>1, CommitType
  <1>3. turn_checkpoint' \in Commit \cup {None}
    <2>1. CASE checkpoints = <<>>
      BY <2>1 DEF RevertCheckpoint
    <2>2. CASE checkpoints # <<>>
      <3>1. Last(checkpoints) \in Commit
        BY <2>2, FrontType DEF Lists
      <3> QED BY <3>1 DEF RevertCheckpoint
    <2> QED BY <2>1, <2>2
  <1>4. checkpoints' = KeepNewest(Append(checkpoints, c), CheckpointCap)
    BY DEF RevertCheckpoint
  <1>5. Lists' /\ checkpoints' # <<>>
    <2> HIDE DEF c
    <2> QED BY <1>2, <1>4, CheckpointPushed
  <1> QED BY <1>1, <1>2, <1>3, <1>5

LEMMA RevertTyped ==
    ASSUME Typed, NEW p \in Tracked, NEW c \in File, Revert(p, c)
    PROVE  Typed'
  <1> USE DEF Typed
  <1> DEFINE t == [start |-> work, end |-> work', kind |-> "revert",
                   wrote |-> NothingWritten, turns |-> 1]
             k == [tree |-> Snapshot, at |-> clock']
             r == [after |-> [Snapshot EXCEPT ![p] = c], ignored |-> NothingSaved]
  <1>1. work' = [work EXCEPT ![p] = c]
    BY DEF Revert
  <1>2. work' \in Files
    BY <1>1 DEF Files
  <1>3. t \in Turn
    BY <1>2, NothingWrittenType DEF Turn, Files
  <1>4. /\ RevertCheckpoint
        /\ past' = KeepNewest(Append(past, t), CheckpointCap)
        /\ turn_records' = WithRecord(checkpoints', k, r)
    BY DEF Revert
  <1> HIDE DEF t
  <1>5. /\ clock' \in Nat /\ k \in Commit /\ turn_checkpoint' \in Commit \cup {None}
        /\ Lists' /\ checkpoints' # <<>>
    BY <1>3, <1>4, RevertPushes
  <1>6. r \in TurnRecord
    <2>1. [Snapshot EXCEPT ![p] = c] \in Tree
      BY SnapshotType DEF Tree
    <2> QED BY <2>1, NothingSavedType DEF TurnRecord
  <1> HIDE DEF k, r
  <1>7. turn_records' \in Records
    BY <1>4, <1>5, <1>6, WithRecordType
  <1>8. Undos'
    <2>1. redo' = <<>> /\ future' = <<>>
      BY DEF Revert
    <2> QED BY <2>1, UndosForgotten
  <1>9. phase' = "idle" /\ said' = "" /\ count' \in [Events -> Nat]
    BY SpendType DEF Revert, RevertCheckpoint, Events, Rest
  <1> QED BY <1>2, <1>5, <1>7, <1>8, <1>9 DEF Rest, Said

LEMMA RevertFailsTyped ==
    ASSUME Typed, RevertFails
    PROVE  Typed'
  <1> USE DEF Typed
  <1> DEFINE t == [start |-> work, end |-> work, kind |-> "failed",
                   wrote |-> NothingWritten, turns |-> 1]
  <1>1. t \in Turn
    BY NothingWrittenType DEF Turn, Files
  <1>2. RevertCheckpoint /\ past' = KeepNewest(Append(past, t), CheckpointCap)
    BY DEF RevertFails
  <1> HIDE DEF t
  <1>3. /\ clock' \in Nat /\ turn_checkpoint' \in Commit \cup {None}
        /\ Lists' /\ checkpoints' # <<>>
    BY <1>1, <1>2, RevertPushes
  <1>4. phase' = "idle" /\ said' = "" /\ count' \in [Events -> Nat]
    BY SpendType DEF RevertFails, RevertCheckpoint, Events, Rest
  <1>5. Undos' /\ work' \in Files /\ turn_records' \in Records
    BY DEF RevertFails, Undos
  <1> QED BY <1>3, <1>4, <1>5 DEF Rest, Said

LEMMA AuditTyped ==
    ASSUME Typed, NEW left \in Tree, AuditRolledBack(left)
    PROVE  Typed'
  <1> USE DEF Typed
  <1> DEFINE k == [tree |-> Snapshot, at |-> clock']
             leftWork == [p \in Paths |-> IF p \in Tracked THEN left[p] ELSE work[p]]
             r == [checkpoint |-> k, record |-> [after |-> left, ignored |-> NothingSaved],
                   files |-> left, undone |-> Snapshot, paths |-> Between(Snapshot, left),
                   ignored |-> NothingSaved, audit |-> TRUE]
             t == [start |-> work, end |-> leftWork, kind |-> "audit",
                   wrote |-> NothingWritten, turns |-> 1]
             u == [before |-> leftWork, after |-> work, turn |-> t]
  <1>1. clock' \in Nat
    <2>1. PICK dt \in Seconds : clock' = clock + dt
      BY DEF AuditRolledBack
    <2> QED BY <2>1, ConstantsType DEF Rest
  <1>2. leftWork \in Files
    BY DEF Files, Paths, Tree
  <1>3. r \in Redo
    <2>1. k \in Commit /\ Snapshot \in Tree
      BY <1>1, CommitType, SnapshotType
    <2>2. [after |-> left, ignored |-> NothingSaved] \in TurnRecord
      BY NothingSavedType DEF TurnRecord
    <2>3. Between(Snapshot, left) \in SUBSET Tracked
      BY DEF Between
    <2> HIDE DEF k
    <2> QED BY <2>1, <2>2, <2>3, NothingSavedType DEF Redo
  <1> HIDE DEF leftWork
  <1>4. t \in Turn
    BY <1>2, NothingWrittenType DEF Turn, Files
  <1> HIDE DEF t
  <1>5. u \in Undo
    BY <1>2, <1>4 DEF Undo
  <1>6. redo' = KeepNewest(Append(redo, r), RedoCap) /\ future' = KeepNewest(Append(future, u), RedoCap)
    BY DEF AuditRolledBack, leftWork, t
  <1> HIDE DEF r, u
  <1>7. Undos'
    BY <1>3, <1>5, <1>6, UndoPushed
  <1>8. said' = "" /\ count' \in [Events -> Nat]
    BY SpendType DEF AuditRolledBack, Events, Rest
  <1>9. UNCHANGED <<work, checkpoints, turn_records, turn_checkpoint, phase, past>>
    BY DEF AuditRolledBack
  <1> QED BY <1>1, <1>7, <1>8, <1>9 DEF Lists, Rest, Said

LEMMA NextTyped == Typed /\ [Next]_vars => Typed'
  <1> SUFFICES ASSUME Typed, [Next]_vars PROVE Typed'
    OBVIOUS
  <1>1. CASE BeginTurn \/ EndTurn \/ Crash
    BY <1>1, RoundTyped
  <1>2. CASE CheckpointBeforeBuild
    BY <1>2, CheckpointTyped
  <1>3. CASE \/ \E p \in Tracked, c \in File : ToolWrite(p, c)
             \/ \E p \in Ignored, c \in File : WriteIgnored(p, c)
             \/ \E p \in Paths, c \in File : UserEdit(p, c)
             \/ \E p \in Paths, c \in File : WriteUnkept(p, c)
             \/ RedoRefused
    BY <1>3, WriteTyped
  <1>4. CASE \E p \in Ignored : SaveIgnored(p)
    BY <1>4, SaveIgnoredTyped
  <1>5. CASE UndoNothing \/ UndoRefused
    BY <1>5, UndoLooksTyped
  <1>6. CASE \E force \in BOOLEAN : UndoDone(force)
    BY <1>6, UndoDoneTyped
  <1>7. CASE \E force \in BOOLEAN : RedoDone(force)
    BY <1>7, RedoDoneTyped
  <1>8. CASE \E p \in Tracked, c \in File : Revert(p, c)
    BY <1>8, RevertTyped
  <1>9. CASE RevertFails
    BY <1>9, RevertFailsTyped
  <1>10. CASE \E left \in Tree : AuditRolledBack(left)
    BY <1>10, AuditTyped
  <1>11. CASE UNCHANGED vars
    BY <1>11 DEF vars, Typed, Lists, Undos, Rest
  <1> QED BY <1>1, <1>2, <1>3, <1>4, <1>5, <1>6, <1>7, <1>8, <1>9, <1>10, <1>11 DEF Next

\* Whatever turns, undos, redos, reverts, audits, crashes and edits come in
\* whatever order, the session keeps its types, its list of checkpoints and
\* its list of undos keep to their caps (session.rs, push_checkpoint and
\* push_redo), and a turn that changes files has its checkpoint.
THEOREM TypeCorrect == Spec => []TypeOK
  <1>1. Spec => []Typed
    BY InitTyped, NextTyped, PTL DEF Spec
  <1> QED BY <1>1, TypedIsTypeOK, PTL

-----------------------------------------------------------------------------
(* What the lists say of the turns.  Each checkpoint with its record is set *)
(* against what the turn from it really did, and each undo against the      *)
(* files around it.                                                         *)

RecordIn(rs, c) == IF c \in DOMAIN rs THEN rs[c] ELSE NoRecord
Same(f, g) == \A p \in Tracked : f[p] = g[p]

\* Checkpoint `c` with record `r` tells how turn `t` began and which ignored
\* files it saved.
Tells(c, t, r) ==
    /\ Same(c.tree, t.start)
    /\ t.turns > 0
    /\ t.turns = 1 => /\ DOMAIN r.ignored = DOMAIN t.wrote
                      /\ \A p \in DOMAIN t.wrote : r.ignored[p].before = t.wrote[p]

\* ... and how it ended.
TellsEnd(r, t) == Recorded(t) => r.after # None /\ Same(r.after, t.end)

\* Of every turn kept but one that is still open.
AllTold(cs, ts, rs, open) ==
    \A n \in 1..Len(cs) :
        /\ Tells(cs[n], ts[n], RecordIn(rs, cs[n]))
        /\ (open => n < Len(cs)) => TellsEnd(RecordIn(rs, cs[n]), ts[n])

\* Undo `r` knows the files as they were around it.
Reverses(r, u) ==
    /\ Tells(r.checkpoint, u.turn, r.record) /\ TellsEnd(r.record, u.turn)
    /\ Same(r.files, u.before) /\ Same(r.undone, u.after)
    /\ \A p \in Tracked \ r.paths : u.before[p] = u.after[p]
    /\ \A p \in Ignored :
          IF p \in DOMAIN r.ignored
          THEN r.ignored[p].before = u.before[p] /\ r.ignored[p].after = u.after[p]
          ELSE u.before[p] = u.after[p]
AllReverse(us, fs) == \A i \in 1..Len(us) : Reverses(us[i], fs[i])

\* A turn that has its checkpoint is the newest, its record is open, and
\* there is nothing to redo.
Running ==
    phase = "changing" =>
        /\ turn_checkpoint = checkpoints[Len(checkpoints)]
        /\ turn_checkpoint \in DOMAIN turn_records
        /\ RecordIn(turn_records, turn_checkpoint).after = None
        /\ past[Len(past)].kind = "turn"
        /\ redo = <<>>

\* No commit is newer than the clock.
NoneNewer(cs, us, rs, now) ==
    /\ \A n \in 1..Len(cs) : cs[n].at <= now
    /\ \A i \in 1..Len(us) : us[i].checkpoint.at <= now
    /\ \A c \in DOMAIN rs : c.at <= now

\* No two checkpoints, kept or undone, are the same commit.
Apart(cs, us) ==
    /\ \A m, n \in 1..Len(cs) : cs[m] = cs[n] => m = n
    /\ \A i, j \in 1..Len(us) : us[i].checkpoint = us[j].checkpoint => i = j
    /\ \A n \in 1..Len(cs), i \in 1..Len(us) : cs[n] # us[i].checkpoint

\* git dates a commit to the second: the clock moves on between two checkpoints.
ClockMoves == 0 \notin Seconds

Told == IF phase = "changing" THEN AllTold(checkpoints, past, turn_records, TRUE)
        ELSE AllTold(checkpoints, past, turn_records, FALSE)

Known == /\ NoneNewer(checkpoints, redo, turn_records, clock)
         /\ Apart(checkpoints, redo)
         /\ AllReverse(redo, future)

Faithful == Typed /\ Known /\ Told /\ Running

-----------------------------------------------------------------------------
(* Lists, element by element.                                              *)

\* How many of a list grown by one are dropped to keep `n`.
Dropped(s, n) == IF Len(s) + 1 > n THEN Len(s) + 1 - n ELSE 0

\* List `k` is list `s` with `e` at its end, without the first `d`.
Shifted(k, s, e, d) ==
    /\ d \in 0..Len(s)
    /\ Len(k) = Len(s) + 1 - d /\ Len(k) \in Nat
    /\ k[Len(k)] = e
    /\ \A i \in 1..Len(k) :
          /\ i = Len(k) => k[i] = e
          /\ i < Len(k) => i + d \in 1..Len(s) /\ k[i] = s[i + d]

LEMMA KeptElements ==
    ASSUME NEW S, NEW s \in Seq(S), NEW e \in S, NEW n \in Nat \ {0}
    PROVE  Shifted(KeepNewest(Append(s, e), n), s, e, Dropped(s, n))
  <1> DEFINE a == Append(s, e)
             d == Dropped(s, n)
             k == KeepNewest(a, n)
  <1>1. a \in Seq(S) /\ Len(a) = Len(s) + 1 /\ Len(s) \in Nat /\ a[Len(s) + 1] = e
    OBVIOUS
  <1>2. \A i \in 1..Len(s) : a[i] = s[i]
    OBVIOUS
  <1>3. d \in 0..Len(s)
    BY DEF Dropped
  <1> HIDE DEF a
  <1>4. Len(k) = Len(s) + 1 - d /\ Len(k) > 0 /\ Len(k) \in Nat
    <2>1. Len(k) = IF Len(a) > n THEN n ELSE Len(a)
      BY <1>1, KeepNewestType
    <2> HIDE DEF k
    <2> QED BY <1>1, <2>1 DEF Dropped
  <1>5. \A i \in 1..Len(k) : k[i] = a[i + d]
    BY <1>1 DEF KeepNewest, Dropped
  <1> HIDE DEF k, d
  <1>6. Len(k) \in 1..Len(k) /\ Len(k) + d = Len(s) + 1
    BY <1>1, <1>3, <1>4
  <1>7. k[Len(k)] = e
    BY <1>1, <1>5, <1>6
  <1>8. ASSUME NEW i \in 1..Len(k), i < Len(k)
        PROVE  i + d \in 1..Len(s) /\ k[i] = s[i + d]
    <2>1. i + d \in 1..Len(s)
      BY <1>1, <1>3, <1>4, <1>8
    <2> QED BY <2>1, <1>2, <1>5
  <1>9. Shifted(k, s, e, d)
    BY <1>3, <1>4, <1>7, <1>8 DEF Shifted
  <1> QED BY <1>9 DEF k, d, a

LEMMA FrontElements ==
    ASSUME NEW S, NEW s \in Seq(S), s # <<>>
    PROVE  /\ Len(Front(s)) = Len(s) - 1 /\ Len(s) \in Nat \ {0}
           /\ \A i \in 1..Len(Front(s)) : i \in 1..Len(s) /\ i < Len(s) /\ Front(s)[i] = s[i]
           /\ Last(s) = s[Len(s)]
  <1>1. Len(Front(s)) = Len(s) - 1 /\ Len(s) \in Nat \ {0}
    BY FrontType
  <1>2. \A i \in 1..Len(Front(s)) : Front(s)[i] = s[i]
    BY <1>1 DEF Front
  <1>3. Last(s) = s[Len(s)]
    BY DEF Last
  <1> QED BY <1>1, <1>2, <1>3

\* A checkpoint's record once another is written.
LEMMA OtherRecords ==
    ASSUME NEW live \in Seq(Commit), NEW c, NEW r, NEW n \in 1..Len(live), live[n] # c
    PROVE  RecordIn(WithRecord(live, c, r), live[n]) = RecordIn(turn_records, live[n])
  <1>1. live[n] \in ToSet(live)
    BY DEF ToSet
  <1> QED BY <1>1 DEF RecordIn, WithRecord

LEMMA OwnRecord ==
    ASSUME NEW live, NEW c, NEW r
    PROVE  RecordIn(WithRecord(live, c, r), c) = r /\ c \in DOMAIN WithRecord(live, c, r)
  BY DEF RecordIn, WithRecord

-----------------------------------------------------------------------------
(* The lists, told, once one of them grows or shrinks.                     *)

\* A checkpoint pushed together with its turn.
LEMMA ToldPushed ==
    ASSUME NEW cs \in Seq(Commit), NEW ts \in Seq(Turn), Len(ts) = Len(cs),
           NEW rs, AllTold(cs, ts, rs, FALSE),
           NEW c \in Commit, NEW t \in Turn, NEW rs2, NEW open \in BOOLEAN,
           NEW k, k = KeepNewest(Append(cs, c), CheckpointCap),
           NEW kt, kt = KeepNewest(Append(ts, t), CheckpointCap),
           \A n \in 1..Len(k) : n < Len(k) => RecordIn(rs2, k[n]) = RecordIn(rs, k[n]),
           Tells(c, t, RecordIn(rs2, c)), ~open => TellsEnd(RecordIn(rs2, c), t)
    PROVE  AllTold(k, kt, rs2, open)
  <1> DEFINE d == Dropped(cs, CheckpointCap)
  <1>0. CheckpointCap \in Nat \ {0}
    BY ConstantsType
  <1>s. Shifted(k, cs, c, d)
    BY <1>0, KeptElements
  <1>1. /\ d \in 0..Len(cs) /\ Len(k) = Len(cs) + 1 - d /\ Len(k) \in Nat
        /\ \A i \in 1..Len(k) : /\ i = Len(k) => k[i] = c
                                /\ i < Len(k) => i + d \in 1..Len(cs) /\ k[i] = cs[i + d]
    BY <1>s DEF Shifted
  <1> DEFINE dt == Dropped(ts, CheckpointCap)
  <1>2. /\ Len(kt) = Len(ts) + 1 - dt
        /\ \A i \in 1..Len(kt) : /\ i = Len(kt) => kt[i] = t
                                 /\ i < Len(kt) => kt[i] = ts[i + dt]
    <2>1. Shifted(kt, ts, t, dt)
      BY <1>0, KeptElements
    <2> QED BY <2>1 DEF Shifted
  <1>3. dt = d /\ Len(kt) = Len(k)
    BY <1>1, <1>2 DEF Dropped
  <1> HIDE DEF d, dt
  <1>e. \A i \in 1..Len(k) : i = Len(k) \/ i < Len(k)
    <2>1. Len(k) \in Nat
      BY <1>1
    <2> QED BY <2>1
  <1>4. SUFFICES ASSUME NEW n \in 1..Len(k)
                 PROVE  /\ Tells(k[n], kt[n], RecordIn(rs2, k[n]))
                        /\ (open => n < Len(k)) => TellsEnd(RecordIn(rs2, k[n]), kt[n])
    BY DEF AllTold
  <1>5. CASE n = Len(k)
    BY <1>1, <1>2, <1>3, <1>5
  <1>6. CASE n < Len(k)
    <2>1. /\ n + d \in 1..Len(cs) /\ k[n] = cs[n + d]
          /\ RecordIn(rs2, k[n]) = RecordIn(rs, k[n])
      BY <1>1, <1>6
    <2>3. kt[n] = ts[n + d]
      BY <1>2, <1>3, <1>6
    <2>2. /\ Tells(cs[n + d], ts[n + d], RecordIn(rs, cs[n + d]))
          /\ TellsEnd(RecordIn(rs, cs[n + d]), ts[n + d])
      BY <2>1 DEF AllTold
    <2> QED BY <2>1, <2>2, <2>3
  <1> QED BY <1>e, <1>5, <1>6

LEMMA ToldPrefix ==
    ASSUME NEW cs \in Seq(Commit), NEW ts \in Seq(Turn), Len(ts) = Len(cs),
           NEW rs, AllTold(cs, ts, rs, FALSE), NEW m \in 0..Len(cs)
    PROVE  AllTold(SubSeq(cs, 1, m), SubSeq(ts, 1, m), rs, FALSE)
  <1>1. /\ Len(SubSeq(cs, 1, m)) = m
        /\ \A n \in 1..m : /\ n \in 1..Len(cs) /\ SubSeq(cs, 1, m)[n] = cs[n]
                           /\ SubSeq(ts, 1, m)[n] = ts[n]
    OBVIOUS
  <1> QED BY <1>1 DEF AllTold

\* Only the newest turn and the record of its checkpoint change.
LEMMA ToldNewest ==
    ASSUME NEW cs \in Seq(Commit), cs # <<>>, NEW ts, NEW ts2,
           NEW rs, NEW rs2, NEW open \in BOOLEAN, AllTold(cs, ts, rs, TRUE),
           \A n \in 1..Len(cs) : n < Len(cs) =>
               ts2[n] = ts[n] /\ RecordIn(rs2, cs[n]) = RecordIn(rs, cs[n]),
           Tells(cs[Len(cs)], ts2[Len(cs)], RecordIn(rs2, cs[Len(cs)])),
           ~open => TellsEnd(RecordIn(rs2, cs[Len(cs)]), ts2[Len(cs)])
    PROVE  AllTold(cs, ts2, rs2, open)
  <1>1. SUFFICES ASSUME NEW n \in 1..Len(cs)
                 PROVE  /\ Tells(cs[n], ts2[n], RecordIn(rs2, cs[n]))
                        /\ (open => n < Len(cs)) => TellsEnd(RecordIn(rs2, cs[n]), ts2[n])
    BY DEF AllTold
  <1>2. CASE n = Len(cs)
    BY <1>2
  <1>3. CASE n < Len(cs)
    BY <1>3 DEF AllTold
  <1> QED BY <1>2, <1>3

LEMMA ReversePushed ==
    ASSUME NEW us \in Seq(Redo), NEW fs \in Seq(Undo), Len(fs) = Len(us), AllReverse(us, fs),
           NEW r \in Redo, NEW u \in Undo, Reverses(r, u)
    PROVE  AllReverse(KeepNewest(Append(us, r), RedoCap), KeepNewest(Append(fs, u), RedoCap))
  <1> DEFINE d == Dropped(us, RedoCap)
             k == KeepNewest(Append(us, r), RedoCap)
             kf == KeepNewest(Append(fs, u), RedoCap)
  <1>0. RedoCap \in Nat \ {0}
    BY ConstantsType
  <1>s. Shifted(k, us, r, d)
    BY <1>0, KeptElements
  <1>1. /\ d \in 0..Len(us) /\ Len(k) = Len(us) + 1 - d /\ Len(k) \in Nat
        /\ \A i \in 1..Len(k) : /\ i = Len(k) => k[i] = r
                                /\ i < Len(k) => i + d \in 1..Len(us) /\ k[i] = us[i + d]
    BY <1>s DEF Shifted
  <1>2. /\ Len(kf) = Len(fs) + 1 - Dropped(fs, RedoCap)
        /\ \A i \in 1..Len(kf) : /\ i = Len(kf) => kf[i] = u
                                 /\ i < Len(kf) => kf[i] = fs[i + Dropped(fs, RedoCap)]
    <2>1. Shifted(kf, fs, u, Dropped(fs, RedoCap))
      BY <1>0, KeptElements
    <2> QED BY <2>1 DEF Shifted
  <1>3. Dropped(fs, RedoCap) = d /\ Len(kf) = Len(k)
    BY <1>1, <1>2 DEF Dropped
  <1> HIDE DEF d, k, kf
  <1>e. \A i \in 1..Len(k) : i = Len(k) \/ i < Len(k)
    <2>1. Len(k) \in Nat
      BY <1>1
    <2> QED BY <2>1
  <1>4. ASSUME NEW i \in 1..Len(k) PROVE Reverses(k[i], kf[i])
    <2>1. CASE i = Len(k)
      BY <1>1, <1>2, <1>3, <2>1
    <2>2. CASE i < Len(k)
      <3>1. i + d \in 1..Len(us) /\ k[i] = us[i + d]
        BY <1>1, <2>2
      <3>2. kf[i] = fs[i + d]
        BY <1>2, <1>3, <2>2
      <3> QED BY <3>1, <3>2 DEF AllReverse
    <2> QED BY <1>e, <2>1, <2>2
  <1> QED BY <1>4 DEF AllReverse, k, kf

LEMMA ReverseFront ==
    ASSUME NEW us \in Seq(Redo), NEW fs \in Seq(Undo), Len(fs) = Len(us), AllReverse(us, fs),
           us # <<>>
    PROVE  AllReverse(Front(us), Front(fs)) /\ Reverses(Last(us), Last(fs))
  <1>1. fs # <<>>
    OBVIOUS
  <1>2. /\ Len(Front(us)) = Len(us) - 1 /\ Len(us) \in Nat \ {0}
        /\ \A i \in 1..Len(Front(us)) : i \in 1..Len(us) /\ Front(us)[i] = us[i]
        /\ Last(us) = us[Len(us)]
    BY FrontElements
  <1>3. /\ Len(Front(fs)) = Len(fs) - 1
        /\ \A i \in 1..Len(Front(fs)) : Front(fs)[i] = fs[i]
        /\ Last(fs) = fs[Len(fs)]
    BY <1>1, FrontElements
  <1> QED BY <1>2, <1>3 DEF AllReverse

-----------------------------------------------------------------------------
(* Commits, apart and no newer than the clock.                             *)

\* A commit that no checkpoint has, kept or undone.
New(cs, us, c) ==
    /\ \A n \in 1..Len(cs) : cs[n] # c
    /\ \A i \in 1..Len(us) : us[i].checkpoint # c

LEMMA ApartPushed ==
    ASSUME NEW cs \in Seq(Commit), NEW us, Apart(cs, us), NEW c \in Commit, New(cs, us, c)
    PROVE  Apart(KeepNewest(Append(cs, c), CheckpointCap), us)
  <1> DEFINE d == Dropped(cs, CheckpointCap)
             k == KeepNewest(Append(cs, c), CheckpointCap)
  <1>0. CheckpointCap \in Nat \ {0}
    BY ConstantsType
  <1>s. Shifted(k, cs, c, d)
    BY <1>0, KeptElements
  <1>1. /\ d \in 0..Len(cs) /\ Len(k) = Len(cs) + 1 - d /\ Len(k) \in Nat
        /\ \A i \in 1..Len(k) : /\ i = Len(k) => k[i] = c
                                /\ i < Len(k) => i + d \in 1..Len(cs) /\ k[i] = cs[i + d]
    BY <1>s DEF Shifted
  <1> HIDE DEF d, k
  <1>e. \A i \in 1..Len(k) : i = Len(k) \/ i < Len(k)
    <2>1. Len(k) \in Nat
      BY <1>1
    <2> QED BY <2>1
  <1>2. ASSUME NEW m \in 1..Len(k), NEW n \in 1..Len(k), k[m] = k[n] PROVE m = n
    <2>1. m <= Len(k) /\ n <= Len(k) /\ m \in Nat /\ n \in Nat /\ d \in Nat /\ Len(k) \in Nat
      BY <1>1
    <2>2. CASE m < Len(k) /\ n < Len(k)
      <3>1. m + d = n + d
        BY <1>1, <1>2, <2>2 DEF Apart
      <3> QED BY <2>1, <3>1
    <2>3. CASE m = Len(k) /\ n < Len(k)
      BY <1>1, <1>2, <2>3 DEF New
    <2>4. CASE n = Len(k) /\ m < Len(k)
      BY <1>1, <1>2, <2>4 DEF New
    <2> QED BY <2>1, <2>2, <2>3, <2>4
  <1>3. ASSUME NEW n \in 1..Len(k), NEW i \in 1..Len(us) PROVE k[n] # us[i].checkpoint
    <2>1. CASE n = Len(k)
      BY <1>1, <2>1 DEF New
    <2>2. CASE n < Len(k)
      <3>1. n + d \in 1..Len(cs) /\ k[n] = cs[n + d]
        BY <1>1, <2>2
      <3> QED BY <3>1 DEF Apart
    <2> QED BY <1>e, <2>1, <2>2
  <1> QED BY <1>2, <1>3 DEF Apart, k

LEMMA ApartPrefix ==
    ASSUME NEW cs \in Seq(Commit), NEW us, Apart(cs, us), NEW m \in 0..Len(cs)
    PROVE  Apart(SubSeq(cs, 1, m), us)
  <1>1. /\ Len(SubSeq(cs, 1, m)) = m
        /\ \A n \in 1..m : n \in 1..Len(cs) /\ SubSeq(cs, 1, m)[n] = cs[n]
    OBVIOUS
  <1> QED BY <1>1 DEF Apart

LEMMA ApartUndone ==
    ASSUME NEW cs, NEW us \in Seq(Redo), Apart(cs, us), NEW r \in Redo, New(cs, us, r.checkpoint)
    PROVE  Apart(cs, KeepNewest(Append(us, r), RedoCap))
  <1> DEFINE d == Dropped(us, RedoCap)
             k == KeepNewest(Append(us, r), RedoCap)
  <1>0. RedoCap \in Nat \ {0}
    BY ConstantsType
  <1>s. Shifted(k, us, r, d)
    BY <1>0, KeptElements
  <1>1. /\ d \in 0..Len(us) /\ Len(k) = Len(us) + 1 - d /\ Len(k) \in Nat
        /\ \A i \in 1..Len(k) : /\ i = Len(k) => k[i] = r
                                /\ i < Len(k) => i + d \in 1..Len(us) /\ k[i] = us[i + d]
    BY <1>s DEF Shifted
  <1> HIDE DEF d, k
  <1>e. \A i \in 1..Len(k) : i = Len(k) \/ i < Len(k)
    <2>1. Len(k) \in Nat
      BY <1>1
    <2> QED BY <2>1
  <1>2. ASSUME NEW m \in 1..Len(k), NEW n \in 1..Len(k), k[m].checkpoint = k[n].checkpoint
        PROVE  m = n
    <2>1. m <= Len(k) /\ n <= Len(k) /\ m \in Nat /\ n \in Nat /\ d \in Nat /\ Len(k) \in Nat
      BY <1>1
    <2>2. CASE m < Len(k) /\ n < Len(k)
      <3>1. m + d = n + d
        BY <1>1, <1>2, <2>2 DEF Apart
      <3> QED BY <2>1, <3>1
    <2>3. CASE m = Len(k) /\ n < Len(k)
      BY <1>1, <1>2, <2>3 DEF New
    <2>4. CASE n = Len(k) /\ m < Len(k)
      BY <1>1, <1>2, <2>4 DEF New
    <2> QED BY <2>1, <2>2, <2>3, <2>4
  <1>3. ASSUME NEW n \in 1..Len(cs), NEW i \in 1..Len(k) PROVE cs[n] # k[i].checkpoint
    <2>1. CASE i = Len(k)
      BY <1>1, <2>1 DEF New
    <2>2. CASE i < Len(k)
      <3>1. i + d \in 1..Len(us) /\ k[i] = us[i + d]
        BY <1>1, <2>2
      <3> QED BY <3>1 DEF Apart
    <2> QED BY <1>e, <2>1, <2>2
  <1> QED BY <1>2, <1>3 DEF Apart, k

LEMMA ApartRedone ==
    ASSUME NEW cs, NEW us \in Seq(Redo), Apart(cs, us), us # <<>>
    PROVE  Apart(cs, Front(us)) /\ New(cs, Front(us), Last(us).checkpoint)
  <1>1. /\ Len(us) \in Nat \ {0} /\ Last(us) = us[Len(us)] /\ Len(us) \in 1..Len(us)
        /\ \A i \in 1..Len(Front(us)) : i \in 1..Len(us) /\ i < Len(us) /\ Front(us)[i] = us[i]
    BY FrontElements
  <1> QED BY <1>1 DEF Apart, New

\* What is no newer than the clock stays so as the clock moves on, and a
\* commit of a later second is new.
LEMMA OlderPushed ==
    ASSUME NEW cs \in Seq(Commit), NEW us, NEW rs, NEW now \in Nat, NEW later \in Nat,
           NoneNewer(cs, us, rs, now), now <= later, NEW c \in Commit, c.at <= later,
           \A n \in 1..Len(us) : us[n].checkpoint \in Commit, DOMAIN rs \subseteq Commit
    PROVE  NoneNewer(KeepNewest(Append(cs, c), CheckpointCap), us, rs, later)
  <1> DEFINE d == Dropped(cs, CheckpointCap)
             k == KeepNewest(Append(cs, c), CheckpointCap)
  <1>0. CheckpointCap \in Nat \ {0}
    BY ConstantsType
  <1>s. Shifted(k, cs, c, d)
    BY <1>0, KeptElements
  <1>1. /\ d \in 0..Len(cs) /\ Len(k) = Len(cs) + 1 - d /\ Len(k) \in Nat
        /\ \A i \in 1..Len(k) : /\ i = Len(k) => k[i] = c
                                /\ i < Len(k) => i + d \in 1..Len(cs) /\ k[i] = cs[i + d]
    BY <1>s DEF Shifted
  <1> HIDE DEF d, k
  <1>e. \A i \in 1..Len(k) : i = Len(k) \/ i < Len(k)
    <2>1. Len(k) \in Nat
      BY <1>1
    <2> QED BY <2>1
  <1>2. \A x \in Commit : x.at <= now => x.at <= later
    BY DEF Commit
  <1>3. ASSUME NEW n \in 1..Len(k) PROVE k[n].at <= later
    <2>1. CASE n = Len(k)
      BY <1>1, <2>1
    <2>2. CASE n < Len(k)
      <3>1. n + d \in 1..Len(cs) /\ k[n] = cs[n + d] /\ cs[n + d] \in Commit
        BY <1>1, <2>2
      <3> QED BY <1>2, <3>1 DEF NoneNewer
    <2> QED BY <1>e, <2>1, <2>2
  <1> QED BY <1>2, <1>3 DEF NoneNewer, k

LEMMA OlderUndone ==
    ASSUME NEW cs \in Seq(Commit), NEW us \in Seq(Redo), NEW rs, NEW now \in Nat, NEW later \in Nat,
           NoneNewer(cs, us, rs, now), now <= later, NEW r \in Redo, r.checkpoint.at <= later,
           DOMAIN rs \subseteq Commit
    PROVE  NoneNewer(cs, KeepNewest(Append(us, r), RedoCap), rs, later)
  <1> DEFINE d == Dropped(us, RedoCap)
             k == KeepNewest(Append(us, r), RedoCap)
  <1>0. RedoCap \in Nat \ {0}
    BY ConstantsType
  <1>s. Shifted(k, us, r, d)
    BY <1>0, KeptElements
  <1>1. /\ d \in 0..Len(us) /\ Len(k) = Len(us) + 1 - d /\ Len(k) \in Nat
        /\ \A i \in 1..Len(k) : /\ i = Len(k) => k[i] = r
                                /\ i < Len(k) => i + d \in 1..Len(us) /\ k[i] = us[i + d]
    BY <1>s DEF Shifted
  <1> HIDE DEF d, k
  <1>e. \A i \in 1..Len(k) : i = Len(k) \/ i < Len(k)
    <2>1. Len(k) \in Nat
      BY <1>1
    <2> QED BY <2>1
  <1>2. \A x \in Commit : x.at <= now => x.at <= later
    BY DEF Commit
  <1>3. ASSUME NEW n \in 1..Len(k) PROVE k[n].checkpoint.at <= later
    <2>1. CASE n = Len(k)
      BY <1>1, <2>1
    <2>2. CASE n < Len(k)
      <3>1. n + d \in 1..Len(us) /\ k[n] = us[n + d]
        BY <1>1, <2>2
      <3>2. us[n + d] \in Redo
        BY <3>1
      <3>3. us[n + d].checkpoint \in Commit
        BY <3>2 DEF Redo
      <3> QED BY <1>2, <3>1, <3>3 DEF NoneNewer
    <2> QED BY <1>e, <2>1, <2>2
  <1> QED BY <1>2, <1>3 DEF NoneNewer, k

LEMMA LaterIsNew ==
    ASSUME NEW cs, NEW us, NEW rs, NEW now \in Nat, NoneNewer(cs, us, rs, now),
           NEW c \in Commit, c.at > now
    PROVE  New(cs, us, c) /\ c \notin DOMAIN rs
  BY DEF NoneNewer, New, Commit

LEMMA OlderRecorded ==
    ASSUME NEW cs, NEW us, NEW rs, NEW now, NoneNewer(cs, us, rs, now),
           NEW rs2, NEW c, DOMAIN rs2 \subseteq DOMAIN rs \cup {c}, c.at <= now
    PROVE  NoneNewer(cs, us, rs2, now)
  BY DEF NoneNewer

LEMMA OlderPrefix ==
    ASSUME NEW cs \in Seq(Commit), NEW us, NEW rs, NEW now, NoneNewer(cs, us, rs, now),
           NEW m \in 0..Len(cs)
    PROVE  NoneNewer(SubSeq(cs, 1, m), us, rs, now)
  <1>1. /\ Len(SubSeq(cs, 1, m)) = m
        /\ \A n \in 1..m : n \in 1..Len(cs) /\ SubSeq(cs, 1, m)[n] = cs[n]
    OBVIOUS
  <1> QED BY <1>1 DEF NoneNewer

LEMMA WithRecordDomain ==
    ASSUME NEW live, NEW c, NEW r
    PROVE  DOMAIN WithRecord(live, c, r) \subseteq DOMAIN turn_records \cup {c}
  BY DEF WithRecord

\* What undoing and redoing do to the files of each kind.
LEMMA UndoneEach ==
    ASSUME Typed, NEW c \in Commit
    PROVE  /\ \A p \in Tracked :
                UndoneFiles(c)[p] = IF p \in TurnPaths(c) THEN c.tree[p] ELSE work[p]
           /\ \A p \in Ignored :
                UndoneFiles(c)[p] = IF p \in DOMAIN Record(c).ignored
                                    THEN Record(c).ignored[p].before ELSE work[p]
           /\ DOMAIN Record(c).ignored \subseteq Ignored
  <1>1. Record(c) \in TurnRecord
    BY RecordType DEF Typed
  <1>2. DOMAIN Record(c).ignored \subseteq Ignored
    BY <1>1 DEF TurnRecord, SavedFiles
  <1>3. TurnPaths(c) \subseteq Tracked /\ Tracked \cap Ignored = {}
    BY ConstantsType DEF TurnPaths, Between
  <1> QED BY <1>2, <1>3 DEF UndoneFiles, Paths

LEMMA RedoneEach ==
    ASSUME NEW r \in Redo
    PROVE  /\ \A p \in Tracked : RedoneFiles(r)[p] = IF p \in r.paths THEN r.files[p] ELSE work[p]
           /\ \A p \in Ignored : RedoneFiles(r)[p] = IF p \in DOMAIN r.ignored
                                                     THEN r.ignored[p].before ELSE work[p]
  <1>1. r.paths \subseteq Tracked /\ DOMAIN r.ignored \subseteq Ignored /\ Tracked \cap Ignored = {}
    BY ConstantsType DEF Redo, SavedFiles
  <1> QED BY <1>1 DEF RedoneFiles, Paths

LEMMA RecordIsIn == \A c : Record(c) = RecordIn(turn_records, c)
  BY DEF Record, RecordIn

LEMMA ClockMovesOn ==
    ASSUME ClockMoves, clock \in Nat, \E dt \in Seconds : clock' = clock + dt
    PROVE  clock' \in Nat /\ clock < clock' /\ clock <= clock'
  BY ConstantsType DEF ClockMoves

-----------------------------------------------------------------------------
(* Every step keeps what is known of the turns.                            *)

LEMMA InitFaithful == Init => Faithful
  <1> SUFFICES ASSUME Init PROVE Faithful
    OBVIOUS
  <1>1. Len(<<>>) = 0
    BY EmptySeq
  <1>2. checkpoints = <<>> /\ redo = <<>> /\ DOMAIN turn_records = {} /\ phase = "idle"
    BY DEF Init
  <1>3. Known
    BY <1>1, <1>2 DEF Known, NoneNewer, Apart, AllReverse
  <1>4. Told /\ Running
    BY <1>1, <1>2 DEF Told, AllTold, Running
  <1> QED BY <1>3, <1>4, InitTyped DEF Faithful

\* What leaves the lists alone.
LEMMA WriteFaithful ==
    ASSUME Known, Told, Running,
           UNCHANGED <<checkpoints, redo, turn_records, turn_checkpoint, clock, past, future>>,
           phase' = phase \/ {phase, phase'} \subseteq {"idle", "turn"}
    PROVE  Known' /\ Told' /\ Running'
  <1>1. Known'
    BY DEF Known
  <1>2. (phase = "changing") <=> (phase' = "changing")
    OBVIOUS
  <1>3. Told'
    BY <1>2 DEF Told
  <1>4. Running'
    BY <1>2 DEF Running
  <1> QED BY <1>1, <1>3, <1>4

LEMMA CheckpointFaithful ==
    ASSUME Faithful, ClockMoves, CheckpointBeforeBuild
    PROVE  Known' /\ Told' /\ Running'
  <1> DEFINE same  == checkpoints # <<>> /\ Last(checkpoints).tree = Snapshot
             start == IF same THEN Last(checkpoints) ELSE [tree |-> Snapshot, at |-> clock']
             fresh == [start |-> work, end |-> work, kind |-> "turn",
                       wrote |-> IF same THEN Last(past).wrote ELSE NothingWritten,
                       turns |-> IF same THEN Last(past).turns + 1 ELSE 1]
  <1>1. /\ checkpoints' = IF same THEN checkpoints
                           ELSE KeepNewest(Append(checkpoints, start), CheckpointCap)
        /\ past' = IF same THEN Append(Front(past), fresh)
                   ELSE KeepNewest(Append(past, fresh), CheckpointCap)
        /\ turn_checkpoint' = start
        /\ turn_records' = WithRecord(checkpoints', start, NoRecord)
        /\ redo' = <<>> /\ future' = <<>> /\ phase = "turn" /\ phase' = "changing"
        /\ \E dt \in Seconds : clock' = clock + dt
    BY DEF CheckpointBeforeBuild
  <1>2. Typed /\ Typed' /\ Lists /\ clock \in Nat /\ DOMAIN turn_records \subseteq Commit
    BY CheckpointTyped DEF Faithful, Typed, Rest, Records
  <1>3. clock' \in Nat /\ clock < clock' /\ clock <= clock'
    BY <1>1, <1>2, ClockMovesOn
  <1>4. AllTold(checkpoints, past, turn_records, FALSE)
    BY <1>1 DEF Faithful, Told
  <1>5. /\ checkpoints \in Seq(Commit) /\ past \in Seq(Turn) /\ Len(past) = Len(checkpoints)
        /\ checkpoints' \in Seq(Commit) /\ Len(past') = Len(checkpoints')
    BY <1>2 DEF Typed, Lists
  <1>6. Len(<<>>) = 0
    BY EmptySeq
  <1>7. NoneNewer(checkpoints, <<>>, turn_records, clock) /\ Apart(checkpoints, <<>>)
    BY <1>6 DEF Faithful, Known, NoneNewer, Apart
  <1>8. \A p \in Tracked : Snapshot[p] = work[p]
    BY DEF Snapshot
  <1>9. RecordIn(turn_records', start) = NoRecord /\ start \in DOMAIN turn_records'
    BY <1>1, OwnRecord
  <1>10. NoRecord.after = None /\ NoRecord.ignored = NothingSaved /\ DOMAIN NothingSaved = {}
         /\ DOMAIN NothingWritten = {}
    BY DEF NoRecord, NothingSaved, NothingWritten
  <1>e. AllReverse(redo', future')
    <2>1. redo' = <<>>
      BY <1>1
    <2> QED BY <1>6, <2>1 DEF AllReverse
  <1>11. CASE same
    <2> DEFINE n == Len(checkpoints)
    <2>1. checkpoints # <<>> /\ n \in Nat \ {0} /\ n \in 1..n /\ past # <<>> /\ start = checkpoints[n]
      BY <1>5, <1>11, EmptySeq DEF Last
    <2>2. /\ Front(past) \in Seq(Turn) /\ Len(Front(past)) = n - 1
          /\ \A i \in 1..n-1 : Front(past)[i] = past[i]
          /\ Last(past) = past[n]
      BY <1>5, <2>1, FrontElements, FrontType
    <2>3. start.tree = Snapshot /\ start \in Commit /\ start.at <= clock
      <3>1. start \in Commit
        BY <1>5, <2>1
      <3> QED BY <1>7, <1>11, <2>1, <3>1 DEF NoneNewer
    <2>4. Last(past).turns > 0 /\ Last(past).turns \in Nat
      <3>1. Tells(checkpoints[n], past[n], RecordIn(turn_records, checkpoints[n]))
        BY <1>4, <2>1 DEF AllTold
      <3>2. past[n] \in Turn
        BY <1>5, <2>1
      <3>3. past[n].turns > 0
        BY <3>1 DEF Tells
      <3>4. past[n].turns \in Nat
        BY <3>2 DEF Turn
      <3> QED BY <2>2, <3>3, <3>4
    <2>5. /\ fresh.start = work /\ fresh.kind = "turn" /\ fresh.turns > 0 /\ fresh.turns # 1
      BY <1>11, <2>4
    <2>6. checkpoints' = checkpoints /\ past' = Append(Front(past), fresh)
          /\ turn_records' = WithRecord(checkpoints, start, NoRecord)
      BY <1>1, <1>11
    <2> HIDE DEF fresh, n, start
    <2>7. past'[n] = fresh /\ \A i \in 1..n-1 : past'[i] = past[i]
      BY <2>1, <2>2, <2>6
    <2>8. Tells(checkpoints[n], past'[n], RecordIn(turn_records', checkpoints[n]))
      BY <1>8, <2>1, <2>3, <2>5, <2>7 DEF Tells, Same
    <2>9. \A i \in 1..n : i < n =>
             past'[i] = past[i] /\ RecordIn(turn_records', checkpoints[i]) = RecordIn(turn_records, checkpoints[i])
      <3> SUFFICES ASSUME NEW i \in 1..n, i < n
                   PROVE  past'[i] = past[i] /\ RecordIn(turn_records', checkpoints[i])
                                                  = RecordIn(turn_records, checkpoints[i])
        OBVIOUS
      <3>1. checkpoints[i] # start
        BY <1>7, <2>1 DEF Apart, n
      <3>2. RecordIn(turn_records', checkpoints[i]) = RecordIn(turn_records, checkpoints[i])
        BY <1>5, <2>6, <3>1, OtherRecords DEF n
      <3>3. i \in 1..n-1
        BY <2>1
      <3> QED BY <2>7, <3>2, <3>3
    <2>10. AllTold(checkpoints, past, turn_records, TRUE)
      BY <1>4 DEF AllTold
    <2>11. AllTold(checkpoints', past', turn_records', TRUE)
      BY <1>5, <2>1, <2>6, <2>8, <2>9, <2>10, ToldNewest DEF n
    <2>12. DOMAIN turn_records' \subseteq DOMAIN turn_records \cup {start}
      BY <2>6, WithRecordDomain
    <2>13. NoneNewer(checkpoints', redo', turn_records', clock')
      <3>1. \A x \in Commit : x.at <= clock => x.at <= clock'
        BY <1>2, <1>3 DEF Commit
      <3>2. \A i \in 1..Len(checkpoints) : checkpoints[i] \in Commit
        BY <1>5
      <3> QED BY <1>1, <1>2, <1>6, <1>7, <2>3, <2>6, <2>12, <3>1, <3>2 DEF NoneNewer
    <2>14. Apart(checkpoints', redo')
      BY <1>1, <1>7, <2>6
    <2>15. Running'
      BY <1>1, <1>5, <1>9, <1>10, <2>1, <2>5, <2>6, <2>7 DEF Running, n
    <2>16. Known'
      BY <1>e, <2>13, <2>14 DEF Known
    <2>17. Told'
      BY <1>1, <2>11 DEF Told
    <2> QED BY <2>15, <2>16, <2>17
  <1>12. CASE ~same
    <2>1. start = [tree |-> Snapshot, at |-> clock']
          /\ fresh = [start |-> work, end |-> work, kind |-> "turn",
                      wrote |-> NothingWritten, turns |-> 1]
      BY <1>12
    <2>2. start \in Commit /\ start.at = clock' /\ start.tree = Snapshot
      BY <1>2, <1>3, <2>1, CommitType DEF Typed
    <2>3. fresh \in Turn
      BY <1>2, <2>1, NothingWrittenType DEF Typed, Turn, Files
    <2>4. checkpoints' = KeepNewest(Append(checkpoints, start), CheckpointCap)
          /\ past' = KeepNewest(Append(past, fresh), CheckpointCap)
          /\ turn_records' = WithRecord(checkpoints', start, NoRecord)
      BY <1>1, <1>12
    <2>5. Tells(start, fresh, NoRecord)
      BY <1>8, <1>10, <2>1, <2>2 DEF Tells, Same
    <2> HIDE DEF fresh, start
    <2>6. New(checkpoints, <<>>, start)
      <3>1. start.at > clock
        BY <1>2, <1>3, <2>2
      <3> QED BY <1>2, <1>7, <2>2, <3>1, LaterIsNew
    <2>7. Apart(checkpoints', redo')
      BY <1>1, <1>5, <1>7, <2>2, <2>4, <2>6, ApartPushed
    <2>8. Shifted(checkpoints', checkpoints, start, Dropped(checkpoints, CheckpointCap))
          /\ Shifted(past', past, fresh, Dropped(past, CheckpointCap))
      BY <1>5, <2>2, <2>3, <2>4, KeptElements, ConstantsType
    <2>9. Len(checkpoints') \in 1..Len(checkpoints') /\ checkpoints'[Len(checkpoints')] = start
          /\ past'[Len(past')] = fresh
      BY <1>5, <2>8 DEF Shifted
    <2>10. \A i \in 1..Len(checkpoints') : i < Len(checkpoints') =>
              RecordIn(turn_records', checkpoints'[i]) = RecordIn(turn_records, checkpoints'[i])
      <3> SUFFICES ASSUME NEW i \in 1..Len(checkpoints'), i < Len(checkpoints')
                   PROVE  RecordIn(turn_records', checkpoints'[i]) = RecordIn(turn_records, checkpoints'[i])
        OBVIOUS
      <3>1. checkpoints'[i] # start
        BY <2>7, <2>9 DEF Apart
      <3> QED BY <1>5, <2>4, <3>1, OtherRecords
    <2>11. AllTold(checkpoints', past', turn_records', TRUE)
      BY <1>4, <1>5, <1>9, <2>2, <2>3, <2>4, <2>5, <2>10, ToldPushed
    <2>12. NoneNewer(checkpoints', redo', turn_records', clock')
      <3>1. start.at <= clock'
        BY <1>3, <2>2
      <3>2. NoneNewer(checkpoints', <<>>, turn_records, clock')
        BY <1>2, <1>3, <1>5, <1>6, <1>7, <2>2, <2>4, <3>1, OlderPushed
      <3>3. DOMAIN turn_records' \subseteq DOMAIN turn_records \cup {start}
        BY <2>4, WithRecordDomain
      <3> QED BY <1>1, <3>1, <3>2, <3>3, OlderRecorded
    <2>13. Running'
      BY <1>1, <1>9, <1>10, <2>1, <2>9 DEF Running, fresh
    <2>14. Known'
      BY <1>e, <2>7, <2>12 DEF Known
    <2>15. Told'
      BY <1>1, <2>11 DEF Told
    <2> QED BY <2>13, <2>14, <2>15
  <1> QED BY <1>11, <1>12

LEMMA SaveIgnoredFaithful ==
    ASSUME Faithful, NEW p \in Ignored, SaveIgnored(p)
    PROVE  Known' /\ Told' /\ Running'
  <1> DEFINE n == Len(checkpoints)
             c == turn_checkpoint
             r == Record(c)
             f == [before |-> work[p], after |-> Absent]
             s == [after |-> r.after, ignored |-> With(r.ignored, p, f)]
             t == past[n]
             w == IF p \in DOMAIN t.wrote THEN t.wrote ELSE With(t.wrote, p, work[p])
  <1>1. Typed /\ phase = "changing"
    BY DEF Faithful, SaveIgnored
  <1>2. /\ checkpoints \in Seq(Commit) /\ past \in Seq(Turn) /\ Len(past) = n
        /\ checkpoints # <<>> /\ DOMAIN turn_records \subseteq Commit /\ clock \in Nat
    BY <1>1 DEF Typed, Lists, Records, Rest
  <1>3. n \in Nat \ {0} /\ n \in 1..n /\ t \in Turn
    BY <1>2, EmptySeq
  <1>4. c = checkpoints[n] /\ c \in DOMAIN turn_records /\ r.after = None /\ t.kind = "turn"
        /\ redo = <<>>
    BY <1>1, <1>2, RecordIsIn DEF Faithful, Running
  <1>5. AllTold(checkpoints, past, turn_records, TRUE)
    BY <1>1 DEF Faithful, Told
  <1>6. r \in TurnRecord
    BY <1>1, RecordType DEF Typed
  <1>7. turn_records' = WithRecord(checkpoints, c, s)
    <2>1. [r EXCEPT !.ignored = With(@, p, f)] = s
      BY <1>6 DEF TurnRecord
    <2> QED BY <2>1 DEF SaveIgnored
  <1>8. past' = [past EXCEPT ![n] = [t EXCEPT !.wrote = w]]
    BY <1>2, <1>3 DEF SaveIgnored, Turn
  <1>9. past'[n] = [t EXCEPT !.wrote = w] /\ \A i \in 1..n : i < n => past'[i] = past[i]
    <2> HIDE DEF w, t
    <2> QED BY <1>2, <1>3, <1>8
  <1>10. RecordIn(turn_records', c) = s /\ c \in DOMAIN turn_records'
    BY <1>7, OwnRecord
  <1>11. Tells(c, t, r)
    BY <1>3, <1>4, <1>5, RecordIsIn DEF AllTold
  <1>12. past'[n].start = t.start /\ past'[n].turns = t.turns /\ past'[n].wrote = w
         /\ past'[n].kind = "turn"
    BY <1>3, <1>4, <1>9 DEF Turn
  <1>13. p \notin DOMAIN r.ignored
    BY DEF SaveIgnored
  <1> HIDE DEF t, r, n
  <1>14. Tells(c, past'[n], s)
    <2>1. ASSUME t.turns = 1
          PROVE  DOMAIN s.ignored = DOMAIN w /\ \A q \in DOMAIN w : s.ignored[q].before = w[q]
      <3>1. DOMAIN r.ignored = DOMAIN t.wrote /\ \A q \in DOMAIN t.wrote : r.ignored[q].before = t.wrote[q]
        BY <1>11, <2>1 DEF Tells
      <3>2. w = With(t.wrote, p, work[p]) /\ s.ignored = With(r.ignored, p, f)
        BY <1>13, <3>1
      <3> HIDE DEF w, s
      <3> QED BY <3>1, <3>2 DEF With
    <2> HIDE DEF w, s
    <2> QED BY <1>11, <1>12, <2>1 DEF Tells
  <1>15. \A i \in 1..n : i < n =>
            past'[i] = past[i] /\ RecordIn(turn_records', checkpoints[i]) = RecordIn(turn_records, checkpoints[i])
    <2> SUFFICES ASSUME NEW i \in 1..n, i < n
                 PROVE  RecordIn(turn_records', checkpoints[i]) = RecordIn(turn_records, checkpoints[i])
      BY <1>9
    <2>1. checkpoints[i] # c
      BY <1>3, <1>4 DEF Faithful, Known, Apart, n
    <2> QED BY <1>2, <1>7, <2>1, OtherRecords DEF n
  <1>16. UNCHANGED <<checkpoints, redo, turn_checkpoint, phase, clock, future>>
    BY DEF SaveIgnored
  <1>17. AllTold(checkpoints, past', turn_records', TRUE)
    BY <1>2, <1>4, <1>5, <1>10, <1>14, <1>15, ToldNewest DEF n
  <1>18. Told'
    BY <1>1, <1>16, <1>17 DEF Told
  <1>19. Known'
    <2>1. DOMAIN turn_records' \subseteq DOMAIN turn_records \cup {c}
      BY <1>7, WithRecordDomain
    <2>2. NoneNewer(checkpoints, redo, turn_records', clock)
      <3>1. c.at <= clock
        BY <1>4 DEF Faithful, Known, NoneNewer
      <3> QED BY <2>1, <3>1, OlderRecorded DEF Faithful, Known
    <2> QED BY <1>16, <2>2 DEF Faithful, Known
  <1>20. Running'
    <2>1. s.after = None
      BY <1>4
    <2>2. Len(past') = n
      BY <1>2, <1>8 DEF n
    <2> QED BY <1>4, <1>10, <1>12, <1>16, <2>1, <2>2 DEF Running, n
  <1> QED BY <1>18, <1>19, <1>20

\* A record that is finished tells what it told.
LEMMA FinishedTells ==
    ASSUME NEW c, NEW t, NEW r, Tells(c, t, r)
    PROVE  Tells(c, t, Finished(r))
  <1>1. /\ Finished(r).ignored = [p \in DOMAIN r.ignored |->
                [before |-> r.ignored[p].before, after |-> work[p]]]
    BY DEF Finished
  <1>2. /\ DOMAIN Finished(r).ignored = DOMAIN r.ignored
        /\ \A p \in DOMAIN r.ignored : Finished(r).ignored[p].before = r.ignored[p].before
    BY <1>1
  <1> QED BY <1>2 DEF Tells

\* The turn that was running ends: `t` is what it did.
LEMMA RunEnds ==
    ASSUME Faithful, phase = "changing", phase' = "idle",
           UNCHANGED <<checkpoints, redo, clock, future>>,
           NEW t, past' = [past EXCEPT ![Len(past)] = t],
           t.start = past[Len(past)].start, t.turns = past[Len(past)].turns,
           t.wrote = past[Len(past)].wrote,
           \/ turn_records' = turn_records /\ ~Recorded(t)
           \/ /\ turn_records' = WithRecord(checkpoints, turn_checkpoint,
                                            Finished(Record(turn_checkpoint)))
              /\ t.end = work
    PROVE  Known' /\ Told' /\ Running'
  <1> DEFINE n == Len(checkpoints)
             c == turn_checkpoint
             r == Record(c)
  <1>1. Typed
    BY DEF Faithful
  <1>2. /\ checkpoints \in Seq(Commit) /\ past \in Seq(Turn) /\ Len(past) = n
        /\ checkpoints # <<>> /\ clock \in Nat /\ work \in Files
    BY <1>1 DEF Typed, Lists, Records, Rest
  <1>3. n \in Nat \ {0} /\ n \in 1..n
    BY <1>2, EmptySeq
  <1>4. c = checkpoints[n] /\ c \in DOMAIN turn_records
    BY <1>1, <1>2 DEF Faithful, Running
  <1>5. AllTold(checkpoints, past, turn_records, TRUE)
    BY <1>1 DEF Faithful, Told
  <1>6. Tells(c, past[n], r)
    BY <1>3, <1>4, <1>5, RecordIsIn DEF AllTold
  <1>7. past'[n] = t /\ \A i \in 1..n : i < n => past'[i] = past[i]
    BY <1>2, <1>3
  <1>8. Tells(c, t, r)
    BY <1>2, <1>6 DEF Tells
  <1>9. CASE turn_records' = turn_records /\ ~Recorded(t)
    <2>1. AllTold(checkpoints, past', turn_records', FALSE)
      <3>1. TellsEnd(RecordIn(turn_records', c), t)
        BY <1>9 DEF TellsEnd
      <3>2. Tells(c, t, RecordIn(turn_records', c))
        BY <1>8, <1>9, RecordIsIn
      <3> QED BY <1>2, <1>4, <1>5, <1>7, <1>9, <3>1, <3>2, ToldNewest
    <2> QED BY <1>9, <2>1 DEF Faithful, Known, Told, Running
  <1>10. CASE /\ turn_records' = WithRecord(checkpoints, c, Finished(r))
              /\ t.end = work
    <2>1. RecordIn(turn_records', c) = Finished(r)
      BY <1>10, OwnRecord
    <2>2. Tells(c, t, Finished(r))
      BY <1>8, FinishedTells
    <2>3. TellsEnd(Finished(r), t)
      <3>1. Finished(r).after = Snapshot /\ Snapshot # None
        BY <1>2, SnapshotType, ConstantsType DEF Finished
      <3>2. Same(Snapshot, work)
        BY DEF Same, Snapshot
      <3> QED BY <1>10, <3>1, <3>2 DEF TellsEnd
    <2>4. \A i \in 1..n : i < n =>
             RecordIn(turn_records', checkpoints[i]) = RecordIn(turn_records, checkpoints[i])
      <3> SUFFICES ASSUME NEW i \in 1..n, i < n
                   PROVE  RecordIn(turn_records', checkpoints[i]) = RecordIn(turn_records, checkpoints[i])
        OBVIOUS
      <3>1. checkpoints[i] # c
        BY <1>3, <1>4 DEF Faithful, Known, Apart
      <3> QED BY <1>2, <1>10, <3>1, OtherRecords
    <2>5. AllTold(checkpoints, past', turn_records', FALSE)
      BY <1>2, <1>4, <1>5, <1>7, <2>1, <2>2, <2>3, <2>4, ToldNewest
    <2>6. NoneNewer(checkpoints, redo, turn_records', clock)
      <3>1. c.at <= clock
        BY <1>4 DEF Faithful, Known, NoneNewer
      <3>2. DOMAIN turn_records' \subseteq DOMAIN turn_records \cup {c}
        BY <1>10, WithRecordDomain
      <3> QED BY <3>1, <3>2, OlderRecorded DEF Faithful, Known
    <2> QED BY <2>5, <2>6 DEF Faithful, Known, Told, Running
  <1> QED BY <1>9, <1>10

LEMMA EndFaithful ==
    ASSUME Faithful, EndTurn \/ Crash
    PROVE  Known' /\ Told' /\ Running'
  <1> DEFINE n == Len(past)
             t == past[n]
  <1>1. Typed /\ phase' = "idle" /\ UNCHANGED <<checkpoints, redo, turn_checkpoint, clock, future>>
    BY DEF Faithful, EndTurn, Crash, meta
  <1>2. CASE phase = "changing"
    <2>1. /\ t \in Turn
          /\ turn_checkpoint \in DOMAIN turn_records /\ Record(turn_checkpoint).after = None
      <3>1. past # <<>> /\ n \in 1..n
        BY <1>1, <1>2, EmptySeq DEF Typed, Lists
      <3> QED BY <1>1, <1>2, <3>1, RecordIsIn DEF Faithful, Typed, Lists, Running
    <2>2. CASE EndTurn
      <3> DEFINE e == [start |-> t.start, end |-> work, kind |-> t.kind, wrote |-> t.wrote,
                       turns |-> t.turns]
      <3>1. past' = [past EXCEPT ![n] = e]
        <4>1. [t EXCEPT !.end = work] = e
          BY <2>1 DEF Turn
        <4>2. past' = [past EXCEPT ![n] = [t EXCEPT !.end = work]]
          BY <1>1, <1>2, <2>1, <2>2 DEF EndTurn, Typed, Lists
        <4> QED BY <4>1, <4>2
      <3>2. turn_records' = WithRecord(checkpoints, turn_checkpoint, Finished(Record(turn_checkpoint)))
        BY <2>1, <2>2 DEF EndTurn
      <3>3. e.start = t.start /\ e.turns = t.turns /\ e.wrote = t.wrote /\ e.end = work
        OBVIOUS
      <3> HIDE DEF e
      <3> QED BY <1>1, <1>2, <3>1, <3>2, <3>3, RunEnds
    <2>3. CASE Crash
      <3> DEFINE e == [t EXCEPT !.end = work, !.kind = "crashed"]
      <3>1. past' = [past EXCEPT ![n] = e]
        BY <1>1, <1>2, <2>1, <2>3 DEF Crash, Typed, Lists
      <3>2. turn_records' = turn_records
        BY <2>3 DEF Crash, meta
      <3>3. e.start = t.start /\ e.turns = t.turns /\ e.wrote = t.wrote /\ ~Recorded(e)
        BY <2>1 DEF Recorded, Turn
      <3> HIDE DEF e
      <3> QED BY <1>1, <1>2, <3>1, <3>2, <3>3, RunEnds
    <2> QED BY <2>2, <2>3
  <1>3. CASE phase # "changing" /\ turn_records' = turn_records
    <2>1. UNCHANGED past
      BY <1>3 DEF EndTurn, Crash
    <2> QED BY <1>1, <1>3, <2>1 DEF Faithful, Known, Told, Running
  <1>4. CASE phase # "changing" /\ turn_records' # turn_records
    <2> DEFINE c == turn_checkpoint
               r == Record(c)
    <2>1. UNCHANGED past
      BY <1>4 DEF EndTurn, Crash
    <2>2. /\ c \in DOMAIN turn_records /\ r.after = None
          /\ turn_records' = WithRecord(checkpoints, c, Finished(r))
      BY <1>4 DEF EndTurn, Crash, meta
    <2>3. AllTold(checkpoints, past, turn_records, FALSE) /\ checkpoints \in Seq(Commit)
      BY <1>1, <1>4 DEF Faithful, Told, Typed, Lists
    <2>4. AllTold(checkpoints, past, turn_records', FALSE)
      <3> SUFFICES ASSUME NEW i \in 1..Len(checkpoints)
                   PROVE  /\ Tells(checkpoints[i], past[i], RecordIn(turn_records', checkpoints[i]))
                          /\ TellsEnd(RecordIn(turn_records', checkpoints[i]), past[i])
        BY DEF AllTold
      <3>1. /\ Tells(checkpoints[i], past[i], RecordIn(turn_records, checkpoints[i]))
            /\ TellsEnd(RecordIn(turn_records, checkpoints[i]), past[i])
        BY <2>3 DEF AllTold
      <3>2. CASE checkpoints[i] # c
        BY <2>2, <2>3, <3>1, <3>2, OtherRecords
      <3>3. CASE checkpoints[i] = c
        <4>1. RecordIn(turn_records', c) = Finished(r) /\ RecordIn(turn_records, c) = r
          BY <2>2, OwnRecord, RecordIsIn
        <4>2. ~Recorded(past[i])
          BY <2>2, <3>1, <3>3, <4>1 DEF TellsEnd
        <4> QED BY <3>1, <3>3, <4>1, <4>2, FinishedTells DEF TellsEnd
      <3> QED BY <3>2, <3>3
    <2>5. NoneNewer(checkpoints, redo, turn_records', clock)
      <3>1. c.at <= clock
        BY <2>2 DEF Faithful, Known, NoneNewer
      <3>2. DOMAIN turn_records' \subseteq DOMAIN turn_records \cup {c}
        BY <2>2, WithRecordDomain
      <3> QED BY <3>1, <3>2, OlderRecorded DEF Faithful, Known
    <2> QED BY <1>1, <2>1, <2>4, <2>5 DEF Faithful, Known, Told, Running
  <1> QED BY <1>2, <1>3, <1>4

\* The newest checkpoints go, with their turns.
LEMMA PrefixFaithful ==
    ASSUME Faithful, phase = "idle", NEW m \in 0..Len(checkpoints)
    PROVE  /\ NoneNewer(SubSeq(checkpoints, 1, m), redo, turn_records, clock)
           /\ Apart(SubSeq(checkpoints, 1, m), redo)
           /\ AllTold(SubSeq(checkpoints, 1, m), SubSeq(past, 1, m), turn_records, FALSE)
  <1>1. checkpoints \in Seq(Commit) /\ past \in Seq(Turn) /\ Len(past) = Len(checkpoints)
    BY DEF Faithful, Typed, Lists
  <1>2. AllTold(checkpoints, past, turn_records, FALSE)
    BY DEF Faithful, Told
  <1>3. NoneNewer(SubSeq(checkpoints, 1, m), redo, turn_records, clock)
    BY <1>1, OlderPrefix DEF Faithful, Known
  <1>4. Apart(SubSeq(checkpoints, 1, m), redo)
    BY <1>1, ApartPrefix DEF Faithful, Known
  <1> QED BY <1>1, <1>2, <1>3, <1>4, ToldPrefix

LEMMA UndoLooksFaithful ==
    ASSUME Faithful, UndoNothing \/ UndoRefused
    PROVE  Known' /\ Told' /\ Running'
  <1>1. phase = "idle" /\ UNCHANGED <<turn_records, redo, turn_checkpoint, phase, clock, future>>
    BY DEF UndoNothing, UndoRefused
  <1>2. \E m \in 0..Len(checkpoints) :
            checkpoints' = SubSeq(checkpoints, 1, m) /\ past' = SubSeq(past, 1, m)
    <2>1. CASE UndoNothing
      <3>1. 0 \in 0..Len(checkpoints)
        BY DEF Faithful, Typed, Lists
      <3>2. SubSeq(checkpoints, 1, 0) = <<>> /\ SubSeq(past, 1, 0) = <<>>
        BY SubSeqEmpty
      <3> QED BY <2>1, <3>1, <3>2 DEF UndoNothing
    <2>2. CASE UndoRefused
      <3>1. PICK m \in 1..Len(checkpoints) :
               checkpoints' = SubSeq(checkpoints, 1, m) /\ past' = SubSeq(past, 1, m)
        BY <2>2 DEF UndoRefused
      <3>2. m \in 0..Len(checkpoints)
        BY <3>1
      <3> QED BY <3>1, <3>2
    <2> QED BY <2>1, <2>2
  <1>3. PICK m \in 0..Len(checkpoints) :
            checkpoints' = SubSeq(checkpoints, 1, m) /\ past' = SubSeq(past, 1, m)
    BY <1>2
  <1>4. Known' /\ Told'
    BY <1>1, <1>3, PrefixFaithful DEF Known, Told, Faithful
  <1>5. Running'
    BY <1>1 DEF Running
  <1> QED BY <1>4, <1>5

\* The undo that goes ahead, as the proofs use it: checkpoint `n` and what
\* is kept of the undo.
UndoneEntry(c, after) ==
    [checkpoint |-> c, record |-> Record(c), files |-> Snapshot, undone |-> after,
     paths |-> TurnPaths(c), ignored |-> SavedNow(c), audit |-> FALSE]

LEMMA UndoReverses ==
    ASSUME Faithful, phase = "idle", NEW n \in 1..Len(checkpoints),
           work' = UndoneFiles(checkpoints[n])
    PROVE  LET c == checkpoints[n]
               r == UndoneEntry(c, [p \in Tracked |-> work'[p]])
               u == [before |-> work, after |-> work', turn |-> past[n]]
           IN Reverses(r, u) /\ r \in Redo /\ u \in Undo
  <1> DEFINE c == checkpoints[n]
             a == [p \in Tracked |-> work'[p]]
             r == UndoneEntry(c, a)
             u == [before |-> work, after |-> work', turn |-> past[n]]
  <1>1. Typed /\ c \in Commit /\ past[n] \in Turn /\ turn_records \in Records /\ work \in Files
    BY DEF Faithful, Typed, Lists
  <1>2. AllTold(checkpoints, past, turn_records, FALSE)
    BY DEF Faithful, Told
  <1>3. Tells(c, past[n], Record(c)) /\ TellsEnd(Record(c), past[n])
    BY <1>2, RecordIsIn DEF AllTold
  <1>4. work' \in Files
    BY <1>1, UndoneFilesType
  <1>5. Record(c) \in TurnRecord /\ Snapshot \in Tree /\ TurnPaths(c) \in SUBSET Tracked
        /\ SavedNow(c) \in SavedFiles
    BY <1>1, RecordType, SnapshotType, EndType, SavedNowType
  <1>6. a \in Tree
    BY <1>4 DEF Files, Paths, Tree
  <1>7. /\ \A p \in Tracked : work'[p] = IF p \in TurnPaths(c) THEN c.tree[p] ELSE work[p]
        /\ \A p \in Ignored : work'[p] = IF p \in DOMAIN Record(c).ignored
                                         THEN Record(c).ignored[p].before ELSE work[p]
    BY <1>1, UndoneEach
  <1>8. DOMAIN SavedNow(c) = DOMAIN Record(c).ignored
        /\ \A p \in DOMAIN Record(c).ignored :
               SavedNow(c)[p] = [before |-> work[p], after |-> Record(c).ignored[p].before]
    BY DEF SavedNow
  <1>9. \A p \in Tracked : Snapshot[p] = work[p] /\ a[p] = work'[p]
    BY DEF Snapshot
  <1>10. /\ r.checkpoint = c /\ r.record = Record(c) /\ r.files = Snapshot /\ r.undone = a
         /\ r.paths = TurnPaths(c) /\ r.ignored = SavedNow(c)
         /\ u.before = work /\ u.after = work' /\ u.turn = past[n]
    BY DEF UndoneEntry
  <1>11. r \in Redo
    <2> HIDE DEF c, a
    <2> QED BY <1>1, <1>5, <1>6 DEF Redo, UndoneEntry
  <1>12. u \in Undo
    BY <1>1, <1>4 DEF Undo
  <1> HIDE DEF c, a, r, u
  <1>13. Same(r.files, u.before) /\ Same(r.undone, u.after)
    BY <1>9, <1>10 DEF Same
  <1>14. \A p \in Tracked \ r.paths : u.before[p] = u.after[p]
    BY <1>7, <1>10
  <1>15. \A p \in Ignored :
            IF p \in DOMAIN r.ignored
            THEN r.ignored[p].before = u.before[p] /\ r.ignored[p].after = u.after[p]
            ELSE u.before[p] = u.after[p]
    <2> SUFFICES ASSUME NEW p \in Ignored
                 PROVE  IF p \in DOMAIN r.ignored
                        THEN r.ignored[p].before = u.before[p] /\ r.ignored[p].after = u.after[p]
                        ELSE u.before[p] = u.after[p]
      OBVIOUS
    <2>1. CASE p \in DOMAIN Record(c).ignored
      <3>1. r.ignored[p].before = work[p] /\ r.ignored[p].after = Record(c).ignored[p].before
        <4>1. SavedNow(c)[p] = [before |-> work[p], after |-> Record(c).ignored[p].before]
          BY <1>8, <2>1
        <4>2. r.ignored = SavedNow(c)
          BY <1>10
        <4> QED BY <4>1, <4>2
      <3> QED BY <1>7, <1>8, <1>10, <2>1, <3>1
    <2>2. CASE p \notin DOMAIN Record(c).ignored
      BY <1>7, <1>8, <1>10, <2>2
    <2> QED BY <2>1, <2>2
  <1>16. Reverses(r, u)
    BY <1>3, <1>10, <1>13, <1>14, <1>15 DEF Reverses
  <1> QED BY <1>11, <1>12, <1>16 DEF c, a, r, u

LEMMA UndoDoneFaithful ==
    ASSUME Faithful, NEW force \in BOOLEAN, UndoDone(force)
    PROVE  Known' /\ Told' /\ Running'
  <1>1. PICK n \in 1..Len(checkpoints) :
          LET c == checkpoints[n] IN
          /\ work' = UndoneFiles(c)
          /\ checkpoints' = SubSeq(checkpoints, 1, n - 1)
          /\ redo' = KeepNewest(Append(redo, UndoneEntry(c, [p \in Tracked |-> work'[p]])), RedoCap)
          /\ past' = SubSeq(past, 1, n - 1)
          /\ future' = KeepNewest(Append(future,
                         [before |-> work, after |-> work', turn |-> past[n]]), RedoCap)
    BY DEF UndoDone, UndoneEntry
  <1> DEFINE c == checkpoints[n]
             r == UndoneEntry(c, [p \in Tracked |-> work'[p]])
             u == [before |-> work, after |-> work', turn |-> past[n]]
             m == n - 1
  <1>2. phase = "idle" /\ UNCHANGED <<turn_records, phase, clock>>
    BY DEF UndoDone
  <1>3. Reverses(r, u) /\ r \in Redo /\ u \in Undo /\ r.checkpoint = c
    BY <1>1, <1>2, UndoReverses DEF UndoneEntry
  <1>4. /\ redo' = KeepNewest(Append(redo, r), RedoCap)
        /\ future' = KeepNewest(Append(future, u), RedoCap)
        /\ checkpoints' = SubSeq(checkpoints, 1, m) /\ past' = SubSeq(past, 1, m)
    BY <1>1
  <1>5. m \in 0..Len(checkpoints) /\ m < n
    BY DEF Faithful, Typed, Lists
  <1>6. /\ checkpoints \in Seq(Commit) /\ redo \in Seq(Redo) /\ future \in Seq(Undo)
        /\ Len(future) = Len(redo) /\ clock \in Nat /\ DOMAIN turn_records \subseteq Commit
        /\ checkpoints' \in Seq(Commit) /\ Len(checkpoints') = m
        /\ \A i \in 1..m : i \in 1..Len(checkpoints) /\ i # n /\ checkpoints'[i] = checkpoints[i]
    <2>1. checkpoints \in Seq(Commit) /\ Len(checkpoints) \in Nat
      BY DEF Faithful, Typed, Lists
    <2>2. /\ checkpoints' \in Seq(Commit) /\ Len(checkpoints') = m
          /\ \A i \in 1..m : i \in 1..Len(checkpoints) /\ i # n /\ checkpoints'[i] = checkpoints[i]
      <3> HIDE DEF m
      <3> QED BY <1>4, <1>5, <2>1
    <2> QED BY <2>1, <2>2 DEF Faithful, Typed, Lists, Undos, Records, Rest
  <1> HIDE DEF r, u, m
  <1>7. /\ NoneNewer(checkpoints', redo, turn_records, clock)
        /\ Apart(checkpoints', redo)
        /\ AllTold(checkpoints', past', turn_records, FALSE)
    BY <1>2, <1>4, <1>5, PrefixFaithful
  <1>8. AllReverse(redo', future')
    BY <1>3, <1>4, <1>6, ReversePushed DEF Faithful, Known
  <1>9. New(checkpoints', redo, c)
    BY <1>6 DEF Faithful, Known, Apart, New
  <1>10. Apart(checkpoints', redo')
    BY <1>3, <1>4, <1>6, <1>7, <1>9, ApartUndone
  <1>11. NoneNewer(checkpoints', redo', turn_records', clock')
    <2>1. c.at <= clock
      BY DEF Faithful, Known, NoneNewer
    <2>2. clock <= clock
      BY <1>6
    <2> QED BY <1>2, <1>3, <1>4, <1>6, <1>7, <2>1, <2>2, OlderUndone
  <1>12. Known'
    BY <1>8, <1>10, <1>11 DEF Known
  <1>13. Told' /\ Running'
    BY <1>2, <1>7 DEF Told, Running
  <1> QED BY <1>12, <1>13

LEMMA RedoDoneFaithful ==
    ASSUME Faithful, NEW force \in BOOLEAN, RedoDone(force)
    PROVE  Known' /\ Told' /\ Running'
  <1> DEFINE r == Last(redo)
             u == Last(future)
             c == r.checkpoint
  <1>1. /\ phase = "idle" /\ redo # <<>>
        /\ redo' = Front(redo) /\ future' = Front(future)
        /\ checkpoints' = KeepNewest(Append(checkpoints, c), CheckpointCap)
        /\ past' = KeepNewest(Append(past, u.turn), CheckpointCap)
        /\ turn_records' = WithRecord(checkpoints', c, r.record)
        /\ UNCHANGED <<phase, clock>>
    BY DEF RedoDone
  <1>2. /\ checkpoints \in Seq(Commit) /\ past \in Seq(Turn) /\ Len(past) = Len(checkpoints)
        /\ redo \in Seq(Redo) /\ future \in Seq(Undo) /\ Len(future) = Len(redo)
        /\ clock \in Nat /\ DOMAIN turn_records \subseteq Commit
        /\ future # <<>>
    BY <1>1 DEF Faithful, Typed, Lists, Undos, Records, Rest
  <1>3. r \in Redo /\ u \in Undo /\ r = redo[Len(redo)] /\ Len(redo) \in 1..Len(redo)
    BY <1>1, <1>2, FrontType, FrontElements
  <1>4. c \in Commit /\ u.turn \in Turn
    BY <1>3 DEF Redo, Undo
  <1>5. AllReverse(redo', future') /\ Reverses(r, u)
    BY <1>1, <1>2, ReverseFront DEF Faithful, Known
  <1>6. Apart(checkpoints, redo') /\ New(checkpoints, redo', c)
    BY <1>1, <1>2, ApartRedone DEF Faithful, Known
  <1>7. NoneNewer(checkpoints, redo', turn_records, clock) /\ c.at <= clock
        /\ \A i \in 1..Len(redo') : redo'[i].checkpoint \in Commit
    <2>1. \A i \in 1..Len(redo') : i \in 1..Len(redo) /\ redo'[i] = redo[i]
      BY <1>1, <1>2, FrontElements
    <2>2. \A i \in 1..Len(redo) : redo[i].checkpoint \in Commit
      <3> SUFFICES ASSUME NEW i \in 1..Len(redo) PROVE redo[i].checkpoint \in Commit
        OBVIOUS
      <3>1. redo[i] \in Redo
        BY <1>2
      <3> QED BY <3>1 DEF Redo
    <2> QED BY <1>3, <2>1, <2>2 DEF Faithful, Known, NoneNewer
  <1> HIDE DEF c, r, u
  <1>8. Apart(checkpoints', redo')
    BY <1>1, <1>2, <1>4, <1>6, ApartPushed
  <1>9. NoneNewer(checkpoints', redo', turn_records', clock')
    <2>1. clock <= clock
      BY <1>2
    <2>2. NoneNewer(checkpoints', redo', turn_records, clock)
      BY <1>1, <1>2, <1>4, <1>7, <2>1, OlderPushed
    <2>3. DOMAIN turn_records' \subseteq DOMAIN turn_records \cup {c}
      BY <1>1, WithRecordDomain
    <2> QED BY <1>1, <1>7, <2>2, <2>3, OlderRecorded
  <1>10. Shifted(checkpoints', checkpoints, c, Dropped(checkpoints, CheckpointCap))
    BY <1>1, <1>2, <1>4, KeptElements, ConstantsType
  <1>11. /\ Len(checkpoints') \in Nat /\ Len(checkpoints') \in 1..Len(checkpoints')
         /\ checkpoints'[Len(checkpoints')] = c /\ checkpoints' \in Seq(Commit)
    <2>1. /\ Len(checkpoints') \in Nat /\ Len(checkpoints') \in 1..Len(checkpoints')
          /\ checkpoints'[Len(checkpoints')] = c
      BY <1>2, <1>10 DEF Shifted
    <2>2. checkpoints' \in Seq(Commit)
      BY <1>1, <1>2, <1>4, KeepAppended, ConstantsType DEF Kept
    <2> QED BY <2>1, <2>2
  <1>12. \A i \in 1..Len(checkpoints') : i < Len(checkpoints') =>
            RecordIn(turn_records', checkpoints'[i]) = RecordIn(turn_records, checkpoints'[i])
    <2> SUFFICES ASSUME NEW i \in 1..Len(checkpoints'), i < Len(checkpoints')
                 PROVE  RecordIn(turn_records', checkpoints'[i]) = RecordIn(turn_records, checkpoints'[i])
      OBVIOUS
    <2>1. checkpoints'[i] # c
      BY <1>8, <1>11 DEF Apart
    <2> QED BY <1>1, <1>11, <2>1, OtherRecords
  <1>13. AllTold(checkpoints', past', turn_records', FALSE)
    <2>1. RecordIn(turn_records', c) = r.record
      BY <1>1, OwnRecord
    <2>2. Tells(c, u.turn, RecordIn(turn_records', c)) /\ TellsEnd(RecordIn(turn_records', c), u.turn)
      BY <1>5, <2>1 DEF Reverses, c
    <2>3. AllTold(checkpoints, past, turn_records, FALSE)
      BY <1>1 DEF Faithful, Told
    <2> QED BY <1>1, <1>2, <1>4, <1>12, <2>2, <2>3, ToldPushed
  <1>14. Known'
    BY <1>5, <1>8, <1>9 DEF Known
  <1>15. Told' /\ Running'
    BY <1>1, <1>13 DEF Told, Running
  <1> QED BY <1>14, <1>15

\* A checkpoint of its own is pushed with a turn that is over.
LEMMA RevertTold ==
    ASSUME Faithful, ClockMoves, RevertCheckpoint, NEW t \in Turn,
           past' = KeepNewest(Append(past, t), CheckpointCap),
           Typed', phase' = "idle", NEW us, redo' = us, us = redo \/ us = <<>>,
           AllReverse(redo', future'),
           LET c == [tree |-> Snapshot, at |-> clock']
           IN \/ turn_records' = turn_records /\ Tells(c, t, NoRecord) /\ ~Recorded(t)
              \/ \E r : /\ turn_records' = WithRecord(checkpoints', c, r)
                        /\ Tells(c, t, r) /\ TellsEnd(r, t)
    PROVE  Known' /\ Told' /\ Running'
  <1> DEFINE c == [tree |-> Snapshot, at |-> clock']
  <1>1. /\ checkpoints \in Seq(Commit) /\ past \in Seq(Turn) /\ Len(past) = Len(checkpoints)
        /\ clock \in Nat /\ work \in Files /\ DOMAIN turn_records \subseteq Commit
        /\ checkpoints' \in Seq(Commit) /\ redo \in Seq(Redo)
    BY DEF Faithful, Typed, Lists, Undos, Records, Rest
  <1>2. /\ phase = "idle" /\ checkpoints' = KeepNewest(Append(checkpoints, c), CheckpointCap)
        /\ \E dt \in Seconds : clock' = clock + dt
    BY DEF RevertCheckpoint
  <1>3. clock' \in Nat /\ clock < clock' /\ clock <= clock'
    BY <1>1, <1>2, ClockMovesOn
  <1>4. c \in Commit /\ c.at = clock' /\ c.tree = Snapshot
    BY <1>1, <1>3, CommitType
  <1>5. \/ turn_records' = turn_records /\ Tells(c, t, NoRecord) /\ ~Recorded(t)
        \/ \E r : /\ turn_records' = WithRecord(checkpoints', c, r)
                  /\ Tells(c, t, r) /\ TellsEnd(r, t)
    OBVIOUS
  <1> HIDE DEF c
  <1>6. Len(<<>>) = 0
    BY EmptySeq
  <1>7. NoneNewer(checkpoints, redo', turn_records, clock) /\ Apart(checkpoints, redo')
    BY <1>6 DEF Faithful, Known, NoneNewer, Apart
  <1>8. New(checkpoints, redo', c) /\ c \notin DOMAIN turn_records
    <2>1. c.at > clock
      BY <1>1, <1>3, <1>4
    <2> QED BY <1>1, <1>4, <1>7, <2>1, LaterIsNew
  <1>9. Apart(checkpoints', redo')
    BY <1>1, <1>2, <1>4, <1>7, <1>8, ApartPushed
  <1>10. Shifted(checkpoints', checkpoints, c, Dropped(checkpoints, CheckpointCap))
    BY <1>1, <1>2, <1>4, KeptElements, ConstantsType
  <1>11. /\ Len(checkpoints') \in Nat /\ Len(checkpoints') \in 1..Len(checkpoints')
         /\ checkpoints'[Len(checkpoints')] = c
    BY <1>1, <1>10 DEF Shifted
  <1>12. AllTold(checkpoints, past, turn_records, FALSE)
    BY <1>2 DEF Faithful, Told
  <1>13. NoneNewer(checkpoints', redo', turn_records, clock')
    <2>1. \A i \in 1..Len(redo') : redo'[i].checkpoint \in Commit
      <3> SUFFICES ASSUME NEW i \in 1..Len(redo') PROVE redo'[i].checkpoint \in Commit
        OBVIOUS
      <3>1. redo'[i] \in Redo
        BY DEF Typed, Undos
      <3> QED BY <3>1 DEF Redo
    <2>2. c.at <= clock'
      BY <1>3, <1>4
    <2> QED BY <1>1, <1>2, <1>3, <1>4, <1>7, <2>1, <2>2, OlderPushed
  <1>14. CASE turn_records' = turn_records /\ Tells(c, t, NoRecord) /\ ~Recorded(t)
    <2>1. RecordIn(turn_records', c) = NoRecord
      BY <1>8, <1>14 DEF RecordIn
    <2>2. TellsEnd(RecordIn(turn_records', c), t)
      BY <1>14 DEF TellsEnd
    <2>3. \A i \in 1..Len(checkpoints') : i < Len(checkpoints') =>
             RecordIn(turn_records', checkpoints'[i]) = RecordIn(turn_records, checkpoints'[i])
      BY <1>14
    <2>4. AllTold(checkpoints', past', turn_records', FALSE)
      BY <1>1, <1>2, <1>4, <1>12, <1>14, <2>1, <2>2, <2>3, ToldPushed
    <2>5. Known'
      BY <1>9, <1>13, <1>14 DEF Known
    <2> QED BY <2>4, <2>5 DEF Told, Running
  <1>15. ASSUME NEW r, turn_records' = WithRecord(checkpoints', c, r),
                Tells(c, t, r), TellsEnd(r, t)
         PROVE  Known' /\ Told' /\ Running'
    <2>1. RecordIn(turn_records', c) = r
      BY <1>15, OwnRecord
    <2>2. \A i \in 1..Len(checkpoints') : i < Len(checkpoints') =>
             RecordIn(turn_records', checkpoints'[i]) = RecordIn(turn_records, checkpoints'[i])
      <3> SUFFICES ASSUME NEW i \in 1..Len(checkpoints'), i < Len(checkpoints')
                   PROVE  RecordIn(turn_records', checkpoints'[i]) = RecordIn(turn_records, checkpoints'[i])
        OBVIOUS
      <3>1. checkpoints'[i] # c
        BY <1>9, <1>11 DEF Apart
      <3> QED BY <1>1, <1>15, <3>1, OtherRecords
    <2>3. AllTold(checkpoints', past', turn_records', FALSE)
      <3>1. Tells(c, t, RecordIn(turn_records', c)) /\ TellsEnd(RecordIn(turn_records', c), t)
        BY <1>15, <2>1
      <3> QED BY <1>1, <1>2, <1>4, <1>12, <2>2, <3>1, ToldPushed
    <2>4. NoneNewer(checkpoints', redo', turn_records', clock')
      <3>1. DOMAIN turn_records' \subseteq DOMAIN turn_records \cup {c}
        BY <1>15, WithRecordDomain
      <3>2. c.at <= clock'
        BY <1>3, <1>4
      <3> QED BY <1>13, <3>1, <3>2, OlderRecorded
    <2>5. Known'
      BY <1>9, <2>4 DEF Known
    <2> QED BY <2>3, <2>5 DEF Told, Running
  <1> QED BY <1>5, <1>14, <1>15

\* A turn that begins now and saves no ignored file is told so.
LEMMA FreshTells ==
    ASSUME NEW t, NEW r, NEW at, t.start = work, t.turns = 1, t.wrote = NothingWritten,
           r.ignored = NothingSaved
    PROVE  Tells([tree |-> Snapshot, at |-> at], t, r)
  <1>1. Same([tree |-> Snapshot, at |-> at].tree, t.start)
    BY DEF Same, Snapshot
  <1>2. DOMAIN r.ignored = DOMAIN t.wrote /\ DOMAIN t.wrote = {}
    BY DEF NothingWritten, NothingSaved
  <1> QED BY <1>1, <1>2 DEF Tells

LEMMA RevertFaithful ==
    ASSUME Faithful, ClockMoves, RevertFails \/ \E p \in Tracked, x \in File : Revert(p, x)
    PROVE  Known' /\ Told' /\ Running'
  <1>1. Typed /\ Typed' /\ work \in Files
    BY RevertTyped, RevertFailsTyped DEF Faithful, Typed
  <1>2. CASE RevertFails
    <2> DEFINE t == [start |-> work, end |-> work, kind |-> "failed",
                     wrote |-> NothingWritten, turns |-> 1]
               c == [tree |-> Snapshot, at |-> clock']
    <2>1. t \in Turn
      BY <1>1, NothingWrittenType DEF Turn, Files
    <2>2. t.start = work /\ t.turns = 1 /\ t.wrote = NothingWritten /\ ~Recorded(t)
      BY DEF Recorded
    <2>3. /\ RevertCheckpoint /\ past' = KeepNewest(Append(past, t), CheckpointCap)
          /\ turn_records' = turn_records /\ redo' = redo /\ future' = future /\ phase' = "idle"
      BY <1>2 DEF RevertFails, RevertCheckpoint
    <2> HIDE DEF t
    <2>4. Tells(c, t, NoRecord)
      BY <2>2, FreshTells DEF NoRecord
    <2>5. AllReverse(redo', future')
      BY <2>3 DEF Faithful, Known
    <2> QED BY <1>1, <2>1, <2>2, <2>3, <2>4, <2>5, RevertTold
  <1>3. ASSUME NEW p \in Tracked, NEW x \in File, Revert(p, x)
        PROVE  Known' /\ Told' /\ Running'
    <2> DEFINE t == [start |-> work, end |-> work', kind |-> "revert",
                     wrote |-> NothingWritten, turns |-> 1]
               c == [tree |-> Snapshot, at |-> clock']
               r == [after |-> [Snapshot EXCEPT ![p] = x], ignored |-> NothingSaved]
    <2>1. work' \in Files /\ work' = [work EXCEPT ![p] = x]
      BY <1>1, <1>3 DEF Revert, Typed
    <2>2. t \in Turn
      BY <1>1, <2>1, NothingWrittenType DEF Turn, Files
    <2>3. t.start = work /\ t.turns = 1 /\ t.wrote = NothingWritten /\ t.end = work'
          /\ r.ignored = NothingSaved /\ r.after = [Snapshot EXCEPT ![p] = x]
      OBVIOUS
    <2>4. /\ RevertCheckpoint /\ past' = KeepNewest(Append(past, t), CheckpointCap)
          /\ turn_records' = WithRecord(checkpoints', c, r)
          /\ redo' = <<>> /\ future' = <<>> /\ phase' = "idle"
      BY <1>3 DEF Revert, RevertCheckpoint
    <2>5. TellsEnd(r, t)
      <3>1. [Snapshot EXCEPT ![p] = x] \in Tree
        BY <1>1, SnapshotType DEF Tree
      <3>2. Same([Snapshot EXCEPT ![p] = x], work')
        BY <1>1, <2>1 DEF Same, Snapshot, Files, Paths
      <3> QED BY <2>3, <3>1, <3>2, ConstantsType DEF TellsEnd
    <2> HIDE DEF t, r
    <2>6. Tells(c, t, r)
      BY <2>3, FreshTells
    <2>7. AllReverse(redo', future')
      <3>1. redo' = <<>> /\ Len(<<>>) = 0
        BY <2>4, EmptySeq
      <3> QED BY <3>1 DEF AllReverse
    <2> QED BY <1>1, <2>2, <2>4, <2>5, <2>6, <2>7, RevertTold
  <1> QED BY <1>2, <1>3

LEMMA AuditFaithful ==
    ASSUME Faithful, ClockMoves, NEW left \in Tree, AuditRolledBack(left)
    PROVE  Known' /\ Told' /\ Running'
  <1> DEFINE c == [tree |-> Snapshot, at |-> clock']
             leftWork == [p \in Paths |-> IF p \in Tracked THEN left[p] ELSE work[p]]
             q == [after |-> left, ignored |-> NothingSaved]
             r == [checkpoint |-> c, record |-> q,
                   files |-> left, undone |-> Snapshot, paths |-> Between(Snapshot, left),
                   ignored |-> NothingSaved, audit |-> TRUE]
             t == [start |-> work, end |-> leftWork, kind |-> "audit",
                   wrote |-> NothingWritten, turns |-> 1]
             u == [before |-> leftWork, after |-> work, turn |-> t]
  <1>1. /\ redo' = KeepNewest(Append(redo, r), RedoCap)
        /\ future' = KeepNewest(Append(future, u), RedoCap)
        /\ UNCHANGED <<work, checkpoints, turn_records, turn_checkpoint, phase, past>>
        /\ phase = "turn" /\ \E dt \in Seconds : clock' = clock + dt
    BY DEF AuditRolledBack
  <1>2. /\ Typed /\ work \in Files /\ clock \in Nat /\ checkpoints \in Seq(Commit)
        /\ redo \in Seq(Redo) /\ future \in Seq(Undo) /\ Len(future) = Len(redo)
        /\ DOMAIN turn_records \subseteq Commit
    BY DEF Faithful, Typed, Lists, Undos, Records, Rest
  <1>3. clock' \in Nat /\ clock < clock' /\ clock <= clock'
    BY <1>1, <1>2, ClockMovesOn
  <1>4. c \in Commit /\ c.at = clock'
    BY <1>2, <1>3, CommitType
  <1>5. leftWork \in Files
    BY <1>2 DEF Files, Paths, Tree
  <1>6. r \in Redo
    <2>1. q \in TurnRecord /\ Snapshot \in Tree
      BY <1>2, SnapshotType, NothingSavedType DEF TurnRecord
    <2>2. Between(Snapshot, left) \in SUBSET Tracked
      BY DEF Between
    <2> HIDE DEF c, q
    <2> QED BY <1>4, <2>1, <2>2, NothingSavedType DEF Redo
  <1>7. /\ \A p \in Tracked : leftWork[p] = left[p] /\ Snapshot[p] = work[p]
        /\ \A p \in Ignored : leftWork[p] = work[p]
    BY ConstantsType DEF Paths, Snapshot
  <1>8. /\ r.checkpoint = c /\ r.record = q /\ r.files = left /\ r.undone = Snapshot
        /\ r.paths = Between(Snapshot, left) /\ r.ignored = NothingSaved
        /\ u.before = leftWork /\ u.after = work /\ u.turn = t
        /\ q.after = left /\ q.ignored = NothingSaved
        /\ t.start = work /\ t.end = leftWork /\ t.wrote = NothingWritten /\ t.turns = 1
    OBVIOUS
  <1> HIDE DEF leftWork
  <1>9. t \in Turn
    BY <1>2, <1>5, NothingWrittenType DEF Turn, Files
  <1> HIDE DEF t, q
  <1>10. u \in Undo
    BY <1>2, <1>5, <1>9 DEF Undo
  <1> HIDE DEF r, u
  <1>11. Reverses(r, u)
    <2>1. Tells(r.checkpoint, u.turn, r.record)
      BY <1>8, FreshTells
    <2>2. TellsEnd(r.record, u.turn)
      BY <1>7, <1>8, ConstantsType DEF TellsEnd, Same
    <2>3. Same(r.files, u.before) /\ Same(r.undone, u.after)
      BY <1>7, <1>8 DEF Same
    <2>4. \A p \in Tracked \ r.paths : u.before[p] = u.after[p]
      BY <1>7, <1>8 DEF Between
    <2>5. DOMAIN r.ignored = {}
      BY <1>8 DEF NothingSaved
    <2>6. \A p \in Ignored : u.before[p] = u.after[p]
      BY <1>7, <1>8
    <2> QED BY <2>1, <2>2, <2>3, <2>4, <2>5, <2>6 DEF Reverses
  <1>12. AllReverse(redo', future')
    BY <1>1, <1>2, <1>6, <1>10, <1>11, ReversePushed DEF Faithful, Known
  <1>13. New(checkpoints, redo, c)
    <2>1. c.at > clock
      BY <1>2, <1>3, <1>4
    <2> HIDE DEF c
    <2> QED BY <1>2, <1>4, <2>1, LaterIsNew DEF Faithful, Known
  <1>14. Apart(checkpoints', redo')
    <2> HIDE DEF c
    <2> QED BY <1>1, <1>2, <1>6, <1>8, <1>13, ApartUndone DEF Faithful, Known
  <1>15. NoneNewer(checkpoints', redo', turn_records', clock')
    <2>1. r.checkpoint.at <= clock'
      BY <1>3, <1>4, <1>8
    <2> QED BY <1>1, <1>2, <1>3, <1>6, <2>1, OlderUndone DEF Faithful, Known
  <1>16. Known'
    BY <1>12, <1>14, <1>15 DEF Known
  <1>17. Told' /\ Running'
    BY <1>1 DEF Faithful, Told, Running
  <1> QED BY <1>16, <1>17

LEMMA NextFaithful == ClockMoves /\ Faithful /\ [Next]_vars => Faithful'
  <1> SUFFICES ASSUME ClockMoves, Faithful, [Next]_vars PROVE Faithful'
    OBVIOUS
  <1>1. Typed'
    BY NextTyped DEF Faithful
  <1> SUFFICES Known' /\ Told' /\ Running'
    BY <1>1 DEF Faithful
  <1>2. CASE \/ BeginTurn \/ RedoRefused \/ UNCHANGED vars
             \/ \E p \in Tracked, x \in File : ToolWrite(p, x)
             \/ \E p \in Ignored, x \in File : WriteIgnored(p, x)
             \/ \E p \in Paths, x \in File : UserEdit(p, x)
             \/ \E p \in Paths, x \in File : WriteUnkept(p, x)
    <2>1. /\ UNCHANGED <<checkpoints, redo, turn_records, turn_checkpoint, clock, past, future>>
          /\ phase' = phase \/ {phase, phase'} \subseteq {"idle", "turn"}
      BY <1>2 DEF BeginTurn, RedoRefused, ToolWrite, WriteIgnored, UserEdit,
             WriteUnkept, vars, meta, history
    <2> QED BY <2>1, WriteFaithful DEF Faithful
  <1>3. CASE CheckpointBeforeBuild
    BY <1>3, CheckpointFaithful
  <1>4. CASE \E p \in Ignored : SaveIgnored(p)
    BY <1>4, SaveIgnoredFaithful
  <1>5. CASE EndTurn \/ Crash
    BY <1>5, EndFaithful
  <1>6. CASE UndoNothing \/ UndoRefused
    BY <1>6, UndoLooksFaithful
  <1>7. CASE \E force \in BOOLEAN : UndoDone(force)
    BY <1>7, UndoDoneFaithful
  <1>8. CASE \E force \in BOOLEAN : RedoDone(force)
    BY <1>8, RedoDoneFaithful
  <1>9. CASE RevertFails \/ \E p \in Tracked, x \in File : Revert(p, x)
    BY <1>9, RevertFaithful
  <1>10. CASE \E left \in Tree : AuditRolledBack(left)
    BY <1>10, AuditFaithful
  <1> QED BY <1>2, <1>3, <1>4, <1>5, <1>6, <1>7, <1>8, <1>9, <1>10 DEF Next

-----------------------------------------------------------------------------
(* What the records are good for.                                          *)

\* Each checkpoint kept is the files as its turn found them, and its record
\* says how the turn really ended, for as long as no two checkpoints of the
\* same files are made in one second (git.rs, checkpoint: they would be
\* one commit and share a record): whatever is begun, undone, redone,
\* reverted, cut short or edited in between, no record is written over by
\* another turn's, dropped with the checkpoint next to it, or left to the
\* next turn to finish (session.rs, set_turn_record; agent.rs, finish_turn_record).
THEOREM RecordsAreTrue ==
    ASSUME ClockMoves
    PROVE  Spec => []RecordsSayWhatHappened
  <1>1. Init => Faithful
    BY InitFaithful
  <1>2. Faithful /\ [Next]_vars => Faithful'
    BY NextFaithful
  <1>3. Faithful => RecordsSayWhatHappened
    <2> SUFFICES ASSUME Faithful, NEW n \in 1..Len(checkpoints)
                 PROVE  /\ \A p \in Tracked : checkpoints[n].tree[p] = past[n].start[p]
                        /\ (phase = "idle" \/ n < Len(checkpoints)) /\ Recorded(past[n]) =>
                              /\ Record(checkpoints[n]).after # None
                              /\ \A p \in Tracked : Record(checkpoints[n]).after[p] = past[n].end[p]
      BY DEF RecordsSayWhatHappened
    <2>1. Tells(checkpoints[n], past[n], Record(checkpoints[n]))
      BY RecordIsIn DEF Faithful, Told, AllTold
    <2>2. phase = "idle" \/ n < Len(checkpoints) => TellsEnd(Record(checkpoints[n]), past[n])
      BY RecordIsIn DEF Faithful, Told, AllTold
    <2> QED BY <2>1, <2>2 DEF Tells, TellsEnd, Same
  <1> QED BY <1>1, <1>2, <1>3, PTL DEF Spec

\* Only an undo answers that it has undone, only a redo that it has redone.
LEMMA SaidByUndo ==
    ASSUME Next, said' \in {"undone", "undone over edits"}
    PROVE  \E force \in BOOLEAN : UndoDone(force)
  BY DEF Next, BeginTurn, CheckpointBeforeBuild, ToolWrite, SaveIgnored, WriteIgnored, EndTurn,
         Crash, UserEdit, UndoNothing, UndoRefused, RedoRefused, RedoDone, Revert, RevertFails,
         AuditRolledBack, WriteUnkept

LEMMA SaidByRedo ==
    ASSUME Next, said' = "redone"
    PROVE  RedoDone(TRUE) \/ RedoDone(FALSE)
  BY DEF Next, BeginTurn, CheckpointBeforeBuild, ToolWrite, SaveIgnored, WriteIgnored, EndTurn,
         Crash, UserEdit, UndoNothing, UndoRefused, RedoRefused, UndoDone, Revert, RevertFails,
         AuditRolledBack, WriteUnkept

\* The undo that went ahead: the turn it undid, and what the records told of it.
LEMMA UndoStep ==
    ASSUME Faithful, NEW force \in BOOLEAN, UndoDone(force)
    PROVE  LET n == Len(checkpoints') + 1
               c == checkpoints[n]
           IN /\ n \in 1..Len(checkpoints)
              /\ c \in Commit
              /\ work' = UndoneFiles(c)
              /\ said' = IF Clash(c) = {} THEN "undone" ELSE "undone over edits"
              /\ Tells(c, past[n], Record(c)) /\ TellsEnd(Record(c), past[n])
  <1>1. PICK n \in 1..Len(checkpoints) :
          LET c == checkpoints[n] IN
          /\ work' = UndoneFiles(c)
          /\ checkpoints' = SubSeq(checkpoints, 1, n - 1)
          /\ said' = IF Clash(c) = {} THEN "undone" ELSE "undone over edits"
    BY DEF UndoDone
  <1>2. checkpoints \in Seq(Commit)
    BY DEF Faithful, Typed, Lists
  <1>3. Len(checkpoints') + 1 = n
    <2> DEFINE m == n - 1
    <2>1. m \in 0..Len(checkpoints) /\ m + 1 = n
      BY <1>2
    <2>2. checkpoints' = SubSeq(checkpoints, 1, m)
      BY <1>1
    <2> HIDE DEF m
    <2> QED BY <1>2, <2>1, <2>2
  <1>4. AllTold(checkpoints, past, turn_records, FALSE)
    BY DEF Faithful, Told, UndoDone
  <1>5. Tells(checkpoints[n], past[n], Record(checkpoints[n]))
        /\ TellsEnd(Record(checkpoints[n]), past[n])
    BY <1>4, RecordIsIn DEF AllTold
  <1>6. checkpoints[n] \in Commit
    BY <1>2
  <1>7. /\ work' = UndoneFiles(checkpoints[n])
        /\ said' = IF Clash(checkpoints[n]) = {} THEN "undone" ELSE "undone over edits"
    BY <1>1
  <1> QED BY <1>3, <1>5, <1>6, <1>7

\* A turn that ran to its end moved exactly the files its record says.
LEMMA PathsAreMoved ==
    ASSUME NEW c, NEW t, Tells(c, t, Record(c)), TellsEnd(Record(c), t), Recorded(t)
    PROVE  TurnPaths(c) = Moved(t) /\ End(c) = Record(c).after /\ Same(End(c), t.end)
  <1>1. End(c) = Record(c).after /\ Same(End(c), t.end)
    BY DEF TellsEnd, End
  <1>2. Same(c.tree, t.start)
    BY DEF Tells
  <1> QED BY <1>1, <1>2 DEF TurnPaths, Between, Moved, Same

\* An /undo that names no edited file puts back exactly what the turn
\* changed, and every other tracked file stays as it is, however many turns,
\* undos, redos, reverts and edits came before (agent.rs, undo_with), as long
\* as two checkpoints of the same files are a second apart.
THEOREM UndoIsExact ==
    ASSUME ClockMoves
    PROVE  Spec => UndoPutsBackTheTurn
  <1>1. Init => Faithful
    BY InitFaithful
  <1>2. Faithful /\ [Next]_vars => Faithful'
    BY NextFaithful
  <1>3. Faithful /\ [Next]_vars =>
          [said' = "undone" =>
             LET t == past[Len(checkpoints') + 1] IN Recorded(t) => UndoneAsPromised(t)]_vars
    <2> DEFINE n == Len(checkpoints') + 1
               c == checkpoints[n]
               t == past[n]
    <2> SUFFICES ASSUME Faithful, Next, said' = "undone", Recorded(t)
                 PROVE  UndoneAsPromised(t)
      OBVIOUS
    <2>1. PICK force \in BOOLEAN : UndoDone(force)
      BY SaidByUndo
    <2>2. /\ c \in Commit /\ work' = UndoneFiles(c) /\ Clash(c) = {}
          /\ Tells(c, t, Record(c)) /\ TellsEnd(Record(c), t)
      BY <2>1, UndoStep
    <2>3. \A p \in Tracked : work'[p] = IF p \in TurnPaths(c) THEN c.tree[p] ELSE work[p]
      BY <2>2, UndoneEach DEF Faithful
    <2> HIDE DEF c, t, n
    <2>4. TurnPaths(c) = Moved(t) /\ Same(End(c), t.end)
      BY <2>2, PathsAreMoved
    <2>5. \A p \in Moved(t) : work[p] = t.end[p]
      BY <2>2, <2>4 DEF Clash, Between, Moved, Same, Snapshot
    <2>6. Same(c.tree, t.start)
      BY <2>2 DEF Tells
    <2> QED BY <2>3, <2>4, <2>5, <2>6 DEF UndoneAsPromised, Same
  <1> QED BY <1>1, <1>2, <1>3, PTL DEF Spec, UndoPutsBackTheTurn

\* Even `/undo force`, over whatever the user edited, moves no tracked file
\* but those the turn moved.
THEOREM ForcedUndoIsContained ==
    ASSUME ClockMoves
    PROVE  Spec => ForcedUndoKeepsOtherFiles
  <1>1. Init => Faithful
    BY InitFaithful
  <1>2. Faithful /\ [Next]_vars => Faithful'
    BY NextFaithful
  <1>3. Faithful /\ [Next]_vars =>
          [said' = "undone over edits" =>
             LET t == past[Len(checkpoints') + 1]
             IN Recorded(t) => \A p \in Tracked \ Moved(t) : work'[p] = work[p]]_vars
    <2> DEFINE n == Len(checkpoints') + 1
               c == checkpoints[n]
               t == past[n]
    <2> SUFFICES ASSUME Faithful, Next, said' = "undone over edits", Recorded(t)
                 PROVE  \A p \in Tracked \ Moved(t) : work'[p] = work[p]
      OBVIOUS
    <2>1. PICK force \in BOOLEAN : UndoDone(force)
      BY SaidByUndo
    <2>2. /\ c \in Commit /\ work' = UndoneFiles(c)
          /\ Tells(c, t, Record(c)) /\ TellsEnd(Record(c), t)
      BY <2>1, UndoStep
    <2>3. \A p \in Tracked : work'[p] = IF p \in TurnPaths(c) THEN c.tree[p] ELSE work[p]
      BY <2>2, UndoneEach DEF Faithful
    <2> HIDE DEF c, t, n
    <2>4. TurnPaths(c) = Moved(t)
      BY <2>2, PathsAreMoved
    <2> QED BY <2>3, <2>4
  <1> QED BY <1>1, <1>2, <1>3, PTL DEF Spec, ForcedUndoKeepsOtherFiles

\* An undo puts each gitignored file the turn wrote back to what it held
\* before the turn first wrote it, and moves no other, unless the turn took
\* over an earlier one's checkpoint (agent.rs, save_ignored and undo_with).
THEOREM UndoReachesIgnored ==
    ASSUME ClockMoves
    PROVE  Spec => UndoPutsBackIgnored
  <1>1. Init => Faithful
    BY InitFaithful
  <1>2. Faithful /\ [Next]_vars => Faithful'
    BY NextFaithful
  <1>3. Faithful /\ [Next]_vars =>
          [said' \in {"undone", "undone over edits"} =>
             LET t == past[Len(checkpoints') + 1]
             IN t.turns = 1 =>
                  \A p \in Ignored :
                     work'[p] = IF p \in DOMAIN t.wrote THEN t.wrote[p] ELSE work[p]]_vars
    <2> DEFINE n == Len(checkpoints') + 1
               c == checkpoints[n]
               t == past[n]
    <2> SUFFICES ASSUME Faithful, Next, said' \in {"undone", "undone over edits"}, t.turns = 1,
                        NEW p \in Ignored
                 PROVE  work'[p] = IF p \in DOMAIN t.wrote THEN t.wrote[p] ELSE work[p]
      OBVIOUS
    <2>1. PICK force \in BOOLEAN : UndoDone(force)
      BY SaidByUndo
    <2>2. c \in Commit /\ work' = UndoneFiles(c) /\ Tells(c, t, Record(c))
      BY <2>1, UndoStep
    <2>3. work'[p] = IF p \in DOMAIN Record(c).ignored THEN Record(c).ignored[p].before ELSE work[p]
      BY <2>2, UndoneEach DEF Faithful
    <2> HIDE DEF c, t, n
    <2> QED BY <2>2, <2>3 DEF Tells
  <1> QED BY <1>1, <1>2, <1>3, PTL DEF Spec, UndoPutsBackIgnored

\* A /redo that names no edited file is the undo reversed: every file the
\* undo moved, tracked or ignored, goes back to how the undo found it, and
\* nothing else moves (agent.rs, redo_with).
THEOREM RedoIsTheReverse ==
    ASSUME ClockMoves
    PROVE  Spec => RedoReversesTheUndo
  <1>1. Init => Faithful
    BY InitFaithful
  <1>2. Faithful /\ [Next]_vars => Faithful'
    BY NextFaithful
  <1>3. Faithful /\ [Next]_vars =>
          [said' = "redone" =>
             LET u == Last(future)
             IN \A p \in Paths :
                  IF u.before[p] # u.after[p]
                  THEN work[p] = u.after[p] /\ work'[p] = u.before[p]
                  ELSE work'[p] = work[p]]_vars
    <2> DEFINE u == Last(future)
               r == Last(redo)
    <2> SUFFICES ASSUME Faithful, Next, said' = "redone", NEW p \in Paths
                 PROVE  IF u.before[p] # u.after[p]
                        THEN work[p] = u.after[p] /\ work'[p] = u.before[p]
                        ELSE work'[p] = work[p]
      OBVIOUS
    <2>1. redo # <<>> /\ work' = RedoneFiles(r) /\ RedoClash(r) = {}
      BY SaidByRedo DEF RedoDone
    <2>2. redo \in Seq(Redo) /\ future \in Seq(Undo) /\ Len(future) = Len(redo)
      BY DEF Faithful, Typed, Undos
    <2>3. r \in Redo /\ Reverses(r, u)
      BY <2>1, <2>2, FrontType, ReverseFront DEF Faithful, Known
    <2>4. /\ p \in Tracked => work'[p] = IF p \in r.paths THEN r.files[p] ELSE work[p]
          /\ p \in Ignored => work'[p] = IF p \in DOMAIN r.ignored THEN r.ignored[p].before ELSE work[p]
      BY <2>1, <2>3, RedoneEach
    <2> HIDE DEF r, u
    <2>5. CASE p \in Tracked
      <3>1. Snapshot[p] = work[p] /\ r.files[p] = u.before[p] /\ r.undone[p] = u.after[p]
        BY <2>3, <2>5 DEF Reverses, Same, Snapshot
      <3>2. p \in r.paths => work[p] = r.undone[p]
        BY <2>1, <2>5, <3>1 DEF RedoClash, Between
      <3>3. p \notin r.paths => u.before[p] = u.after[p]
        BY <2>3, <2>5 DEF Reverses
      <3> QED BY <2>4, <2>5, <3>1, <3>2, <3>3
    <2>6. CASE p \in Ignored
      <3>1. p \in DOMAIN r.ignored => work[p] = r.ignored[p].after
        BY <2>1 DEF RedoClash
      <3>2. IF p \in DOMAIN r.ignored
            THEN r.ignored[p].before = u.before[p] /\ r.ignored[p].after = u.after[p]
            ELSE u.before[p] = u.after[p]
        BY <2>3, <2>6 DEF Reverses
      <3> QED BY <2>4, <2>6, <3>1, <3>2
    <2> QED BY <2>5, <2>6 DEF Paths
  <1> QED BY <1>1, <1>2, <1>3, PTL DEF Spec, RedoReversesTheUndo

-----------------------------------------------------------------------------
(* While nobody edits a file, nothing is written without a checkpoint, no   *)
(* turn is cut short and no audit is rolled back, each turn begins where    *)
(* the one before it ended and the files are as the newest one left them,   *)
(* and the undos lead from one to the next.                                 *)

Quiet == \A e \in {"edit", "unkept", "crash", "audit"} : count[e] = 0

\* Every turn ran to its end, or is a revert that failed: that one changed
\* nothing and has no record.
Plain(cs, ts, rs) ==
    \A n \in 1..Len(ts) :
        \/ ts[n].kind \in {"turn", "revert"}
        \/ ts[n].kind = "failed" /\ cs[n] \notin DOMAIN rs /\ Same(ts[n].start, ts[n].end)

Linked(ts) == \A n \in 1..Len(ts) : n < Len(ts) => Same(ts[n].end, ts[n + 1].start)
LeadsTo(ts, files) == Len(ts) > 0 => Same(ts[Len(ts)].end, files)

UndosLinked(us, fs, files) ==
    /\ \A i \in 1..Len(us) :
          /\ Same(us[i].files, fs[i].turn.end) /\ Same(us[i].undone, fs[i].turn.start)
          /\ fs[i].turn.kind \in {"turn", "revert"}
          /\ i < Len(us) => Same(us[i].undone, us[i + 1].files)
    /\ Len(us) > 0 => Same(us[Len(us)].undone, files)

Settled ==
    /\ Plain(checkpoints, past, turn_records)
    /\ Linked(past)
    /\ phase # "changing" => LeadsTo(past, work)
    /\ UndosLinked(redo, future, work)

Calm == Quiet => Settled

LEMMA SameFiles ==
    /\ \A f : Same(f, f)
    /\ \A f, g : Same(f, g) => Same(g, f)
    /\ \A f, g, h : Same(f, g) /\ Same(g, h) => Same(f, h)
    /\ Same(Snapshot, work) /\ Same(work, Snapshot)
  BY DEF Same, Snapshot

LEMMA NothingLinked == \A w : UndosLinked(<<>>, <<>>, w) /\ Linked(<<>>) /\ LeadsTo(<<>>, w)
  <1>1. Len(<<>>) = 0
    BY EmptySeq
  <1> QED BY <1>1 DEF UndosLinked, Linked, LeadsTo

\* Lists `k` and `kt` are `cs` and `ts` with a checkpoint and its turn, which
\* begins where the newest one ended.
Pushed(cs, ts, rs, files, c, t, k, kt, rs2) ==
    /\ cs \in Seq(Commit) /\ ts \in Seq(Turn) /\ Len(ts) = Len(cs)
    /\ Plain(cs, ts, rs) /\ Linked(ts) /\ LeadsTo(ts, files)
    /\ c \in Commit /\ t \in Turn /\ Same(files, t.start)
    /\ \/ t.kind \in {"turn", "revert"}
       \/ t.kind = "failed" /\ c \notin DOMAIN rs2 /\ Same(t.start, t.end)
    /\ k = KeepNewest(Append(cs, c), CheckpointCap)
    /\ kt = KeepNewest(Append(ts, t), CheckpointCap)
    /\ Apart(k, <<>>) /\ DOMAIN rs2 \subseteq DOMAIN rs \cup {c}

LEMMA LinkedPushed ==
    ASSUME NEW cs, NEW ts, NEW rs, NEW files, NEW c, NEW t, NEW k, NEW kt, NEW rs2,
           Pushed(cs, ts, rs, files, c, t, k, kt, rs2)
    PROVE  Plain(k, kt, rs2) /\ Linked(kt) /\ Len(kt) > 0 /\ kt[Len(kt)] = t
  <1>a. /\ cs \in Seq(Commit) /\ ts \in Seq(Turn) /\ Len(ts) = Len(cs)
        /\ Plain(cs, ts, rs) /\ Linked(ts) /\ LeadsTo(ts, files)
        /\ c \in Commit /\ t \in Turn /\ Same(files, t.start)
    BY DEF Pushed
  <1>b. /\ \/ t.kind \in {"turn", "revert"}
           \/ t.kind = "failed" /\ c \notin DOMAIN rs2 /\ Same(t.start, t.end)
        /\ k = KeepNewest(Append(cs, c), CheckpointCap)
        /\ kt = KeepNewest(Append(ts, t), CheckpointCap)
        /\ Apart(k, <<>>) /\ DOMAIN rs2 \subseteq DOMAIN rs \cup {c}
    BY DEF Pushed
  <1> DEFINE d == Dropped(cs, CheckpointCap)
  <1>0. CheckpointCap \in Nat \ {0}
    BY ConstantsType
  <1>1. Shifted(k, cs, c, d)
    BY <1>0, <1>a, <1>b, KeptElements
  <1>2. Shifted(kt, ts, t, d)
    <2>1. Shifted(kt, ts, t, Dropped(ts, CheckpointCap))
      BY <1>0, <1>a, <1>b, KeptElements
    <2> QED BY <1>a, <2>1 DEF Dropped
  <1> HIDE DEF d
  <1>3. d \in Nat /\ Len(k) \in Nat \ {0} /\ Len(kt) = Len(k) /\ Len(cs) \in Nat
        /\ Len(k) = Len(cs) + 1 - d
    BY <1>1, <1>2, <1>a DEF Shifted
  <1>4. \A n \in 1..Len(k) : n = Len(k) \/ n < Len(k)
    BY <1>3
  <1>5. k[Len(k)] = c /\ kt[Len(k)] = t /\ Len(k) \in 1..Len(k)
    BY <1>1, <1>2, <1>3 DEF Shifted
  <1>6. ASSUME NEW n \in 1..Len(k), n < Len(k)
        PROVE  n + d \in 1..Len(cs) /\ k[n] = cs[n + d] /\ kt[n] = ts[n + d]
    BY <1>1, <1>2, <1>3, <1>6 DEF Shifted
  <1>7. Plain(k, kt, rs2)
    <2> SUFFICES ASSUME NEW n \in 1..Len(k)
                 PROVE  \/ kt[n].kind \in {"turn", "revert"}
                        \/ kt[n].kind = "failed" /\ k[n] \notin DOMAIN rs2 /\ Same(kt[n].start, kt[n].end)
      BY <1>3 DEF Plain
    <2>1. CASE n = Len(k)
      BY <1>5, <1>b, <2>1
    <2>2. CASE n < Len(k)
      <3>1. n + d \in 1..Len(ts) /\ k[n] = cs[n + d] /\ kt[n] = ts[n + d]
        BY <1>6, <1>a, <2>2
      <3>2. k[n] # c
        BY <1>3, <1>5, <1>b, <2>2 DEF Apart
      <3>3. \/ ts[n + d].kind \in {"turn", "revert"}
            \/ ts[n + d].kind = "failed" /\ cs[n + d] \notin DOMAIN rs
               /\ Same(ts[n + d].start, ts[n + d].end)
        BY <1>a, <3>1 DEF Plain
      <3> QED BY <1>b, <3>1, <3>2, <3>3
    <2> QED BY <1>4, <2>1, <2>2
  <1>8. Linked(kt)
    <2> SUFFICES ASSUME NEW n \in 1..Len(k), n < Len(k) PROVE Same(kt[n].end, kt[n + 1].start)
      BY <1>3 DEF Linked
    <2>1. n + d \in 1..Len(ts) /\ kt[n] = ts[n + d] /\ n + 1 \in 1..Len(k)
      BY <1>3, <1>6, <1>a
    <2>2. CASE n + 1 = Len(k)
      <3>1. n + d = Len(ts) /\ Len(ts) > 0
        BY <1>3, <1>a, <2>1, <2>2
      <3>2. Same(ts[n + d].end, files)
        BY <1>a, <3>1 DEF LeadsTo
      <3> QED BY <1>5, <1>a, <2>1, <2>2, <3>2, SameFiles
    <2>3. CASE n + 1 < Len(k)
      <3>1. n + 1 + d \in 1..Len(ts) /\ kt[n + 1] = ts[n + 1 + d]
        BY <1>6, <1>a, <2>1, <2>3
      <3>2. n + 1 + d = n + d + 1 /\ n + d < Len(ts)
        BY <1>3, <1>a, <2>1, <3>1
      <3> QED BY <1>a, <2>1, <3>1, <3>2 DEF Linked
    <2> QED BY <1>3, <2>2, <2>3
  <1> QED BY <1>3, <1>5, <1>7, <1>8

LEMMA LinkedPrefix ==
    ASSUME NEW cs \in Seq(Commit), NEW ts \in Seq(Turn), Len(ts) = Len(cs), NEW rs,
           Plain(cs, ts, rs), Linked(ts), NEW m \in 0..Len(cs)
    PROVE  /\ Plain(SubSeq(cs, 1, m), SubSeq(ts, 1, m), rs) /\ Linked(SubSeq(ts, 1, m))
           /\ Len(SubSeq(ts, 1, m)) = m
           /\ m > 0 => SubSeq(ts, 1, m)[m] = ts[m]
  <1>1. /\ Len(SubSeq(ts, 1, m)) = m /\ m \in Nat
        /\ \A n \in 1..m : /\ n \in 1..Len(ts) /\ SubSeq(cs, 1, m)[n] = cs[n]
                           /\ SubSeq(ts, 1, m)[n] = ts[n]
    OBVIOUS
  <1>2. Plain(SubSeq(cs, 1, m), SubSeq(ts, 1, m), rs)
    BY <1>1 DEF Plain
  <1>3. Linked(SubSeq(ts, 1, m))
    <2> SUFFICES ASSUME NEW n \in 1..m, n < m
                 PROVE  Same(SubSeq(ts, 1, m)[n].end, SubSeq(ts, 1, m)[n + 1].start)
      BY <1>1 DEF Linked
    <2>1. n + 1 \in 1..m /\ n < Len(ts)
      BY <1>1
    <2>2. Same(ts[n].end, ts[n + 1].start)
      BY <1>1, <2>1 DEF Linked
    <2> QED BY <1>1, <2>1, <2>2
  <1> QED BY <1>1, <1>2, <1>3

\* An undo from where the last one led is pushed.
LEMMA UndosPushed ==
    ASSUME NEW us \in Seq(Redo), NEW fs \in Seq(Undo), Len(fs) = Len(us), NEW files,
           UndosLinked(us, fs, files), NEW r \in Redo, NEW u \in Undo, NEW files2,
           Same(files, r.files), Same(r.undone, files2), Same(r.files, u.turn.end),
           Same(r.undone, u.turn.start), u.turn.kind \in {"turn", "revert"}
    PROVE  UndosLinked(KeepNewest(Append(us, r), RedoCap), KeepNewest(Append(fs, u), RedoCap), files2)
  <1> DEFINE d == Dropped(us, RedoCap)
             k == KeepNewest(Append(us, r), RedoCap)
             kf == KeepNewest(Append(fs, u), RedoCap)
  <1>0. RedoCap \in Nat \ {0}
    BY ConstantsType
  <1>1. Shifted(k, us, r, d)
    BY <1>0, KeptElements
  <1>2. Shifted(kf, fs, u, d)
    <2>1. Shifted(kf, fs, u, Dropped(fs, RedoCap))
      BY <1>0, KeptElements
    <2> QED BY <2>1 DEF Dropped
  <1> HIDE DEF d, k, kf
  <1>3. d \in Nat /\ Len(k) \in Nat \ {0} /\ Len(kf) = Len(k) /\ Len(us) \in Nat
        /\ Len(k) = Len(us) + 1 - d
    BY <1>1, <1>2 DEF Shifted
  <1>4. \A n \in 1..Len(k) : n = Len(k) \/ n < Len(k)
    BY <1>3
  <1>5. k[Len(k)] = r /\ kf[Len(k)] = u /\ Len(k) \in 1..Len(k)
    BY <1>1, <1>2, <1>3 DEF Shifted
  <1>6. ASSUME NEW n \in 1..Len(k), n < Len(k)
        PROVE  n + d \in 1..Len(us) /\ k[n] = us[n + d] /\ kf[n] = fs[n + d]
    BY <1>1, <1>2, <1>3, <1>6 DEF Shifted
  <1>7. ASSUME NEW i \in 1..Len(k)
        PROVE  /\ Same(k[i].files, kf[i].turn.end) /\ Same(k[i].undone, kf[i].turn.start)
               /\ kf[i].turn.kind \in {"turn", "revert"}
    <2>1. CASE i = Len(k)
      BY <1>5, <2>1
    <2>2. CASE i < Len(k)
      BY <1>6, <2>2 DEF UndosLinked
    <2> QED BY <1>4, <2>1, <2>2
  <1>8. ASSUME NEW i \in 1..Len(k), i < Len(k) PROVE Same(k[i].undone, k[i + 1].files)
    <2>1. i + d \in 1..Len(us) /\ k[i] = us[i + d] /\ i + 1 \in 1..Len(k)
      BY <1>3, <1>6, <1>8
    <2>2. CASE i + 1 = Len(k)
      <3>1. i + d = Len(us) /\ Len(us) > 0
        BY <1>3, <2>1, <2>2
      <3>2. Same(us[i + d].undone, files)
        BY <3>1 DEF UndosLinked
      <3> QED BY <1>5, <2>1, <2>2, <3>2, SameFiles
    <2>3. CASE i + 1 < Len(k)
      <3>1. i + 1 + d \in 1..Len(us) /\ k[i + 1] = us[i + 1 + d]
        BY <1>6, <2>1, <2>3
      <3>2. i + 1 + d = i + d + 1 /\ i + d < Len(us)
        BY <1>3, <2>1, <3>1
      <3>3. Same(us[i + d].undone, us[i + d + 1].files)
        BY <2>1, <3>2 DEF UndosLinked
      <3> QED BY <2>1, <3>1, <3>2, <3>3
    <2> QED BY <1>3, <1>8, <2>2, <2>3
  <1> QED BY <1>5, <1>7, <1>8 DEF UndosLinked, k, kf

LEMMA UndosFront ==
    ASSUME NEW us \in Seq(Redo), NEW fs \in Seq(Undo), Len(fs) = Len(us), NEW files,
           UndosLinked(us, fs, files), us # <<>>, NEW files2, Same(Last(us).files, files2)
    PROVE  UndosLinked(Front(us), Front(fs), files2)
  <1>1. fs # <<>>
    OBVIOUS
  <1>2. /\ Len(Front(us)) = Len(us) - 1 /\ Len(us) \in Nat \ {0}
        /\ \A i \in 1..Len(Front(us)) : i \in 1..Len(us) /\ i < Len(us) /\ Front(us)[i] = us[i]
        /\ Last(us) = us[Len(us)]
    BY FrontElements
  <1>3. \A i \in 1..Len(Front(us)) : Front(fs)[i] = fs[i]
    BY <1>1, <1>2, FrontElements
  <1>4. ASSUME NEW i \in 1..Len(Front(us))
        PROVE  /\ Same(us[i].files, fs[i].turn.end) /\ Same(us[i].undone, fs[i].turn.start)
               /\ fs[i].turn.kind \in {"turn", "revert"}
               /\ Same(us[i].undone, us[i + 1].files)
    BY <1>2 DEF UndosLinked
  <1>5. ASSUME NEW i \in 1..Len(Front(us)), i < Len(Front(us))
        PROVE  i + 1 \in 1..Len(Front(us))
    BY <1>2, <1>5
  <1>6. Len(Front(us)) > 0 => Same(Front(us)[Len(Front(us))].undone, files2)
    <2> SUFFICES ASSUME Len(Front(us)) > 0 PROVE Same(Front(us)[Len(Front(us))].undone, files2)
      OBVIOUS
    <2>1. Len(Front(us)) \in 1..Len(Front(us)) /\ Len(Front(us)) + 1 = Len(us)
      BY <1>2
    <2>2. Same(us[Len(Front(us))].undone, us[Len(us)].files)
      BY <1>4, <2>1
    <2> QED BY <1>2, <2>1, <2>2, SameFiles
  <1> QED BY <1>2, <1>3, <1>4, <1>5, <1>6 DEF UndosLinked

\* Turns that begin and end as those before them did.
LEMMA SameTurns ==
    ASSUME NEW cs, NEW ts, NEW rs, Plain(cs, ts, rs), Linked(ts), NEW ts2, NEW rs2,
           Len(ts2) = Len(ts), Len(ts) \in Nat, DOMAIN rs2 \subseteq DOMAIN rs,
           \A n \in 1..Len(ts) : /\ ts2[n].kind = ts[n].kind /\ ts2[n].start = ts[n].start
                                 /\ ts2[n].end = ts[n].end
    PROVE  Plain(cs, ts2, rs2) /\ Linked(ts2)
  <1>1. Plain(cs, ts2, rs2)
    BY DEF Plain
  <1>2. Linked(ts2)
    <2> SUFFICES ASSUME NEW n \in 1..Len(ts), n < Len(ts) PROVE Same(ts2[n].end, ts2[n + 1].start)
      BY DEF Linked
    <2>1. n + 1 \in 1..Len(ts)
      OBVIOUS
    <2>2. Same(ts[n].end, ts[n + 1].start)
      BY DEF Linked
    <2> QED BY <2>1, <2>2
  <1> QED BY <1>1, <1>2

\* Only the newest turn is another: one that runs, from where it began.
LEMMA SameButNewest ==
    ASSUME NEW cs, NEW ts, NEW rs, Plain(cs, ts, rs), Linked(ts), NEW ts2, NEW rs2,
           Len(ts2) = Len(ts), Len(ts) \in Nat \ {0},
           \A n \in 1..Len(ts) : n < Len(ts) => ts2[n] = ts[n],
           ts2[Len(ts)].kind = "turn", Same(ts[Len(ts)].start, ts2[Len(ts)].start),
           DOMAIN rs2 \subseteq DOMAIN rs \cup {cs[Len(ts)]},
           \A n \in 1..Len(ts) : n < Len(ts) => cs[n] # cs[Len(ts)]
    PROVE  Plain(cs, ts2, rs2) /\ Linked(ts2)
  <1>0. \A n \in 1..Len(ts) : n = Len(ts) \/ n < Len(ts)
    OBVIOUS
  <1>1. Plain(cs, ts2, rs2)
    <2> SUFFICES ASSUME NEW n \in 1..Len(ts)
                 PROVE  \/ ts2[n].kind \in {"turn", "revert"}
                        \/ ts2[n].kind = "failed" /\ cs[n] \notin DOMAIN rs2 /\ Same(ts2[n].start, ts2[n].end)
      BY DEF Plain
    <2>1. CASE n = Len(ts)
      BY <2>1
    <2>2. CASE n < Len(ts)
      <3>1. \/ ts[n].kind \in {"turn", "revert"}
            \/ ts[n].kind = "failed" /\ cs[n] \notin DOMAIN rs /\ Same(ts[n].start, ts[n].end)
        BY DEF Plain
      <3>2. ts2[n] = ts[n] /\ cs[n] # cs[Len(ts)]
        BY <2>2
      <3> QED BY <3>1, <3>2
    <2> QED BY <1>0, <2>1, <2>2
  <1>2. Linked(ts2)
    <2> SUFFICES ASSUME NEW n \in 1..Len(ts), n < Len(ts) PROVE Same(ts2[n].end, ts2[n + 1].start)
      BY DEF Linked
    <2>1. n + 1 \in 1..Len(ts) /\ ts2[n] = ts[n]
      OBVIOUS
    <2>2. Same(ts[n].end, ts[n + 1].start)
      BY DEF Linked
    <2>3. n + 1 = Len(ts) \/ n + 1 < Len(ts)
      OBVIOUS
    <2>4. Same(ts[n + 1].start, ts2[n + 1].start)
      <3>1. CASE n + 1 = Len(ts)
        BY <3>1
      <3>2. CASE n + 1 < Len(ts)
        BY <2>1, <3>2, SameFiles
      <3> QED BY <2>3, <3>1, <3>2
    <2> QED BY <2>1, <2>2, <2>4, SameFiles
  <1> QED BY <1>1, <1>2

-----------------------------------------------------------------------------
(* The steps.                                                              *)

LEMMA SpendQuiet ==
    ASSUME count \in [Events -> Nat], NEW e \in Events, Spend(e), Quiet'
    PROVE  Quiet /\ e \notin {"edit", "unkept", "crash", "audit"}
  <1>1. count' = [count EXCEPT ![e] = @ + 1]
    BY DEF Spend
  <1>2. \A x \in Events : count[x] \in Nat /\ count'[x] = IF x = e THEN count[x] + 1 ELSE count[x]
    BY <1>1
  <1>3. {"edit", "unkept", "crash", "audit"} \subseteq Events
    BY DEF Events
  <1> QED BY <1>2, <1>3 DEF Quiet

LEMMA WriteCalm ==
    ASSUME Settled, Running, UNCHANGED <<checkpoints, past, turn_records, redo, future>>,
           \/ phase = "changing" /\ phase' = "changing"
           \/ work' = work /\ phase # "changing"
           \/ work' = work /\ phase' = phase
    PROVE  Settled'
  <1>1. Plain(checkpoints', past', turn_records') /\ Linked(past')
    BY DEF Settled
  <1>2. UndosLinked(redo', future', work')
    <2>1. CASE work' = work
      BY <2>1 DEF Settled
    <2>2. CASE phase = "changing"
      <3>1. redo' = <<>> /\ Len(<<>>) = 0
        BY <2>2, EmptySeq DEF Running
      <3> QED BY <3>1 DEF UndosLinked
    <2> QED BY <2>1, <2>2
  <1>3. phase' # "changing" => LeadsTo(past', work')
    BY DEF Settled
  <1> QED BY <1>1, <1>2, <1>3 DEF Settled

LEMMA SaveIgnoredCalm ==
    ASSUME Faithful, Settled, NEW p \in Ignored, SaveIgnored(p)
    PROVE  Settled'
  <1>1. /\ phase = "changing" /\ phase' = "changing" /\ UNCHANGED <<work, checkpoints, redo, future>>
        /\ past' = [past EXCEPT ![Len(past)].wrote =
                        IF p \in DOMAIN @ THEN @ ELSE With(@, p, work[p])]
        /\ \E r : turn_records' = WithRecord(checkpoints, turn_checkpoint, r)
    BY DEF SaveIgnored
  <1>2. DOMAIN turn_records' \subseteq DOMAIN turn_records
    BY <1>1, WithRecordDomain DEF Faithful, Running
  <1>3. past \in Seq(Turn) /\ Len(past) \in Nat
    BY DEF Faithful, Typed, Lists
  <1>4. Len(past') = Len(past)
    BY <1>1, <1>3
  <1>5. ASSUME NEW n \in 1..Len(past)
        PROVE  past'[n].kind = past[n].kind /\ past'[n].start = past[n].start
               /\ past'[n].end = past[n].end
    <2>1. past[n] \in Turn
      BY <1>3
    <2> QED BY <1>1, <1>3, <2>1 DEF Turn
  <1>6. Plain(checkpoints', past', turn_records') /\ Linked(past')
    <2>1. Plain(checkpoints, past, turn_records) /\ Linked(past)
      BY DEF Settled
    <2>2. Plain(checkpoints, past', turn_records') /\ Linked(past')
      BY <1>2, <1>3, <1>4, <1>5, <2>1, SameTurns
    <2>3. checkpoints' = checkpoints
      BY <1>1
    <2> QED BY <2>2, <2>3
  <1> QED BY <1>1, <1>6 DEF Settled

LEMMA EndCalm ==
    ASSUME Faithful, Settled, EndTurn
    PROVE  Settled'
  <1>1. /\ phase' = "idle" /\ UNCHANGED <<work, checkpoints, redo, future>>
        /\ phase \in {"turn", "changing"}
        /\ past' = IF phase = "changing" THEN [past EXCEPT ![Len(past)].end = work] ELSE past
    BY DEF EndTurn
  <1>2. DOMAIN turn_records' \subseteq DOMAIN turn_records
    BY WithRecordDomain DEF EndTurn
  <1>3. past \in Seq(Turn) /\ Len(past) \in Nat /\ checkpoints \in Seq(Commit)
        /\ Len(past) = Len(checkpoints)
    BY DEF Faithful, Typed, Lists
  <1>4. CASE phase = "turn"
    <2>0. past' = past /\ checkpoints' = checkpoints
      BY <1>1, <1>4
    <2>1. Plain(checkpoints', past', turn_records') /\ Linked(past')
      <3>1. Plain(checkpoints, past, turn_records') /\ Linked(past)
        BY <1>2, <1>3, SameTurns DEF Settled
      <3> QED BY <2>0, <3>1
    <2> QED BY <1>1, <1>4, <2>1 DEF Settled
  <1>5. CASE phase = "changing"
    <2>1. past' = [past EXCEPT ![Len(past)].end = work]
      BY <1>1, <1>5
    <2>2. Len(past) > 0
      BY <1>5 DEF Faithful, Typed, Lists
    <2>3. past[Len(past)] \in Turn /\ past[Len(past)].kind = "turn"
      BY <1>3, <1>5, <2>2 DEF Faithful, Running
    <2>4. /\ past'[Len(past)].kind = "turn" /\ past'[Len(past)].end = work
          /\ past'[Len(past)].start = past[Len(past)].start /\ Len(past') = Len(past)
          /\ \A n \in 1..Len(past) : n < Len(past) => past'[n] = past[n]
      BY <1>3, <2>1, <2>2, <2>3 DEF Turn
    <2>5. \A n \in 1..Len(past) : n < Len(past) => checkpoints[n] # checkpoints[Len(past)]
      BY <1>3, <2>2 DEF Faithful, Known, Apart
    <2>6. Plain(checkpoints', past', turn_records') /\ Linked(past')
      <3>1. Len(past) \in Nat \ {0} /\ checkpoints' = checkpoints
        BY <1>1, <1>3, <2>2
      <3>2. /\ DOMAIN turn_records' \subseteq DOMAIN turn_records \cup {checkpoints[Len(past)]}
            /\ Same(past[Len(past)].start, past'[Len(past)].start)
        BY <1>2, <2>4, SameFiles
      <3>3. Plain(checkpoints, past, turn_records) /\ Linked(past)
        BY DEF Settled
      <3>4. Plain(checkpoints, past', turn_records') /\ Linked(past')
        BY <2>4, <2>5, <3>1, <3>2, <3>3, SameButNewest
      <3> QED BY <3>1, <3>4
    <2>7. LeadsTo(past', work')
      BY <1>1, <2>4, SameFiles DEF LeadsTo
    <2> QED BY <1>1, <2>6, <2>7 DEF Settled
  <1> QED BY <1>1, <1>4, <1>5

LEMMA ApartAlone ==
    ASSUME NEW cs, NEW us, Apart(cs, us)
    PROVE  Apart(cs, <<>>)
  <1>1. Len(<<>>) = 0
    BY EmptySeq
  <1> QED BY <1>1 DEF Apart

LEMMA CheckpointCalm ==
    ASSUME Faithful, Faithful', Settled, CheckpointBeforeBuild
    PROVE  Settled'
  <1> DEFINE same == checkpoints # <<>> /\ Last(checkpoints).tree = Snapshot
             start == IF same THEN Last(checkpoints) ELSE [tree |-> Snapshot, at |-> clock']
             fresh == [start |-> work, end |-> work, kind |-> "turn",
                       wrote |-> IF same THEN Last(past).wrote ELSE NothingWritten,
                       turns |-> IF same THEN Last(past).turns + 1 ELSE 1]
  <1>1. /\ phase = "turn" /\ phase' = "changing" /\ work' = work
        /\ checkpoints' = IF same THEN checkpoints
                          ELSE KeepNewest(Append(checkpoints, start), CheckpointCap)
        /\ past' = IF same THEN Append(Front(past), fresh)
                   ELSE KeepNewest(Append(past, fresh), CheckpointCap)
        /\ turn_records' = WithRecord(checkpoints', start, NoRecord)
        /\ redo' = <<>>
    BY DEF CheckpointBeforeBuild
  <1>2. /\ checkpoints \in Seq(Commit) /\ past \in Seq(Turn) /\ Len(past) = Len(checkpoints)
        /\ clock' \in Nat /\ work \in Files /\ Len(past) \in Nat
    BY DEF Faithful, Typed, Lists, Rest
  <1>3. DOMAIN turn_records' \subseteq DOMAIN turn_records \cup {start}
    BY <1>1, WithRecordDomain
  <1>4. Apart(checkpoints', <<>>)
    BY ApartAlone DEF Faithful, Known
  <1>5. fresh.start = work /\ fresh.kind = "turn"
    OBVIOUS
  <1>6. Plain(checkpoints, past, turn_records) /\ Linked(past) /\ LeadsTo(past, work)
    BY <1>1 DEF Settled
  <1>7. Plain(checkpoints', past', turn_records') /\ Linked(past')
    <2>1. CASE ~same
      <3>1. /\ start = [tree |-> Snapshot, at |-> clock']
            /\ checkpoints' = KeepNewest(Append(checkpoints, start), CheckpointCap)
            /\ past' = KeepNewest(Append(past, fresh), CheckpointCap)
        BY <1>1, <2>1
      <3>2. start \in Commit
        BY <1>2, <3>1, CommitType
      <3>3. fresh \in Turn
        <4>1. fresh = [start |-> work, end |-> work, kind |-> "turn",
                       wrote |-> NothingWritten, turns |-> 1]
          BY <2>1
        <4> QED BY <1>2, <4>1, NothingWrittenType DEF Turn, Files
      <3> HIDE DEF start, fresh, same
      <3>4. Same(work, fresh.start)
        BY <1>5, SameFiles
      <3> DEFINE k == KeepNewest(Append(checkpoints, start), CheckpointCap)
                 kt == KeepNewest(Append(past, fresh), CheckpointCap)
      <3>5. Apart(k, <<>>)
        BY <1>4, <3>1
      <3>6. fresh.kind \in {"turn", "revert"}
        BY <1>5
      <3> HIDE DEF start, fresh, same
      <3>7. Plain(k, kt, turn_records') /\ Linked(kt)
        <4>1. Pushed(checkpoints, past, turn_records, work, start, fresh, k, kt, turn_records')
          BY <1>2, <1>3, <1>6, <3>2, <3>3, <3>4, <3>5, <3>6 DEF Pushed
        <4> QED BY <4>1, LinkedPushed
      <3>8. checkpoints' = k /\ past' = kt
        BY <3>1
      <3> HIDE DEF k, kt
      <3> QED BY <3>7, <3>8
    <2>2. CASE same
      <3>1. /\ start = Last(checkpoints) /\ checkpoints' = checkpoints
            /\ past' = Append(Front(past), fresh) /\ checkpoints # <<>> /\ past # <<>>
            /\ Last(checkpoints).tree = Snapshot
        BY <1>1, <1>2, <2>2
      <3> HIDE DEF start, fresh, same
      <3>2. /\ Len(Front(past)) = Len(past) - 1 /\ Len(past) \in Nat \ {0}
            /\ Front(past) \in Seq(Turn)
            /\ \A i \in 1..Len(Front(past)) : Front(past)[i] = past[i]
            /\ Last(checkpoints) = checkpoints[Len(past)]
        BY <1>2, <3>1, FrontType, FrontElements
      <3>3. /\ Len(past') = Len(past) /\ past'[Len(past)] = fresh
            /\ \A n \in 1..Len(past) : n < Len(past) => past'[n] = past[n]
        BY <3>1, <3>2
      <3>4. Same(past[Len(past)].start, past'[Len(past)].start)
        <4>1. AllTold(checkpoints, past, turn_records, FALSE)
          BY <1>1 DEF Faithful, Told
        <4>2. Same(checkpoints[Len(past)].tree, past[Len(past)].start)
          BY <1>2, <3>2, <4>1 DEF AllTold, Tells
        <4>3. Same(past[Len(past)].start, Snapshot) /\ Same(Snapshot, work)
          BY <3>1, <3>2, <4>2, SameFiles
        <4> QED BY <1>5, <3>3, <4>3, SameFiles
      <3>5. \A n \in 1..Len(past) : n < Len(past) => checkpoints[n] # checkpoints[Len(past)]
        BY <1>2, <3>2 DEF Faithful, Known, Apart
      <3>6. DOMAIN turn_records' \subseteq DOMAIN turn_records \cup {checkpoints[Len(past)]}
        BY <1>3, <3>1, <3>2
      <3>7. Plain(checkpoints, past', turn_records') /\ Linked(past')
        BY <1>5, <1>6, <3>2, <3>3, <3>4, <3>5, <3>6, SameButNewest
      <3> QED BY <3>1, <3>7
    <2> QED BY <2>1, <2>2
  <1>8. UndosLinked(redo', future', work')
    <2>1. Len(<<>>) = 0
      BY EmptySeq
    <2> QED BY <1>1, <2>1 DEF UndosLinked
  <1> QED BY <1>1, <1>7, <1>8 DEF Settled

\* Where the search for the turn to undo stops, the files are as that turn
\* left them.
LEMMA ReachedEnds ==
    ASSUME Faithful, Settled, phase = "idle", NEW n \in 1..Len(checkpoints), Reached(n)
    PROVE  Same(past[n].end, work)
  <1>1. /\ checkpoints \in Seq(Commit) /\ past \in Seq(Turn) /\ Len(past) = Len(checkpoints)
    BY DEF Faithful, Typed, Lists
  <1>2. CASE n = Len(checkpoints)
    BY <1>1, <1>2 DEF Settled, LeadsTo
  <1>3. CASE n < Len(checkpoints)
    <2>1. n + 1 \in n+1 .. Len(checkpoints) /\ n + 1 \in 1..Len(checkpoints)
      BY <1>1, <1>3
    <2>2. checkpoints[n + 1].tree = Snapshot
      BY <2>1 DEF Reached, Passed
    <2>3. AllTold(checkpoints, past, turn_records, FALSE)
      BY DEF Faithful, Told
    <2>4. Same(Snapshot, past[n + 1].start)
      BY <2>1, <2>2, <2>3 DEF AllTold, Tells
    <2>5. Same(past[n].end, past[n + 1].start)
      BY <1>1, <1>3 DEF Settled, Linked
    <2>6. Same(past[n].end, Snapshot) /\ Same(Snapshot, work)
      BY <2>4, <2>5, SameFiles
    <2> QED BY <2>6, SameFiles
  <1> QED BY <1>1, <1>2, <1>3

\* ... and that turn is none that failed: it has an end on record.
LEMMA ReachedRan ==
    ASSUME Faithful, Settled, phase = "idle", NEW n \in 1..Len(checkpoints), Reached(n)
    PROVE  past[n].kind \in {"turn", "revert"}
  <1>1. /\ checkpoints \in Seq(Commit) /\ past \in Seq(Turn) /\ Len(past) = Len(checkpoints)
        /\ checkpoints[n].tree \in Tree /\ work \in Files
    <2>1. checkpoints[n] \in Commit
      BY DEF Faithful, Typed, Lists
    <2>2. checkpoints[n].tree \in Tree
      BY <2>1 DEF Commit
    <2> QED BY <2>2 DEF Faithful, Typed, Lists
  <1>2. SUFFICES ASSUME past[n].kind = "failed", checkpoints[n] \notin DOMAIN turn_records,
                        Same(past[n].start, past[n].end)
                 PROVE  FALSE
    BY <1>1 DEF Settled, Plain
  <1>3. Record(checkpoints[n]).ignored = NothingSaved
    BY <1>2 DEF Record, NoRecord
  <1>4. AllTold(checkpoints, past, turn_records, FALSE)
    BY DEF Faithful, Told
  <1>5. Same(checkpoints[n].tree, past[n].start)
    BY <1>4 DEF AllTold, Tells
  <1>6. Same(past[n].end, work)
    BY ReachedEnds
  <1>7. Same(checkpoints[n].tree, past[n].end) /\ Same(work, Snapshot)
    BY <1>2, <1>5, SameFiles
  <1>8. Same(checkpoints[n].tree, Snapshot)
    <2>1. Same(checkpoints[n].tree, work)
      BY <1>6, <1>7, SameFiles
    <2> QED BY <1>7, <2>1, SameFiles
  <1>9. Snapshot \in Tree
    BY <1>1, SnapshotType
  <1>10. checkpoints[n].tree = Snapshot
    BY <1>1, <1>8, <1>9 DEF Same, Tree
  <1> QED BY <1>1, <1>3, <1>10 DEF Reached, Passed

LEMMA UndoLooksCalm ==
    ASSUME Faithful, Settled, UndoNothing \/ UndoRefused
    PROVE  Settled'
  <1>1. /\ UNCHANGED <<work, turn_records, redo, future>>
        /\ phase = "idle" /\ phase' = "idle"
    BY DEF UndoNothing, UndoRefused
  <1>2. /\ checkpoints \in Seq(Commit) /\ past \in Seq(Turn) /\ Len(past) = Len(checkpoints)
    BY DEF Faithful, Typed, Lists
  <1>3. UndosLinked(redo', future', work')
    BY <1>1 DEF Settled
  <1>4. CASE UndoNothing
    <2>1. past' = <<>> /\ Len(<<>>) = 0
      BY <1>4, EmptySeq DEF UndoNothing
    <2> QED BY <1>3, <2>1 DEF Settled, Plain, Linked, LeadsTo
  <1>5. CASE UndoRefused
    <2>1. PICK n \in 1..Len(checkpoints) :
            /\ Reached(n) /\ checkpoints' = SubSeq(checkpoints, 1, n) /\ past' = SubSeq(past, 1, n)
      BY <1>5 DEF UndoRefused
    <2>2. n \in 0..Len(checkpoints) /\ n > 0
      OBVIOUS
    <2>3. /\ Plain(checkpoints', past', turn_records) /\ Linked(past')
          /\ Len(past') = n /\ past'[n] = past[n]
      BY <1>2, <2>1, <2>2, LinkedPrefix DEF Settled
    <2>4. Same(past[n].end, work)
      BY <1>1, <2>1, ReachedEnds
    <2>5. LeadsTo(past', work')
      BY <1>1, <2>3, <2>4 DEF LeadsTo
    <2> QED BY <1>1, <1>3, <2>3, <2>5 DEF Settled
  <1> QED BY <1>4, <1>5

LEMMA UndoDoneCalm ==
    ASSUME Faithful, Settled, NEW force \in BOOLEAN, UndoDone(force)
    PROVE  Settled'
  <1>1. PICK n \in 1..Len(checkpoints) :
          LET c == checkpoints[n] IN
          /\ Reached(n)
          /\ work' = UndoneFiles(c)
          /\ checkpoints' = SubSeq(checkpoints, 1, n - 1)
          /\ redo' = KeepNewest(Append(redo, UndoneEntry(c, [p \in Tracked |-> work'[p]])), RedoCap)
          /\ past' = SubSeq(past, 1, n - 1)
          /\ future' = KeepNewest(Append(future,
                         [before |-> work, after |-> work', turn |-> past[n]]), RedoCap)
    BY DEF UndoDone, UndoneEntry
  <1> DEFINE c == checkpoints[n]
             r == UndoneEntry(c, [p \in Tracked |-> work'[p]])
             u == [before |-> work, after |-> work', turn |-> past[n]]
             m == n - 1
  <1>2. /\ phase = "idle" /\ phase' = "idle" /\ turn_records' = turn_records
    BY DEF UndoDone
  <1>3. /\ checkpoints \in Seq(Commit) /\ past \in Seq(Turn) /\ Len(past) = Len(checkpoints)
        /\ redo \in Seq(Redo) /\ future \in Seq(Undo) /\ Len(future) = Len(redo) /\ c \in Commit
    BY DEF Faithful, Typed, Lists, Undos
  <1>4. Same(past[n].end, work) /\ past[n].kind \in {"turn", "revert"}
    BY <1>1, <1>2, ReachedEnds, ReachedRan
  <1>5. /\ Same(c.tree, past[n].start) /\ TurnPaths(c) = Moved(past[n])
    <2>1. AllTold(checkpoints, past, turn_records, FALSE)
      BY <1>2 DEF Faithful, Told
    <2>2. Tells(c, past[n], Record(c)) /\ TellsEnd(Record(c), past[n])
      BY <2>1, RecordIsIn DEF AllTold
    <2>3. Recorded(past[n])
      BY <1>4 DEF Recorded
    <2> HIDE DEF c
    <2> QED BY <2>2, <2>3, PathsAreMoved DEF Tells
  <1>6. Same(past[n].start, work')
    <2>1. \A p \in Tracked : work'[p] = IF p \in TurnPaths(c) THEN c.tree[p] ELSE work[p]
      BY <1>1, <1>3, UndoneEach DEF Faithful
    <2> HIDE DEF c
    <2> QED BY <1>4, <1>5, <2>1 DEF Same, Moved
  <1>7. r \in Redo /\ u \in Undo
    BY <1>1, <1>2, UndoReverses
  <1>8. UndosLinked(redo', future', work')
    <2>1. /\ r.files = Snapshot /\ r.undone = [p \in Tracked |-> work'[p]] /\ u.turn = past[n]
      BY DEF UndoneEntry
    <2>2. /\ redo' = KeepNewest(Append(redo, r), RedoCap)
          /\ future' = KeepNewest(Append(future, u), RedoCap)
      BY <1>1
    <2> HIDE DEF r, u, c
    <2>3. Same(work, r.files) /\ Same(r.files, work)
      BY <2>1, SameFiles
    <2>4. Same(r.undone, work')
      BY <2>1 DEF Same
    <2>5. Same(r.files, u.turn.end)
      BY <1>4, <2>1, <2>3, SameFiles
    <2>6. Same(r.undone, u.turn.start)
      BY <1>6, <2>1, <2>4, SameFiles
    <2>7. u.turn.kind \in {"turn", "revert"}
      BY <1>4, <2>1
    <2>8. UndosLinked(redo, future, work)
      BY DEF Settled
    <2>9. UndosLinked(KeepNewest(Append(redo, r), RedoCap), KeepNewest(Append(future, u), RedoCap), work')
      BY <1>3, <1>7, <2>3, <2>4, <2>5, <2>6, <2>7, <2>8, UndosPushed
    <2> QED BY <2>2, <2>9
  <1>9. m \in 0..Len(checkpoints) /\ m + 1 = n
    BY <1>3
  <1>10. checkpoints' = SubSeq(checkpoints, 1, m) /\ past' = SubSeq(past, 1, m)
    BY <1>1
  <1> HIDE DEF m, c, r, u
  <1>11. /\ Plain(checkpoints', past', turn_records) /\ Linked(past')
         /\ Len(past') = m
         /\ m > 0 => past'[m] = past[m]
    BY <1>3, <1>9, <1>10, LinkedPrefix DEF Settled
  <1>12. LeadsTo(past', work')
    <2> SUFFICES ASSUME m > 0 PROVE Same(past'[m].end, work')
      BY <1>11 DEF LeadsTo
    <2>1. m \in 1..Len(past) /\ m < Len(past)
      BY <1>3, <1>9
    <2>2. Same(past[m].end, past[n].start)
      BY <1>9, <2>1 DEF Settled, Linked
    <2> QED BY <1>6, <1>11, <2>2, SameFiles
  <1> QED BY <1>2, <1>8, <1>11, <1>12 DEF Settled

LEMMA RedoDoneCalm ==
    ASSUME Faithful, Faithful', Settled, NEW force \in BOOLEAN, RedoDone(force)
    PROVE  Settled'
  <1> DEFINE r == Last(redo)
             u == Last(future)
             k == KeepNewest(Append(checkpoints, r.checkpoint), CheckpointCap)
             kt == KeepNewest(Append(past, u.turn), CheckpointCap)
  <1>1. /\ redo # <<>> /\ phase = "idle" /\ phase' = "idle"
        /\ work' = RedoneFiles(r)
        /\ redo' = Front(redo) /\ future' = Front(future)
        /\ checkpoints' = k /\ past' = kt
        /\ turn_records' = WithRecord(checkpoints', r.checkpoint, r.record)
    BY DEF RedoDone
  <1>2. /\ checkpoints \in Seq(Commit) /\ past \in Seq(Turn) /\ Len(past) = Len(checkpoints)
        /\ redo \in Seq(Redo) /\ future \in Seq(Undo) /\ Len(future) = Len(redo)
    BY DEF Faithful, Typed, Lists, Undos
  <1>3. Reverses(r, u) /\ r = redo[Len(redo)] /\ u = future[Len(redo)] /\ Len(redo) \in Nat \ {0}
    <2>1. future # <<>>
      BY <1>1, <1>2
    <2> QED BY <1>1, <1>2, <2>1, FrontElements, ReverseFront DEF Faithful, Known
  <1>4. r \in Redo /\ u \in Undo
    BY <1>2, <1>3
  <1>5. r.checkpoint \in Commit /\ u.turn \in Turn
    BY <1>4 DEF Redo, Undo
  <1>6. UndosLinked(redo, future, work)
    BY DEF Settled
  <1> HIDE DEF r, u
  <1>7. /\ Same(r.files, u.turn.end) /\ Same(r.undone, u.turn.start)
        /\ u.turn.kind \in {"turn", "revert"} /\ Same(r.undone, work)
    BY <1>3, <1>6 DEF UndosLinked
  <1>8. Same(work', r.files)
    <2>1. \A p \in Tracked : work'[p] = IF p \in r.paths THEN r.files[p] ELSE work[p]
      BY <1>1, <1>4, RedoneEach
    <2>2. ASSUME NEW p \in Tracked \ r.paths PROVE work[p] = r.files[p]
      BY <1>3, <1>7 DEF Reverses, Same
    <2> QED BY <2>1, <2>2 DEF Same
  <1>9. Plain(k, kt, turn_records') /\ Linked(kt) /\ Len(kt) > 0 /\ kt[Len(kt)] = u.turn
    <2>1. Plain(checkpoints, past, turn_records) /\ Linked(past) /\ LeadsTo(past, work)
      BY <1>1 DEF Settled
    <2>2. Apart(k, <<>>)
      <3>1. Apart(checkpoints', redo')
        BY DEF Faithful, Known
      <3> QED BY <1>1, <3>1, ApartAlone
    <2>3. DOMAIN turn_records' \subseteq DOMAIN turn_records \cup {r.checkpoint}
      BY <1>1, WithRecordDomain
    <2>4. Same(work, u.turn.start)
      BY <1>7, SameFiles
    <2>5. u.turn.kind \in {"turn", "revert"}
      BY <1>7
    <2>6. Pushed(checkpoints, past, turn_records, work, r.checkpoint, u.turn, k, kt, turn_records')
      BY <1>2, <1>5, <2>1, <2>2, <2>3, <2>4, <2>5 DEF Pushed
    <2> QED BY <2>6, LinkedPushed
  <1>10. checkpoints' = k /\ past' = kt
    BY <1>1
  <1> HIDE DEF k, kt
  <1>11. LeadsTo(kt, work')
    <2>1. Same(u.turn.end, work')
      BY <1>7, <1>8, SameFiles
    <2> QED BY <1>9, <2>1 DEF LeadsTo
  <1>12. UndosLinked(redo', future', work')
    <2>1. Same(Last(redo).files, work')
      BY <1>8, SameFiles DEF r
    <2>2. UndosLinked(Front(redo), Front(future), work')
      BY <1>1, <1>2, <1>6, <2>1, UndosFront
    <2> QED BY <1>1, <2>2
  <1>13. Plain(checkpoints', past', turn_records') /\ Linked(past') /\ LeadsTo(past', work')
    BY <1>9, <1>10, <1>11
  <1> QED BY <1>12, <1>13 DEF Settled

LEMMA RevertCalm ==
    ASSUME Faithful, Faithful', ClockMoves, Settled,
           RevertFails \/ \E p \in Tracked, x \in File : Revert(p, x)
    PROVE  Settled'
  <1> DEFINE c == [tree |-> Snapshot, at |-> clock']
             k == KeepNewest(Append(checkpoints, c), CheckpointCap)
  <1>1. /\ phase = "idle" /\ phase' = "idle" /\ checkpoints' = k
        /\ \E dt \in Seconds : clock' = clock + dt
    BY DEF Revert, RevertFails, RevertCheckpoint
  <1>2. /\ checkpoints \in Seq(Commit) /\ past \in Seq(Turn) /\ Len(past) = Len(checkpoints)
        /\ clock \in Nat /\ clock' \in Nat /\ work \in Files /\ work' \in Files
    BY DEF Faithful, Typed, Lists, Rest
  <1>3. c \in Commit /\ c.at > clock
    BY <1>1, <1>2, ClockMovesOn, CommitType
  <1>4. Plain(checkpoints, past, turn_records) /\ Linked(past) /\ LeadsTo(past, work)
    BY <1>1 DEF Settled
  <1> HIDE DEF c
  <1>5. Apart(k, <<>>)
    <2>1. Apart(checkpoints', redo')
      BY DEF Faithful, Known
    <2> QED BY <1>1, <2>1, ApartAlone
  <1>6. c \notin DOMAIN turn_records
    BY <1>2, <1>3, LaterIsNew DEF Faithful, Known
  <1>7. CASE RevertFails
    <2> DEFINE t == [start |-> work, end |-> work, kind |-> "failed",
                     wrote |-> NothingWritten, turns |-> 1]
               kt == KeepNewest(Append(past, t), CheckpointCap)
    <2>1. t \in Turn
      BY <1>2, NothingWrittenType DEF Turn, Files
    <2>2. t.start = work /\ t.end = work /\ t.kind = "failed"
      OBVIOUS
    <2>3. past' = kt /\ work' = work /\ turn_records' = turn_records /\ redo' = redo /\ future' = future
      BY <1>7 DEF RevertFails
    <2> HIDE DEF t
    <2>4. Plain(k, kt, turn_records) /\ Linked(kt) /\ Len(kt) > 0 /\ kt[Len(kt)] = t
      <3>1. Same(work, t.start) /\ Same(t.start, t.end)
        BY <2>2, SameFiles
      <3>2. DOMAIN turn_records \subseteq DOMAIN turn_records \cup {c}
        OBVIOUS
      <3>3. Pushed(checkpoints, past, turn_records, work, c, t, k, kt, turn_records)
        BY <1>2, <1>3, <1>4, <1>5, <1>6, <2>1, <2>2, <3>1, <3>2 DEF Pushed
      <3> QED BY <3>3, LinkedPushed
    <2> HIDE DEF k, kt
    <2>5. LeadsTo(kt, work)
      BY <2>2, <2>4, SameFiles DEF LeadsTo
    <2>6. Plain(checkpoints', past', turn_records') /\ Linked(past') /\ LeadsTo(past', work')
      BY <1>1, <2>3, <2>4, <2>5
    <2>7. UndosLinked(redo', future', work')
      BY <2>3 DEF Settled
    <2> QED BY <2>6, <2>7 DEF Settled
  <1>8. CASE \E p \in Tracked, x \in File : Revert(p, x)
    <2> DEFINE t == [start |-> work, end |-> work', kind |-> "revert",
                     wrote |-> NothingWritten, turns |-> 1]
               kt == KeepNewest(Append(past, t), CheckpointCap)
    <2>1. t \in Turn
      BY <1>2, NothingWrittenType DEF Turn, Files
    <2>2. t.start = work /\ t.end = work' /\ t.kind = "revert"
      OBVIOUS
    <2>3. /\ past' = kt /\ redo' = <<>>
          /\ \E r : turn_records' = WithRecord(checkpoints', c, r)
      BY <1>8 DEF Revert, c
    <2> HIDE DEF t
    <2>4. Plain(k, kt, turn_records') /\ Linked(kt) /\ Len(kt) > 0 /\ kt[Len(kt)] = t
      <3>1. Same(work, t.start)
        BY <2>2, SameFiles
      <3>2. DOMAIN turn_records' \subseteq DOMAIN turn_records \cup {c}
        BY <2>3, WithRecordDomain
      <3>3. t.kind \in {"turn", "revert"}
        BY <2>2
      <3>4. Pushed(checkpoints, past, turn_records, work, c, t, k, kt, turn_records')
        BY <1>2, <1>3, <1>4, <1>5, <2>1, <3>1, <3>2, <3>3 DEF Pushed
      <3> QED BY <3>4, LinkedPushed
    <2> HIDE DEF k, kt
    <2>5. LeadsTo(kt, work')
      BY <2>2, <2>4, SameFiles DEF LeadsTo
    <2>6. Plain(checkpoints', past', turn_records') /\ Linked(past') /\ LeadsTo(past', work')
      BY <1>1, <2>3, <2>4, <2>5
    <2>7. UndosLinked(redo', future', work')
      <3>1. Len(<<>>) = 0
        BY EmptySeq
      <3> QED BY <2>3, <3>1 DEF UndosLinked
    <2> QED BY <2>6, <2>7 DEF Settled
  <1> QED BY <1>7, <1>8

LEMMA InitCalm == Init => Calm
  <1> SUFFICES ASSUME Init PROVE Settled
    BY DEF Calm
  <1>1. past = <<>> /\ redo = <<>> /\ Len(<<>>) = 0
    BY EmptySeq DEF Init
  <1> QED BY <1>1 DEF Settled, Plain, Linked, LeadsTo, UndosLinked

LEMMA NextCalm ==
    ASSUME ClockMoves, Faithful, Faithful', Calm, [Next]_vars
    PROVE  Calm'
  <1> SUFFICES ASSUME Quiet' PROVE Settled'
    BY DEF Calm
  <1>1. /\ count \in [Events -> Nat] /\ "unkept" \in Events
        /\ {"turn", "edit", "revert", "failed revert", "audit", "crash"} \subseteq Events
    BY DEF Faithful, Typed, Rest, Events
  <1>2. Running
    BY DEF Faithful
  <1>3. CASE BeginTurn
    <2>1. Settled
      BY <1>1, <1>3, SpendQuiet DEF BeginTurn, Calm
    <2> QED BY <1>2, <1>3, <2>1, WriteCalm DEF BeginTurn, meta, history
  <1>4. CASE Crash
    BY <1>1, <1>4, SpendQuiet DEF Crash
  <1>5. CASE \E p \in Paths, x \in File : UserEdit(p, x)
    BY <1>1, <1>5, SpendQuiet DEF UserEdit
  <1>16. CASE \E p \in Paths, x \in File : WriteUnkept(p, x)
    BY <1>1, <1>16, SpendQuiet DEF WriteUnkept
  <1>6. CASE \E left \in Tree : AuditRolledBack(left)
    BY <1>1, <1>6, SpendQuiet DEF AuditRolledBack
  <1>7. CASE RevertFails \/ \E p \in Tracked, x \in File : Revert(p, x)
    <2>1. Settled
      BY <1>1, <1>7, SpendQuiet DEF Revert, RevertFails, Calm
    <2> QED BY <1>7, <2>1, RevertCalm
  <1>8. CASE RedoRefused \/ UNCHANGED vars
    <2>1. Settled
      BY <1>8 DEF RedoRefused, vars, Calm, Quiet
    <2> QED BY <1>2, <1>8, <2>1, WriteCalm DEF RedoRefused, meta, history, vars
  <1>9. CASE \/ \E p \in Tracked, x \in File : ToolWrite(p, x)
             \/ \E p \in Ignored, x \in File : WriteIgnored(p, x)
    <2>1. Settled
      BY <1>9 DEF ToolWrite, WriteIgnored, Calm, Quiet
    <2> QED BY <1>2, <1>9, <2>1, WriteCalm DEF ToolWrite, WriteIgnored, meta, history
  <1>10. CASE CheckpointBeforeBuild
    <2>1. Settled
      BY <1>10 DEF CheckpointBeforeBuild, Calm, Quiet
    <2> QED BY <1>10, <2>1, CheckpointCalm
  <1>11. CASE \E p \in Ignored : SaveIgnored(p)
    <2>1. Settled
      BY <1>11 DEF SaveIgnored, Calm, Quiet
    <2> QED BY <1>11, <2>1, SaveIgnoredCalm
  <1>12. CASE EndTurn
    <2>1. Settled
      BY <1>12 DEF EndTurn, Calm, Quiet
    <2> QED BY <1>12, <2>1, EndCalm
  <1>13. CASE UndoNothing \/ UndoRefused
    <2>1. Settled
      BY <1>13 DEF UndoNothing, UndoRefused, Calm, Quiet
    <2> QED BY <1>13, <2>1, UndoLooksCalm
  <1>14. CASE \E force \in BOOLEAN : UndoDone(force)
    <2>1. Settled
      BY <1>14 DEF UndoDone, Calm, Quiet
    <2> QED BY <1>14, <2>1, UndoDoneCalm
  <1>15. CASE \E force \in BOOLEAN : RedoDone(force)
    <2>1. Settled
      BY <1>15 DEF RedoDone, Calm, Quiet
    <2> QED BY <1>15, <2>1, RedoDoneCalm
  <1> QED BY <1>3, <1>4, <1>5, <1>6, <1>7, <1>8, <1>9, <1>10, <1>11, <1>12, <1>13, <1>14, <1>15,
               <1>16 DEF Next

\* Where the user edited nothing, no turn was cut short, no audit was rolled
\* back and no call wrote a file without a checkpoint (would_change), no undo
\* and no redo is refused over a tracked file, however many turns, reverts,
\* undos and redos there were and in whatever order (agent.rs, undo_with and
\* redo_with).  Without the last of those it would be false.
THEOREM NothingRefusedFalsely ==
    ASSUME ClockMoves
    PROVE  Spec => []NoFalseRefusal
  <1> DEFINE Inv == Faithful /\ Calm
  <1>1. Init => Inv
    BY InitFaithful, InitCalm
  <1>2. Inv /\ [Next]_vars => Inv'
    BY NextFaithful, NextCalm
  <1>3. Inv => NoFalseRefusal
    <2> SUFFICES ASSUME Faithful, Settled, phase = "idle"
                 PROVE  /\ \A n \in 1..Len(checkpoints) :
                              Reached(n) => Clash(checkpoints[n]) \cap Tracked = {}
                        /\ redo # <<>> => RedoClash(Last(redo)) \cap Tracked = {}
      BY DEF Calm, Quiet, NoFalseRefusal
    <2>1. checkpoints \in Seq(Commit) /\ redo \in Seq(Redo) /\ future \in Seq(Undo)
          /\ Len(future) = Len(redo)
      BY DEF Faithful, Typed, Lists, Undos
    <2>2. ASSUME NEW n \in 1..Len(checkpoints), Reached(n)
          PROVE  Clash(checkpoints[n]) \cap Tracked = {}
      <3> DEFINE c == checkpoints[n]
      <3>1. c \in Commit
        BY <2>1
      <3>2. DOMAIN Record(c).ignored \cap Tracked = {}
        BY <3>1, UndoneEach, ConstantsType DEF Faithful
      <3>3. Same(past[n].end, work) /\ past[n].kind \in {"turn", "revert"}
        BY <2>2, ReachedEnds, ReachedRan
      <3>4. AllTold(checkpoints, past, turn_records, FALSE)
        BY DEF Faithful, Told
      <3>5. Tells(c, past[n], Record(c)) /\ TellsEnd(Record(c), past[n])
        BY <3>4, RecordIsIn DEF AllTold
      <3>6. Recorded(past[n])
        BY <3>3 DEF Recorded
      <3> HIDE DEF c
      <3>7. Same(End(c), past[n].end)
        BY <3>5, <3>6, PathsAreMoved
      <3>8. Same(End(c), Snapshot)
        BY <3>3, <3>7, SameFiles
      <3>9. Clash(c) \cap Tracked = {}
        BY <3>2, <3>8 DEF Clash, Between, Same
      <3> QED BY <3>9 DEF c
    <2>3. ASSUME redo # <<>>
          PROVE  RedoClash(Last(redo)) \cap Tracked = {}
      <3> DEFINE r == Last(redo)
      <3>1. r = redo[Len(redo)] /\ Len(redo) \in Nat \ {0}
        BY <2>1, <2>3, FrontElements
      <3>2. r \in Redo
        BY <2>1, <3>1
      <3> HIDE DEF r
      <3>3. Same(r.undone, Snapshot)
        <4>1. Same(r.undone, work)
          BY <3>1 DEF Settled, UndosLinked
        <4> QED BY <4>1, SameFiles
      <3>4. DOMAIN r.ignored \cap Tracked = {}
        BY <3>2, ConstantsType DEF Redo, SavedFiles
      <3>5. RedoClash(r) \cap Tracked = {}
        BY <3>3, <3>4 DEF RedoClash, Between, Same
      <3> QED BY <3>5 DEF r
    <2> QED BY <2>2, <2>3
  <1> QED BY <1>1, <1>2, <1>3, PTL DEF Spec

-----------------------------------------------------------------------------
(* TurnUndo implements TurnHistory, where no turn is cut short and no      *)
(* revert fails half way: a step of the session is a step of the history.  *)

NothingFails == Others \subseteq {"unkept", "revert", "audit"}

\* Every turn's end is known, and a turn that is open has a checkpoint.
Complete ==
    /\ phase = "changing" => checkpoints # <<>>
    /\ \A n \in 1..Len(past) : Recorded(past[n])
    /\ \A i \in 1..Len(future) : Recorded(future[i].turn)

\* A turn whose end is on record, and an undo of one, whatever the files are.
Turned(c, r) == [start |-> c.tree, end |-> r.after]
UndoneBy(u) == [before |-> u.files, after |-> u.undone, paths |-> u.paths,
                turn |-> Turned(u.checkpoint, u.record)]
DoneOf(cs, rs) == [n \in 1..Len(cs) |-> Turned(cs[n], RecordIn(rs, cs[n]))]
UndosOf(us) == [n \in 1..Len(us) |-> UndoneBy(us[n])]
StillOpen(c) == [start |-> c.tree, end |-> Snapshot]

\* What the history is: but for the turn that is open, what is on record.
Mapped ==
    /\ Undone = UndosOf(redo)
    /\ phase # "changing" => Done = DoneOf(checkpoints, turn_records)
    /\ phase = "changing" =>
         /\ Len(checkpoints) > 0 /\ redo = <<>>
         /\ Done = [n \in 1..Len(checkpoints) |->
                      IF n = Len(checkpoints) THEN StillOpen(checkpoints[n])
                      ELSE Turned(checkpoints[n], RecordIn(turn_records, checkpoints[n]))]

LEMMA MappedHolds == Faithful /\ Complete => Mapped
  <1> SUFFICES ASSUME Faithful, Complete PROVE Mapped
    OBVIOUS
  <1>1. /\ checkpoints \in Seq(Commit) /\ past \in Seq(Turn) /\ Len(past) = Len(checkpoints)
        /\ redo \in Seq(Redo) /\ future \in Seq(Undo) /\ Len(future) = Len(redo)
        /\ Len(checkpoints) \in Nat
    BY DEF Faithful, Typed, Lists, Undos
  <1>2. Undone = UndosOf(redo)
    <2>1. \A i \in 1..Len(redo) : redo[i].record.after # None
      BY <1>1 DEF Complete, Faithful, Known, AllReverse, Reverses, TellsEnd
    <2> QED BY <2>1 DEF Undone, UndosOf, UndoneBy, TurnOf, Turned
  <1>3. \A n \in 1..Len(checkpoints) :
           (phase = "changing" => n < Len(checkpoints)) =>
               RecordIn(turn_records, checkpoints[n]).after # None
    <2>1. \A n \in 1..Len(checkpoints) : Recorded(past[n])
      BY <1>1 DEF Complete
    <2> QED BY <2>1 DEF Faithful, Told, AllTold, TellsEnd
  <1>4. phase # "changing" => Done = DoneOf(checkpoints, turn_records)
    BY <1>3, RecordIsIn DEF Done, DoneOf, TurnOf, Turned
  <1>5. ASSUME phase = "changing"
        PROVE  /\ Len(checkpoints) > 0 /\ redo = <<>>
               /\ Done = [n \in 1..Len(checkpoints) |->
                            IF n = Len(checkpoints) THEN StillOpen(checkpoints[n])
                            ELSE Turned(checkpoints[n], RecordIn(turn_records, checkpoints[n]))]
    <2>1. redo = <<>> /\ turn_checkpoint = checkpoints[Len(checkpoints)]
          /\ RecordIn(turn_records, turn_checkpoint).after = None
      BY <1>5 DEF Faithful, Running
    <2>2. Len(checkpoints) > 0
      BY <1>1, <1>5, EmptySeq DEF Complete
    <2>3. \A n \in 1..Len(checkpoints) : n # Len(checkpoints) => n < Len(checkpoints)
      BY <1>1
    <2> QED BY <1>3, <1>5, <2>1, <2>2, <2>3, RecordIsIn DEF Done, TurnOf, Turned, StillOpen
  <1> QED BY <1>2, <1>4, <1>5 DEF Mapped

\* A list grown by one and cut at the front is a tail of the list grown by one.
Grown(k, l, a, m, e, d) ==
    /\ m \in Nat /\ l \in Nat /\ d \in 0..m /\ l = m + 1 - d
    /\ a = [i \in 1..m |-> a[i]] /\ k = [i \in 1..l |-> k[i]]
    /\ k[l] = e /\ \A i \in 1..l : i < l => k[i] = a[i + d]

LEMMA GrownIsTail ==
    ASSUME NEW k, NEW l, NEW a, NEW m, NEW e, NEW d, Grown(k, l, a, m, e, d)
    PROVE  History!IsTailOf(k, Append(a, e)) /\ k # <<>>
  <1>0. /\ m \in Nat /\ l \in Nat /\ d \in 0..m /\ l = m + 1 - d
        /\ a = [i \in 1..m |-> a[i]] /\ k = [i \in 1..l |-> k[i]]
        /\ k[l] = e /\ \A i \in 1..l : i < l => k[i] = a[i + d]
    BY DEF Grown
  <1> DEFINE S == {a[i] : i \in 1..m} \cup {e}
             b == Append(a, e)
  <1>1. a \in Seq(S) /\ Len(a) = m
    <2>1. a \in [1..m -> S]
      BY <1>0
    <2> QED BY <1>0, <2>1
  <1>2. /\ b \in Seq(S) /\ Len(b) = m + 1 /\ b[m + 1] = e
        /\ \A i \in 1..m : b[i] = a[i]
    BY <1>0, <1>1
  <1> HIDE DEF b, S
  <1>3. /\ SubSeq(b, d + 1, Len(b)) \in Seq(S) /\ Len(SubSeq(b, d + 1, Len(b))) = l
        /\ \A i \in 1..l : SubSeq(b, d + 1, Len(b))[i] = b[i + d]
    BY <1>0, <1>2
  <1>4. \A i \in 1..l : b[i + d] = k[i]
    <2> SUFFICES ASSUME NEW i \in 1..l PROVE b[i + d] = k[i]
      OBVIOUS
    <2>1. CASE i = l
      BY <1>0, <1>2, <2>1
    <2>2. CASE i < l
      <3>1. i + d \in 1..m
        BY <1>0, <2>2
      <3> QED BY <1>0, <1>2, <2>2, <3>1
    <2> QED BY <1>0, <2>1, <2>2
  <1>5. SubSeq(b, d + 1, Len(b)) = k
    <2> DEFINE t == SubSeq(b, d + 1, Len(b))
    <2>1. t \in Seq(S) /\ Len(t) = l /\ \A i \in 1..l : t[i] = k[i]
      BY <1>3, <1>4
    <2> HIDE DEF t
    <2>2. t = [i \in 1..l |-> t[i]]
      BY <2>1
    <2>3. t = k
      BY <1>0, <2>1, <2>2
    <2> QED BY <2>3 DEF t
  <1>6. d + 1 \in 1 .. Len(b) + 1
    BY <1>0, <1>2
  <1>7. k # <<>>
    <2>1. l \in Nat \ {0} /\ Len(k) = l
      BY <1>0, <1>3, <1>5
    <2> QED BY <2>1, EmptySeq
  <1> QED BY <1>5, <1>6, <1>7 DEF History!IsTailOf, b

LEMMA OnlyTheOthers ==
    ASSUME NothingFails
    PROVE  ~Spend("crash") /\ ~Spend("failed revert")
  <1>1. "crash" \notin Others /\ "failed revert" \notin Others
    BY DEF NothingFails
  <1> QED BY <1>1 DEF Spend, Room

LEMMA RanPushed ==
    ASSUME NEW ts \in Seq(Turn), \A n \in 1..Len(ts) : Recorded(ts[n]), NEW t \in Turn, Recorded(t),
           NEW k, k = KeepNewest(Append(ts, t), CheckpointCap)
    PROVE  \A n \in 1..Len(k) : Recorded(k[n])
  <1> DEFINE d == Dropped(ts, CheckpointCap)
  <1>1. Shifted(k, ts, t, d)
    BY KeptElements, ConstantsType
  <1>2. /\ Len(k) \in Nat
        /\ \A i \in 1..Len(k) : /\ i = Len(k) => k[i] = t
                                /\ i < Len(k) => i + d \in 1..Len(ts) /\ k[i] = ts[i + d]
    BY <1>1 DEF Shifted
  <1> HIDE DEF d
  <1>3. \A i \in 1..Len(k) : i = Len(k) \/ i < Len(k)
    BY <1>2
  <1> QED BY <1>2, <1>3

LEMMA UndosRanPushed ==
    ASSUME NEW fs \in Seq(Undo), \A n \in 1..Len(fs) : Recorded(fs[n].turn),
           NEW u \in Undo, Recorded(u.turn),
           NEW k, k = KeepNewest(Append(fs, u), RedoCap)
    PROVE  \A n \in 1..Len(k) : Recorded(k[n].turn)
  <1> DEFINE d == Dropped(fs, RedoCap)
  <1>1. Shifted(k, fs, u, d)
    BY KeptElements, ConstantsType
  <1>2. /\ Len(k) \in Nat
        /\ \A i \in 1..Len(k) : /\ i = Len(k) => k[i] = u
                                /\ i < Len(k) => i + d \in 1..Len(fs) /\ k[i] = fs[i + d]
    BY <1>1 DEF Shifted
  <1> HIDE DEF d
  <1>3. \A i \in 1..Len(k) : i = Len(k) \/ i < Len(k)
    BY <1>2
  <1> QED BY <1>2, <1>3

LEMMA PrefixRan ==
    ASSUME NEW ts \in Seq(Turn), \A n \in 1..Len(ts) : Recorded(ts[n]), NEW m \in 0..Len(ts)
    PROVE  \A n \in 1..Len(SubSeq(ts, 1, m)) : Recorded(SubSeq(ts, 1, m)[n])
  <1>1. /\ Len(SubSeq(ts, 1, m)) = m
        /\ \A n \in 1..m : n \in 1..Len(ts) /\ SubSeq(ts, 1, m)[n] = ts[n]
    OBVIOUS
  <1> QED BY <1>1

LEMMA CompleteStays ==
    ASSUME NothingFails, Typed, Complete, [Next]_vars
    PROVE  Complete'
  <1>0. /\ checkpoints \in Seq(Commit) /\ past \in Seq(Turn) /\ Len(past) = Len(checkpoints)
        /\ redo \in Seq(Redo) /\ future \in Seq(Undo) /\ Len(future) = Len(redo)
        /\ Len(checkpoints) \in Nat /\ work \in Files
    BY DEF Typed, Lists, Undos
  <1>a. /\ \A n \in 1..Len(past) : Recorded(past[n])
        /\ \A i \in 1..Len(future) : Recorded(future[i].turn)
    BY DEF Complete
  <1>e. \A i \in 1..Len(<<>>) : FALSE
    BY EmptySeq
  <1>1. CASE \/ BeginTurn \/ RedoRefused \/ UNCHANGED vars
             \/ \E p \in Tracked, x \in File : ToolWrite(p, x)
             \/ \E p \in Ignored, x \in File : WriteIgnored(p, x)
             \/ \E p \in Paths, x \in File : UserEdit(p, x)
             \/ \E p \in Paths, x \in File : WriteUnkept(p, x)
    <2>1. /\ UNCHANGED <<past, future, checkpoints>>
          /\ phase' = "changing" => phase = "changing"
      BY <1>1 DEF BeginTurn, RedoRefused, vars, meta, history, ToolWrite, WriteIgnored, UserEdit,
             WriteUnkept
    <2> QED BY <2>1 DEF Complete
  <1>2. CASE CheckpointBeforeBuild
    <2> DEFINE same  == checkpoints # <<>> /\ Last(checkpoints).tree = Snapshot
               start == IF same THEN Last(checkpoints) ELSE [tree |-> Snapshot, at |-> clock']
               fresh == [start |-> work, end |-> work, kind |-> "turn",
                         wrote |-> IF same THEN Last(past).wrote ELSE NothingWritten,
                         turns |-> IF same THEN Last(past).turns + 1 ELSE 1]
    <2>1. /\ checkpoints' = IF same THEN checkpoints
                            ELSE KeepNewest(Append(checkpoints, start), CheckpointCap)
          /\ past' = IF same THEN Append(Front(past), fresh)
                     ELSE KeepNewest(Append(past, fresh), CheckpointCap)
          /\ future' = <<>>
      BY <1>2 DEF CheckpointBeforeBuild
    <2>2. Recorded(fresh)
      BY DEF Recorded
    <2>3. Typed'
      BY <1>2, CheckpointTyped
    <2>4. CASE same
      <3>1. past # <<>> /\ checkpoints' = checkpoints /\ checkpoints # <<>>
        BY <1>0, <2>1, <2>4, EmptySeq
      <3>2. /\ Front(past) \in Seq(Turn) /\ Len(Front(past)) = Len(past) - 1
            /\ Len(past) \in Nat \ {0}
            /\ \A i \in 1..Len(past) - 1 : Front(past)[i] = past[i]
        BY <1>0, <3>1, FrontElements, FrontType
      <3>3. past' = Append(Front(past), fresh)
        BY <2>1, <2>4
      <3> HIDE DEF fresh
      <3>4. /\ Len(past') = Len(past) /\ past'[Len(past)] = fresh
            /\ \A i \in 1..Len(past) - 1 : past'[i] = past[i]
        BY <3>2, <3>3
      <3>5. \A i \in 1..Len(past) : i = Len(past) \/ i \in 1..Len(past) - 1
        BY <3>2
      <3> QED BY <1>a, <1>e, <2>1, <2>2, <3>1, <3>4, <3>5 DEF Complete
    <2>5. CASE ~same
      <3>1. /\ checkpoints' = KeepNewest(Append(checkpoints, start), CheckpointCap)
            /\ past' = KeepNewest(Append(past, fresh), CheckpointCap)
            /\ fresh = [start |-> work, end |-> work, kind |-> "turn",
                        wrote |-> NothingWritten, turns |-> 1]
        BY <2>1, <2>5
      <3>2. fresh \in Turn
        BY <1>0, <3>1, NothingWrittenType DEF Turn, Files
      <3> HIDE DEF fresh
      <3>3. \A n \in 1..Len(past') : Recorded(past'[n])
        BY <1>0, <1>a, <2>2, <3>1, <3>2, RanPushed
      <3>4. checkpoints' # <<>>
        <4>1. Shifted(past', past, fresh, Dropped(past, CheckpointCap))
          BY <1>0, <3>1, <3>2, KeptElements, ConstantsType
        <4>2. Len(past') > 0 /\ Len(past') = Len(checkpoints')
          BY <1>0, <2>3, <4>1 DEF Shifted, Typed, Lists
        <4> QED BY <4>2, EmptySeq
      <3> QED BY <1>e, <2>1, <3>3, <3>4 DEF Complete
    <2> QED BY <2>4, <2>5
  <1>3. CASE EndTurn \/ \E p \in Ignored : SaveIgnored(p)
    <2>1. /\ UNCHANGED <<future, checkpoints>> /\ (phase' = "changing" => phase = "changing")
          /\ \/ past' = past
             \/ past' = [past EXCEPT ![Len(past)].end = work]
             \/ \E w : past' = [past EXCEPT ![Len(past)].wrote = w]
      <3>1. CASE EndTurn
        BY <3>1 DEF EndTurn
      <3>2. ASSUME NEW p \in Ignored, SaveIgnored(p)
            PROVE  /\ UNCHANGED <<future, checkpoints, phase>>
                   /\ \E w : past' = [past EXCEPT ![Len(past)].wrote = w]
        BY <3>2 DEF SaveIgnored
      <3> QED BY <1>3, <3>1, <3>2
    <2>2. Len(past') = Len(past) /\ \A n \in 1..Len(past) : past'[n].kind = past[n].kind
      <3> \A n \in 1..Len(past) : past[n] \in Turn
        BY <1>0
      <3>1. ASSUME NEW w, past' = [past EXCEPT ![Len(past)].wrote = w]
            PROVE  Len(past') = Len(past) /\ \A n \in 1..Len(past) : past'[n].kind = past[n].kind
        BY <1>0, <3>1 DEF Turn
      <3>2. CASE past' = [past EXCEPT ![Len(past)].end = work]
        BY <1>0, <3>2 DEF Turn
      <3> QED BY <2>1, <3>1, <3>2
    <2> QED BY <1>a, <2>1, <2>2 DEF Complete, Recorded
  <1>4. CASE UndoNothing
    BY <1>4, <1>a, <1>e DEF UndoNothing, Complete
  <1>5. CASE UndoRefused
    <2>1. PICK n \in 1..Len(checkpoints) : past' = SubSeq(past, 1, n)
      BY <1>5 DEF UndoRefused
    <2>2. phase' = "idle" /\ future' = future
      BY <1>5 DEF UndoRefused
    <2>3. n \in 0..Len(past)
      BY <1>0
    <2> QED BY <1>0, <1>a, <2>1, <2>2, <2>3, PrefixRan DEF Complete
  <1>6. ASSUME NEW force \in BOOLEAN, UndoDone(force) PROVE Complete'
    <2>1. PICK n \in 1..Len(checkpoints) :
            /\ past' = SubSeq(past, 1, n - 1)
            /\ future' = KeepNewest(Append(future,
                           [before |-> work, after |-> work', turn |-> past[n]]), RedoCap)
      BY <1>6 DEF UndoDone
    <2>2. phase' = "idle"
      BY <1>6 DEF UndoDone
    <2>3. n - 1 \in 0..Len(past) /\ past[n] \in Turn /\ Recorded(past[n])
      BY <1>0, <1>a
    <2>4. work' \in Files
      BY <1>6, UndoDoneTyped DEF Typed
    <2> DEFINE u == [before |-> work, after |-> work', turn |-> past[n]]
    <2>5. u \in Undo /\ u.turn = past[n]
      BY <1>0, <2>3, <2>4 DEF Undo
    <2> HIDE DEF u
    <2>6. \A i \in 1..Len(future') : Recorded(future'[i].turn)
      BY <1>0, <1>a, <2>1, <2>3, <2>5, UndosRanPushed DEF u
    <2>7. \A i \in 1..Len(past') : Recorded(past'[i])
      BY <1>0, <1>a, <2>1, <2>3, PrefixRan
    <2> QED BY <2>2, <2>6, <2>7 DEF Complete
  <1>7. ASSUME NEW force \in BOOLEAN, RedoDone(force) PROVE Complete'
    <2>1. /\ redo # <<>> /\ phase' = "idle" /\ future' = Front(future)
          /\ past' = KeepNewest(Append(past, Last(future).turn), CheckpointCap)
      BY <1>7 DEF RedoDone
    <2>2. /\ future # <<>> /\ Last(future) = future[Len(future)]
          /\ Len(future) \in 1..Len(future)
          /\ \A i \in 1..Len(Front(future)) : i \in 1..Len(future) /\ Front(future)[i] = future[i]
      BY <1>0, <2>1, EmptySeq, FrontElements
    <2>3. Last(future).turn \in Turn /\ Recorded(Last(future).turn)
      <3>1. future[Len(future)] \in Undo /\ Recorded(future[Len(future)].turn)
        BY <1>0, <1>a, <2>2
      <3> QED BY <2>2, <3>1 DEF Undo
    <2>4. \A i \in 1..Len(past') : Recorded(past'[i])
      BY <1>0, <1>a, <2>1, <2>3, RanPushed
    <2> QED BY <1>a, <2>1, <2>2, <2>4 DEF Complete
  <1>8. CASE RevertFails \/ Crash
    BY <1>8, OnlyTheOthers DEF RevertFails, Crash
  <1>9. ASSUME NEW p \in Tracked, NEW x \in File, Revert(p, x) PROVE Complete'
    <2> DEFINE t == [start |-> work, end |-> work', kind |-> "revert",
                     wrote |-> NothingWritten, turns |-> 1]
    <2>1. /\ phase' = "idle" /\ future' = <<>>
          /\ past' = KeepNewest(Append(past, t), CheckpointCap)
      BY <1>9 DEF Revert, RevertCheckpoint
    <2>2. work' \in Files
      BY <1>9, RevertTyped DEF Typed
    <2>3. t \in Turn /\ Recorded(t)
      BY <1>0, <2>2, NothingWrittenType DEF Turn, Files, Recorded
    <2> HIDE DEF t
    <2>4. \A i \in 1..Len(past') : Recorded(past'[i])
      BY <1>0, <1>a, <2>1, <2>3, RanPushed
    <2> QED BY <1>e, <2>1, <2>4 DEF Complete
  <1>10. ASSUME NEW left \in Tree, AuditRolledBack(left) PROVE Complete'
    <2> DEFINE leftWork == [p \in Paths |-> IF p \in Tracked THEN left[p] ELSE work[p]]
               t == [start |-> work, end |-> leftWork, kind |-> "audit",
                     wrote |-> NothingWritten, turns |-> 1]
               u == [before |-> leftWork, after |-> work, turn |-> t]
    <2>1. /\ phase' = "turn" /\ past' = past
          /\ future' = KeepNewest(Append(future, u), RedoCap)
      BY <1>10 DEF AuditRolledBack
    <2>2. leftWork \in Files
      BY <1>0 DEF Files, Paths, Tree
    <2> HIDE DEF leftWork
    <2>3. t \in Turn /\ Recorded(t)
      BY <1>0, <2>2, NothingWrittenType DEF Turn, Files, Recorded
    <2> HIDE DEF t
    <2>4. u \in Undo /\ Recorded(u.turn)
      BY <1>0, <2>2, <2>3 DEF Undo
    <2> HIDE DEF u
    <2>5. \A i \in 1..Len(future') : Recorded(future'[i].turn)
      BY <1>0, <1>a, <2>1, <2>4, UndosRanPushed
    <2> QED BY <1>a, <2>1, <2>5 DEF Complete
  <1> QED BY <1>1, <1>2, <1>3, <1>4, <1>5, <1>6, <1>7, <1>8, <1>9, <1>10 DEF Next

-----------------------------------------------------------------------------
(* Each step of the session as one of the history.  Where it changes the    *)
(* lists, what is said of them is said of what is on record (Mapped).       *)

LEMMA MappedToo == Faithful' /\ Complete' => Mapped'
  BY MappedHolds, PTL

LEMMA SnapshotOf ==
    /\ History!Tree = Tree
    /\ work \in Files => Snapshot \in Tree
    /\ work' \in Files => Snapshot' \in Tree
    /\ work' = work => Snapshot' = Snapshot
  BY DEF History!Tree, Tree, Snapshot, Files, Paths

\* Files move, and no list does: in an open turn its end moves along.
LEMMA EditStep ==
    ASSUME Mapped, Mapped', Typed, Typed', phase' = "changing" <=> phase = "changing",
           checkpoints' = checkpoints, redo' = redo,
           \A n \in 1..Len(checkpoints) :
              (phase = "changing" => n < Len(checkpoints)) =>
                 RecordIn(turn_records', checkpoints[n]).after
                   = RecordIn(turn_records, checkpoints[n]).after
    PROVE  History!Edit
  <1>1. Len(checkpoints) \in Nat /\ checkpoints \in Seq(Commit)
    BY DEF Typed, Lists
  <1>2. Snapshot' \in History!Tree
    BY SnapshotOf DEF Typed
  <1>3. Undone' = Undone
    BY DEF Mapped
  <1>4. CASE phase # "changing"
    <2>1. DoneOf(checkpoints', turn_records') = DoneOf(checkpoints, turn_records)
      BY <1>4 DEF DoneOf, Turned
    <2>2. Done' = Done
      BY <1>4, <2>1 DEF Mapped
    <2> QED BY <1>2, <1>3, <1>4, <2>2 DEF History!Edit
  <1>5. CASE phase = "changing"
    <2> DEFINE l == Len(checkpoints)
    <2>1. l \in 1..l /\ \A n \in 1..l : n # l => n < l
      BY <1>1, <1>5 DEF Mapped
    <2>2. /\ Done = [n \in 1..l |->
                      IF n = l THEN StillOpen(checkpoints[n])
                      ELSE Turned(checkpoints[n], RecordIn(turn_records, checkpoints[n]))]
          /\ Done' = [n \in 1..l |->
                      IF n = l THEN [start |-> checkpoints[n].tree, end |-> Snapshot']
                      ELSE Turned(checkpoints[n], RecordIn(turn_records', checkpoints[n]))]
      BY <1>5 DEF Mapped, StillOpen
    <2>3. \A n \in 1..l : n # l => Turned(checkpoints[n], RecordIn(turn_records', checkpoints[n]))
                                     = Turned(checkpoints[n], RecordIn(turn_records, checkpoints[n]))
      BY <1>5, <2>1 DEF Turned
    <2> HIDE DEF l
    <2>4. Len(Done) = l
      <3>1. l \in Nat
        BY <1>1 DEF l
      <3>2. \A f : f = [n \in 1..l |-> f[n]] => Len(f) = l
        BY <3>1
      <3> QED BY <2>2, <3>2
    <2>5. Done' = [Done EXCEPT ![l].end = Snapshot']
      BY <2>1, <2>2, <2>3 DEF StillOpen
    <2> QED BY <1>2, <1>3, <1>5, <2>4, <2>5 DEF History!Edit
  <1> QED BY <1>4, <1>5

\* A turn that begins where the newest checkpoint is takes its place; any
\* other is pushed.
PushedTurn(cs, rs, c, k, rs2, f, t) ==
    /\ cs \in Seq(Commit) /\ c \in Commit
    /\ k = KeepNewest(Append(cs, c), CheckpointCap)
    /\ \A n \in 1..Len(k) : n < Len(k) => RecordIn(rs2, k[n]) = RecordIn(rs, k[n])
    /\ f = [n \in 1..Len(k) |-> f[n]] /\ f[Len(k)] = t
    /\ \A n \in 1..Len(k) : n < Len(k) => f[n] = Turned(k[n], RecordIn(rs2, k[n]))

LEMMA DonePushed ==
    ASSUME NEW cs, NEW rs, NEW c, NEW k, NEW rs2, NEW f, NEW t, PushedTurn(cs, rs, c, k, rs2, f, t)
    PROVE  History!IsTailOf(f, Append(DoneOf(cs, rs), t)) /\ f # <<>>
  <1> DEFINE d == Dropped(cs, CheckpointCap)
             a == DoneOf(cs, rs)
  <1>0. /\ cs \in Seq(Commit) /\ c \in Commit
        /\ k = KeepNewest(Append(cs, c), CheckpointCap)
        /\ \A n \in 1..Len(k) : n < Len(k) => RecordIn(rs2, k[n]) = RecordIn(rs, k[n])
        /\ f = [n \in 1..Len(k) |-> f[n]] /\ f[Len(k)] = t
        /\ \A n \in 1..Len(k) : n < Len(k) => f[n] = Turned(k[n], RecordIn(rs2, k[n]))
    BY DEF PushedTurn
  <1>1. Shifted(k, cs, c, d)
    BY <1>0, KeptElements, ConstantsType
  <1>2. /\ d \in 0..Len(cs) /\ Len(k) = Len(cs) + 1 - d /\ Len(k) \in Nat /\ Len(cs) \in Nat
        /\ \A i \in 1..Len(k) : i < Len(k) => i + d \in 1..Len(cs) /\ k[i] = cs[i + d]
    BY <1>0, <1>1 DEF Shifted
  <1>3. a = [n \in 1..Len(cs) |-> a[n]]
        /\ \A n \in 1..Len(cs) : a[n] = Turned(cs[n], RecordIn(rs, cs[n]))
    BY DEF DoneOf
  <1> HIDE DEF a, d
  <1>4. ASSUME NEW i \in 1..Len(k), i < Len(k) PROVE f[i] = a[i + d]
    <2>1. i + d \in 1..Len(cs) /\ k[i] = cs[i + d]
      BY <1>2, <1>4
    <2>2. f[i] = Turned(k[i], RecordIn(rs, k[i]))
      BY <1>0, <1>4
    <2> QED BY <1>3, <2>1, <2>2
  <1>5. Grown(f, Len(k), a, Len(cs), t, d)
    BY <1>0, <1>2, <1>3, <1>4 DEF Grown
  <1>6. History!IsTailOf(f, Append(a, t)) /\ f # <<>>
    BY <1>5, GrownIsTail
  <1> QED BY <1>6 DEF a

\* ... and so is an undo.
LEMMA UndonePushed ==
    ASSUME NEW us \in Seq(Redo), NEW u \in Redo,
           NEW k, k = KeepNewest(Append(us, u), RedoCap)
    PROVE  History!IsTailOf(UndosOf(k), Append(UndosOf(us), UndoneBy(u))) /\ UndosOf(k) # <<>>
  <1> DEFINE d == Dropped(us, RedoCap)
             a == UndosOf(us)
             f == UndosOf(k)
  <1>1. Shifted(k, us, u, d)
    BY KeptElements, ConstantsType
  <1>2. /\ d \in 0..Len(us) /\ Len(k) = Len(us) + 1 - d /\ Len(k) \in Nat /\ Len(us) \in Nat
        /\ Len(k) \in 1..Len(k) /\ k[Len(k)] = u
        /\ \A i \in 1..Len(k) : i < Len(k) => i + d \in 1..Len(us) /\ k[i] = us[i + d]
    BY <1>1 DEF Shifted
  <1>3. /\ a = [n \in 1..Len(us) |-> a[n]]
        /\ \A n \in 1..Len(us) : a[n] = UndoneBy(us[n])
        /\ f = [n \in 1..Len(k) |-> f[n]]
        /\ \A n \in 1..Len(k) : f[n] = UndoneBy(k[n])
    BY DEF UndosOf
  <1> HIDE DEF a, d, f
  <1>4. \A i \in 1..Len(k) : i < Len(k) => f[i] = a[i + d]
    BY <1>2, <1>3
  <1>5. f[Len(k)] = UndoneBy(u)
    BY <1>2, <1>3
  <1>6. Grown(f, Len(k), a, Len(us), UndoneBy(u), d)
    BY <1>2, <1>3, <1>4, <1>5 DEF Grown
  <1>7. History!IsTailOf(f, Append(a, UndoneBy(u))) /\ f # <<>>
    BY <1>6, GrownIsTail
  <1> QED BY <1>7 DEF a, f

LEMMA NoUndos == UndosOf(<<>>) = <<>>
  BY DEF UndosOf

\* What the history's lists are as lists, while no turn is open.
LEMMA DoneParts ==
    ASSUME Mapped, Typed, phase # "changing"
    PROVE  /\ Len(Done) = Len(checkpoints) /\ Len(checkpoints) \in Nat
           /\ checkpoints \in Seq(Commit)
           /\ \A n \in 1..Len(checkpoints) :
                Done[n] = Turned(checkpoints[n], RecordIn(turn_records, checkpoints[n]))
           /\ Done # <<>> <=> checkpoints # <<>>
           /\ Done = [n \in 1..Len(checkpoints) |-> Done[n]]
           /\ Undone = UndosOf(redo)
  <1>1. checkpoints \in Seq(Commit) /\ Len(checkpoints) \in Nat
    BY DEF Typed, Lists
  <1>2. Done = DoneOf(checkpoints, turn_records) /\ Undone = UndosOf(redo)
    BY DEF Mapped
  <1>3. Done = [n \in 1..Len(checkpoints) |-> Done[n]]
        /\ \A n \in 1..Len(checkpoints) :
              Done[n] = Turned(checkpoints[n], RecordIn(turn_records, checkpoints[n]))
    BY <1>2 DEF DoneOf
  <1>4. Len(Done) = Len(checkpoints) /\ (Done # <<>> <=> checkpoints # <<>>)
    <2>1. \A f : f = [n \in 1..Len(checkpoints) |-> f[n]] =>
             Len(f) = Len(checkpoints) /\ (f = <<>> <=> Len(checkpoints) = 0)
      BY <1>1
    <2>2. checkpoints = <<>> <=> Len(checkpoints) = 0
      BY <1>1, EmptySeq
    <2> QED BY <1>3, <2>1, <2>2
  <1> QED BY <1>1, <1>2, <1>3, <1>4

\* The newest checkpoint's record is written, and the others keep theirs.
NewestRewritten(live, us, r, rs2) ==
    /\ live \in Seq(Commit) /\ Len(live) > 0 /\ Apart(live, us)
    /\ rs2 = WithRecord(live, live[Len(live)], r)

LEMMA OthersKeepRecords ==
    ASSUME NEW live, NEW us, NEW r, NEW rs2, NewestRewritten(live, us, r, rs2)
    PROVE  /\ RecordIn(rs2, live[Len(live)]) = r
           /\ \A n \in 1..Len(live) : n < Len(live) =>
                RecordIn(rs2, live[n]) = RecordIn(turn_records, live[n])
  <1>0. /\ live \in Seq(Commit) /\ Len(live) > 0 /\ Apart(live, us)
        /\ rs2 = WithRecord(live, live[Len(live)], r)
    BY DEF NewestRewritten
  <1>1. Len(live) \in 1..Len(live)
    BY <1>0
  <1>2. \A n \in 1..Len(live) : n < Len(live) => live[n] # live[Len(live)]
    BY <1>0, <1>1 DEF Apart
  <1> QED BY <1>0, <1>2, OtherRecords, OwnRecord

LEMMA BeginStep ==
    ASSUME Faithful, Faithful', Mapped, Mapped', CheckpointBeforeBuild
    PROVE  History!Begin
  <1> DEFINE same  == checkpoints # <<>> /\ Last(checkpoints).tree = Snapshot
             start == IF same THEN Last(checkpoints) ELSE [tree |-> Snapshot, at |-> clock']
             l == Len(checkpoints')
             t == [start |-> Snapshot, end |-> Snapshot]
  <1>1. /\ checkpoints' = IF same THEN checkpoints
                          ELSE KeepNewest(Append(checkpoints, start), CheckpointCap)
        /\ turn_records' = WithRecord(checkpoints', start, NoRecord)
        /\ redo' = <<>> /\ phase = "turn" /\ phase' = "changing" /\ work' = work
    BY DEF CheckpointBeforeBuild
  <1>2. /\ Typed /\ checkpoints' \in Seq(Commit) /\ Apart(checkpoints', redo')
        /\ clock' \in Nat /\ work \in Files
    BY DEF Faithful, Typed, Lists, Rest, Known
  <1>3. /\ Len(Done) = Len(checkpoints) /\ Len(checkpoints) \in Nat
        /\ checkpoints \in Seq(Commit)
        /\ \A n \in 1..Len(checkpoints) :
             Done[n] = Turned(checkpoints[n], RecordIn(turn_records, checkpoints[n]))
        /\ Done # <<>> <=> checkpoints # <<>>
        /\ Done = [n \in 1..Len(checkpoints) |-> Done[n]]
    BY <1>1, <1>2, DoneParts
  <1>4. Snapshot' = Snapshot /\ Snapshot \in Tree
    BY <1>1, <1>2, SnapshotOf
  <1>5. /\ l > 0 /\ l \in Nat /\ l \in 1..l
        /\ Done' = [n \in 1..l |->
                      IF n = l THEN [start |-> checkpoints'[n].tree, end |-> Snapshot]
                      ELSE Turned(checkpoints'[n], RecordIn(turn_records', checkpoints'[n]))]
    BY <1>1, <1>2, <1>4 DEF Mapped, StillOpen
  <1>6. Undone' = <<>>
    BY <1>1, NoUndos DEF Mapped
  <1>7. start \in Commit /\ start.tree = Snapshot /\ checkpoints'[l] = start
    <2>1. CASE same
      <3>1. Last(checkpoints) = checkpoints[Len(checkpoints)]
        BY <1>3, <2>1, FrontElements
      <3> QED BY <1>1, <1>2, <1>5, <2>1, <3>1
    <2>2. CASE ~same
      <3>1. start \in Commit /\ start.tree = Snapshot
        BY <1>2, <2>2, CommitType
      <3> HIDE DEF start
      <3>2. Shifted(checkpoints', checkpoints, start, Dropped(checkpoints, CheckpointCap))
        BY <1>1, <1>3, <2>2, <3>1, KeptElements, ConstantsType
      <3> QED BY <3>1, <3>2 DEF Shifted
    <2> QED BY <2>1, <2>2
  <1> HIDE DEF start
  <1>8. \A n \in 1..l : n < l =>
           RecordIn(turn_records', checkpoints'[n]) = RecordIn(turn_records, checkpoints'[n])
    <2>1. PICK live, us : live = checkpoints' /\ us = redo'
      OBVIOUS
    <2>2. PICK rs2 : rs2 = turn_records'
      OBVIOUS
    <2>3. NewestRewritten(live, us, NoRecord, rs2)
      BY <1>1, <1>2, <1>5, <1>7, <2>1, <2>2 DEF NewestRewritten
    <2>4. \A n \in 1..Len(live) : n < Len(live) =>
             RecordIn(rs2, live[n]) = RecordIn(turn_records, live[n])
      BY <2>3, OthersKeepRecords
    <2> QED BY <2>1, <2>2, <2>4
  <1>9. Done'[l] = t
    BY <1>5, <1>7
  <1>10. \A n \in 1..l : n < l => Done'[n] = Turned(checkpoints'[n], RecordIn(turn_records', checkpoints'[n]))
    BY <1>5
  <1>11. same <=> Done # <<>> /\ History!Newest(Done).start = Snapshot
    <2>1. checkpoints # <<>> => /\ Last(checkpoints) = checkpoints[Len(checkpoints)]
                                /\ Len(checkpoints) \in 1..Len(checkpoints)
      BY <1>3, FrontElements
    <2>2. checkpoints # <<>> => History!Newest(Done).start = Last(checkpoints).tree
      BY <1>3, <2>1 DEF History!Newest, Turned
    <2> QED BY <1>3, <2>2
  <1>12. CASE same
    <2>1. checkpoints' = checkpoints /\ l = Len(Done)
      BY <1>1, <1>3, <1>12
    <2>2. \A n \in 1..l : n # l => n < l
      BY <1>5
    <2>3. \A n \in 1..l : n # l => Done'[n] = Done[n]
      BY <1>3, <1>8, <1>10, <2>1, <2>2
    <2>4. Done' = [n \in 1..l |-> Done'[n]] /\ Done = [n \in 1..l |-> Done[n]]
      BY <1>3, <1>5, <2>1
    <2> HIDE DEF l, t
    <2>5. Done' = [Done EXCEPT ![l] = t]
      BY <1>5, <1>9, <2>3, <2>4
    <2> QED BY <1>1, <1>4, <1>6, <1>11, <1>12, <2>1, <2>5 DEF History!Begin, t
  <1>13. CASE ~same
    <2>1. checkpoints' = KeepNewest(Append(checkpoints, start), CheckpointCap)
      BY <1>1, <1>13
    <2>2. Done' = [n \in 1..l |-> Done'[n]]
      BY <1>5
    <2>3. Done = DoneOf(checkpoints, turn_records)
      BY <1>1 DEF Mapped
    <2>4. History!IsTailOf(Done', Append(Done, t)) /\ Done' # <<>>
      <3>1. PICK f, k, rs2 : f = Done' /\ k = checkpoints' /\ rs2 = turn_records'
        OBVIOUS
      <3>2. History!IsTailOf(f, Append(DoneOf(checkpoints, turn_records), t)) /\ f # <<>>
        <4> HIDE DEF t
        <4>1. PushedTurn(checkpoints, turn_records, start, k, rs2, f, t)
          BY <1>3, <1>7, <1>8, <1>9, <1>10, <2>1, <2>2, <3>1 DEF PushedTurn
        <4> QED BY <4>1, DonePushed
      <3> QED BY <2>3, <3>1, <3>2
    <2> HIDE DEF t
    <2> QED BY <1>1, <1>4, <1>6, <1>11, <1>13, <2>4 DEF History!Begin, t
  <1> QED BY <1>12, <1>13

\* The newest turns dropped.
LEMMA DonePrefix ==
    ASSUME NEW cs \in Seq(Commit), NEW rs, NEW m \in 0..Len(cs)
    PROVE  DoneOf(SubSeq(cs, 1, m), rs) = SubSeq(DoneOf(cs, rs), 1, m)
  <1> DEFINE S == {Turned(cs[n], RecordIn(rs, cs[n])) : n \in 1..Len(cs)}
             a == DoneOf(cs, rs)
             k == SubSeq(cs, 1, m)
  <1>1. /\ Len(k) = m /\ m \in Nat /\ Len(cs) \in Nat
        /\ \A n \in 1..m : n \in 1..Len(cs) /\ k[n] = cs[n]
    OBVIOUS
  <1>2. a = [n \in 1..Len(cs) |-> a[n]]
        /\ \A n \in 1..Len(cs) : a[n] = Turned(cs[n], RecordIn(rs, cs[n]))
    BY DEF DoneOf
  <1> HIDE DEF a, k
  <1>3. a \in Seq(S) /\ Len(a) = Len(cs)
    <2>1. a \in [1..Len(cs) -> S]
      BY <1>2
    <2> HIDE DEF S
    <2> QED BY <1>1, <2>1
  <1> HIDE DEF S
  <1>4. DoneOf(k, rs) = [n \in 1..m |-> a[n]]
    BY <1>1, <1>2 DEF DoneOf
  <1>5. SubSeq(a, 1, m) = [n \in 1..m |-> a[n]]
    <2> DEFINE t == SubSeq(a, 1, m)
    <2>1. t \in Seq(S) /\ Len(t) = m /\ \A n \in 1..m : t[n] = a[n]
      BY <1>1, <1>3
    <2> HIDE DEF t
    <2>2. t = [n \in 1..m |-> t[n]]
      BY <2>1
    <2>3. t = [n \in 1..m |-> a[n]]
      BY <2>1, <2>2
    <2> QED BY <2>3 DEF t
  <1> QED BY <1>4, <1>5 DEF a, k

\* The newest undo dropped.
LEMMA UndoneFront ==
    ASSUME NEW us \in Seq(Redo), us # <<>>
    PROVE  /\ UndosOf(Front(us)) = SubSeq(UndosOf(us), 1, Len(UndosOf(us)) - 1)
           /\ UndosOf(us) # <<>> /\ History!Newest(UndosOf(us)) = UndoneBy(Last(us))
  <1> DEFINE S == {UndoneBy(us[n]) : n \in 1..Len(us)}
             a == UndosOf(us)
             k == Front(us)
             m == Len(us) - 1
  <1>1. /\ Len(k) = m /\ Len(us) \in Nat \ {0} /\ m \in Nat /\ Len(us) \in 1..Len(us)
        /\ \A n \in 1..m : n \in 1..Len(us) /\ k[n] = us[n]
        /\ Last(us) = us[Len(us)]
    BY FrontElements
  <1>2. a = [n \in 1..Len(us) |-> a[n]]
        /\ \A n \in 1..Len(us) : a[n] = UndoneBy(us[n])
    BY DEF UndosOf
  <1> HIDE DEF a, k
  <1>3. a \in Seq(S) /\ Len(a) = Len(us)
    <2>1. a \in [1..Len(us) -> S]
      BY <1>2
    <2> HIDE DEF S
    <2> QED BY <1>1, <2>1
  <1>6. a # <<>> /\ History!Newest(a) = UndoneBy(Last(us))
    BY <1>1, <1>2, <1>3, EmptySeq DEF History!Newest
  <1>0. Len(a) - 1 = m /\ m <= Len(a)
    BY <1>1, <1>3
  <1> HIDE DEF S, m
  <1>4. UndosOf(k) = [n \in 1..m |-> a[n]]
    BY <1>1, <1>2 DEF UndosOf
  <1>5. SubSeq(a, 1, m) = [n \in 1..m |-> a[n]]
    <2> DEFINE t == SubSeq(a, 1, m)
    <2>1. t \in Seq(S) /\ Len(t) = m /\ \A n \in 1..m : t[n] = a[n]
      BY <1>0, <1>1, <1>3
    <2> HIDE DEF t
    <2>2. t = [n \in 1..m |-> t[n]]
      BY <2>1
    <2>3. t = [n \in 1..m |-> a[n]]
      BY <2>1, <2>2
    <2> QED BY <2>3 DEF t
  <1> QED BY <1>0, <1>4, <1>5, <1>6 DEF a, k

LEMMA FinishStep ==
    ASSUME Faithful, Mapped, Mapped', EndTurn, phase = "changing"
    PROVE  History!Finish
  <1>1. /\ checkpoints \in Seq(Commit) /\ Apart(checkpoints, redo) /\ work \in Files
        /\ turn_checkpoint = checkpoints[Len(checkpoints)]
        /\ turn_checkpoint \in DOMAIN turn_records
        /\ Record(turn_checkpoint).after = None
    BY RecordIsIn DEF Faithful, Typed, Lists, Known, Running
  <1>2. /\ work' = work /\ checkpoints' = checkpoints /\ redo' = redo /\ phase' = "idle"
        /\ turn_records' = WithRecord(checkpoints, turn_checkpoint, Finished(Record(turn_checkpoint)))
    BY <1>1 DEF EndTurn
  <1>3. Snapshot' = Snapshot /\ Undone' = Undone
    BY <1>2, SnapshotOf DEF Mapped
  <1> DEFINE l == Len(checkpoints)
  <1>4. /\ l > 0 /\ l \in Nat /\ \A n \in 1..l : n # l => n < l
        /\ Done = [n \in 1..l |->
                      IF n = l THEN StillOpen(checkpoints[n])
                      ELSE Turned(checkpoints[n], RecordIn(turn_records, checkpoints[n]))]
        /\ Done' = [n \in 1..l |-> Turned(checkpoints[n], RecordIn(turn_records', checkpoints[n]))]
    BY <1>1, <1>2 DEF Mapped, DoneOf
  <1>5. PICK rs2, r, us : rs2 = turn_records' /\ r = Finished(Record(turn_checkpoint)) /\ us = redo
    OBVIOUS
  <1>6. NewestRewritten(checkpoints, us, r, rs2)
    BY <1>1, <1>2, <1>4, <1>5 DEF NewestRewritten
  <1>7. /\ RecordIn(rs2, checkpoints[l]) = r
        /\ \A n \in 1..l : n < l => RecordIn(rs2, checkpoints[n]) = RecordIn(turn_records, checkpoints[n])
    BY <1>6, OthersKeepRecords
  <1>8. r.after = Snapshot
    BY <1>5 DEF Finished
  <1>9. Turned(checkpoints[l], r) = StillOpen(checkpoints[l])
    BY <1>8 DEF Turned, StillOpen
  <1> HIDE DEF l
  <1>10. \A n \in 1..l : Turned(checkpoints[n], RecordIn(turn_records', checkpoints[n]))
            = IF n = l THEN StillOpen(checkpoints[n])
              ELSE Turned(checkpoints[n], RecordIn(turn_records, checkpoints[n]))
    BY <1>4, <1>5, <1>7, <1>9
  <1>11. Done' = Done
    BY <1>4, <1>10
  <1> QED BY <1>2, <1>3, <1>11 DEF History!Finish

\* Turns whose start the files are at are passed over.
LEMMA PassesOver ==
    ASSUME Typed, Mapped, phase # "changing", NEW n \in 0..Len(checkpoints), Reached(n)
    PROVE  History!PassOver(n)
  <1>1. /\ Len(Done) = Len(checkpoints) /\ Len(checkpoints) \in Nat
        /\ \A i \in 1..Len(checkpoints) :
             Done[i] = Turned(checkpoints[i], RecordIn(turn_records, checkpoints[i]))
    BY DoneParts
  <1>2. ASSUME NEW i \in n+1 .. Len(checkpoints) PROVE Done[i].start = Snapshot
    <2>1. i \in 1..Len(checkpoints)
      BY <1>1
    <2>2. checkpoints[i].tree = Snapshot
      BY DEF Reached, Passed
    <2>3. Done[i] = Turned(checkpoints[i], RecordIn(turn_records, checkpoints[i]))
      BY <1>1, <2>1
    <2>4. \A c, r : Turned(c, r).start = c.tree
      BY DEF Turned
    <2> QED BY <2>2, <2>3, <2>4
  <1> QED BY <1>1, <1>2 DEF History!PassOver

LEMMA ForgetStep ==
    ASSUME Typed, Mapped, Mapped', UndoNothing \/ UndoRefused
    PROVE  History!Forget
  <1>1. /\ phase = "idle" /\ phase' = "idle" /\ work' = work /\ redo' = redo
        /\ turn_records' = turn_records
    BY DEF UndoNothing, UndoRefused
  <1>2. /\ Len(Done) = Len(checkpoints) /\ Len(checkpoints) \in Nat
        /\ checkpoints \in Seq(Commit)
        /\ \A n \in 1..Len(checkpoints) :
             Done[n] = Turned(checkpoints[n], RecordIn(turn_records, checkpoints[n]))
    BY <1>1, DoneParts
  <1>3. PICK n \in 0..Len(checkpoints) : Reached(n) /\ checkpoints' = SubSeq(checkpoints, 1, n)
    <2>1. CASE UndoNothing
      <3>1. SubSeq(checkpoints, 1, 0) = <<>>
        BY <1>2
      <3>2. 0 \in 0..Len(checkpoints)
        BY <1>2
      <3> QED BY <2>1, <3>1, <3>2 DEF UndoNothing
    <2>2. CASE UndoRefused
      <3>1. PICK n \in 1..Len(checkpoints) : Reached(n) /\ checkpoints' = SubSeq(checkpoints, 1, n)
        BY <2>2 DEF UndoRefused
      <3>2. n \in 0..Len(checkpoints)
        BY <1>2
      <3> QED BY <3>1, <3>2
    <2> QED BY <2>1, <2>2
  <1>4. Done' = SubSeq(Done, 1, n)
    <2>1. PICK cs, rs : cs = checkpoints /\ rs = turn_records
      OBVIOUS
    <2>2. DoneOf(SubSeq(cs, 1, n), rs) = SubSeq(DoneOf(cs, rs), 1, n)
      BY <1>2, <1>3, <2>1, DonePrefix
    <2> QED BY <1>1, <1>3, <2>1, <2>2 DEF Mapped
  <1>5. History!PassOver(n)
    BY <1>1, <1>3, PassesOver
  <1>6. Snapshot' = Snapshot /\ Undone' = Undone
    BY <1>1, SnapshotOf DEF Mapped
  <1> QED BY <1>1, <1>2, <1>3, <1>4, <1>5, <1>6 DEF History!Forget

LEMMA InitStep == Init => History!Init
  <1> SUFFICES ASSUME Init PROVE History!Init
    OBVIOUS
  <1>1. Typed /\ checkpoints = <<>> /\ redo = <<>> /\ phase = "idle"
    BY InitTyped DEF Init
  <1>2. Snapshot \in History!Tree
    BY <1>1, SnapshotOf DEF Typed
  <1>3. Done = <<>> /\ Undone = <<>>
    BY <1>1 DEF Done, Undone
  <1> QED BY <1>1, <1>2, <1>3 DEF History!Init

\* A turn's call, or the user's editor, writes files; nothing is recorded.
LEMMA WriteStep ==
    ASSUME Mapped, Mapped', Typed, Typed',
           UNCHANGED <<checkpoints, redo, turn_records>>,
           phase' = phase \/ {phase, phase'} \subseteq {"idle", "turn"}
    PROVE  History!Edit
  <1>1. phase' = "changing" <=> phase = "changing"
    OBVIOUS
  <1>2. \A n \in 1..Len(checkpoints) :
           RecordIn(turn_records', checkpoints[n]).after
             = RecordIn(turn_records, checkpoints[n]).after
    OBVIOUS
  <1> QED BY <1>1, <1>2, EditStep

\* A turn that took no checkpoint ends: the end of every turn that can be
\* undone is on record already.
LEMMA EndStep ==
    ASSUME Faithful, Complete, Mapped, Mapped', Typed', EndTurn, phase # "changing"
    PROVE  History!Edit
  <1>1. /\ Typed /\ checkpoints \in Seq(Commit) /\ past \in Seq(Turn)
        /\ Len(past) = Len(checkpoints) /\ AllTold(checkpoints, past, turn_records, FALSE)
    BY DEF Faithful, Typed, Lists, Told
  <1>2. /\ checkpoints' = checkpoints /\ redo' = redo /\ phase' # "changing"
        /\ turn_records' =
             IF turn_checkpoint \in DOMAIN turn_records /\ Record(turn_checkpoint).after = None
             THEN WithRecord(checkpoints, turn_checkpoint, Finished(Record(turn_checkpoint)))
             ELSE turn_records
    BY DEF EndTurn
  <1>3. ASSUME NEW n \in 1..Len(checkpoints)
        PROVE  RecordIn(turn_records', checkpoints[n]) = RecordIn(turn_records, checkpoints[n])
    <2>1. RecordIn(turn_records, checkpoints[n]).after # None
      BY <1>1 DEF Complete, AllTold, TellsEnd
    <2>2. CASE Record(turn_checkpoint).after = None /\ turn_checkpoint \in DOMAIN turn_records
      <3>1. checkpoints[n] # turn_checkpoint
        BY <2>1, <2>2, RecordIsIn
      <3> QED BY <1>1, <1>2, <2>2, <3>1, OtherRecords
    <2>3. CASE ~(Record(turn_checkpoint).after = None /\ turn_checkpoint \in DOMAIN turn_records)
      BY <1>2, <2>3
    <2> QED BY <2>2, <2>3
  <1> QED BY <1>1, <1>2, <1>3, EditStep

\* What a gitignored file held is saved with the turn that is open.
LEMMA SaveStep ==
    ASSUME Faithful, Mapped, Mapped', Typed', NEW p \in Ignored, SaveIgnored(p)
    PROVE  History!Edit
  <1> DEFINE q == Record(turn_checkpoint)
             f == [before |-> work[p], after |-> Absent]
             r == [q EXCEPT !.ignored = With(@, p, f)]
  <1>1. /\ phase = "changing" /\ phase' = phase /\ checkpoints' = checkpoints /\ redo' = redo
        /\ turn_records' = WithRecord(checkpoints, turn_checkpoint, r)
    BY DEF SaveIgnored
  <1>2. /\ Typed /\ checkpoints \in Seq(Commit) /\ Apart(checkpoints, redo)
        /\ turn_checkpoint = checkpoints[Len(checkpoints)] /\ Len(checkpoints) > 0
    BY <1>1 DEF Faithful, Typed, Lists, Known, Running, Mapped
  <1> HIDE DEF r
  <1>3. PICK rs2 : rs2 = turn_records'
    OBVIOUS
  <1>4. NewestRewritten(checkpoints, redo, r, rs2)
    BY <1>1, <1>2, <1>3 DEF NewestRewritten
  <1>5. \A n \in 1..Len(checkpoints) : n < Len(checkpoints) =>
           RecordIn(turn_records', checkpoints[n]) = RecordIn(turn_records, checkpoints[n])
    BY <1>3, <1>4, OthersKeepRecords
  <1> QED BY <1>1, <1>2, <1>5, EditStep

\* A checkpoint of its own is pushed, with a turn that is over.
LEMMA RevertStep ==
    ASSUME Faithful, Faithful', Mapped, Mapped', NEW p \in Tracked, NEW x \in File, Revert(p, x)
    PROVE  History!TakeBack
  <1> DEFINE c == [tree |-> Snapshot, at |-> clock']
             r == [after |-> [Snapshot EXCEPT ![p] = x], ignored |-> NothingSaved]
             t == [start |-> Snapshot, end |-> Snapshot']
  <1>1. /\ phase = "idle" /\ phase' = "idle" /\ redo' = <<>>
        /\ checkpoints' = KeepNewest(Append(checkpoints, c), CheckpointCap)
        /\ turn_records' = WithRecord(checkpoints', c, r)
        /\ work' = [work EXCEPT ![p] = x]
    BY DEF Revert, RevertCheckpoint
  <1>2. /\ Typed /\ Typed' /\ work \in Files /\ work' \in Files /\ clock' \in Nat
        /\ checkpoints \in Seq(Commit) /\ checkpoints' \in Seq(Commit)
        /\ Apart(checkpoints', redo')
    BY DEF Faithful, Typed, Lists, Rest, Known
  <1>3. c \in Commit
    BY <1>2, CommitType
  <1>4. Snapshot' = [Snapshot EXCEPT ![p] = x]
    <2>1. \A q \in Tracked : work'[q] = IF q = p THEN x ELSE work[q]
      BY <1>1, <1>2 DEF Files, Paths
    <2> QED BY <2>1 DEF Snapshot
  <1>5. Turned(c, r) = t
    BY <1>4 DEF Turned
  <1> HIDE DEF c, r
  <1>6. Shifted(checkpoints', checkpoints, c, Dropped(checkpoints, CheckpointCap))
    BY <1>1, <1>2, <1>3, KeptElements, ConstantsType
  <1>7. /\ checkpoints'[Len(checkpoints')] = c /\ Len(checkpoints') > 0
        /\ Len(checkpoints') \in 1..Len(checkpoints')
    BY <1>2, <1>6 DEF Shifted
  <1>8. PICK k, us, rs2, f : k = checkpoints' /\ us = redo' /\ rs2 = turn_records' /\ f = Done'
    OBVIOUS
  <1>9. NewestRewritten(k, us, r, rs2)
    BY <1>1, <1>2, <1>7, <1>8 DEF NewestRewritten
  <1>10. /\ RecordIn(rs2, k[Len(k)]) = r
         /\ \A n \in 1..Len(k) : n < Len(k) => RecordIn(rs2, k[n]) = RecordIn(turn_records, k[n])
    BY <1>9, OthersKeepRecords
  <1>11. f = DoneOf(k, rs2)
    BY <1>1, <1>8 DEF Mapped
  <1>12. f = [n \in 1..Len(k) |-> f[n]]
         /\ \A n \in 1..Len(k) : f[n] = Turned(k[n], RecordIn(rs2, k[n]))
    BY <1>11 DEF DoneOf
  <1>13. f[Len(k)] = t
    BY <1>5, <1>7, <1>8, <1>10, <1>12
  <1> HIDE DEF t
  <1>14. PushedTurn(checkpoints, turn_records, c, k, rs2, f, t)
    BY <1>1, <1>2, <1>3, <1>8, <1>10, <1>12, <1>13 DEF PushedTurn
  <1>15. History!IsTailOf(f, Append(DoneOf(checkpoints, turn_records), t)) /\ f # <<>>
    BY <1>14, DonePushed
  <1>16. History!IsTailOf(Done', Append(Done, t)) /\ Done' # <<>>
    BY <1>1, <1>8, <1>15 DEF Mapped
  <1>17. Undone' = <<>> /\ Snapshot' \in History!Tree
    BY <1>1, <1>2, NoUndos, SnapshotOf DEF Mapped
  <1> QED BY <1>1, <1>16, <1>17 DEF History!TakeBack, t

LEMMA UndoneStep ==
    ASSUME Faithful, Faithful', Complete, Mapped, Mapped', NEW force \in BOOLEAN, UndoDone(force)
    PROVE  History!Undo(force)
  <1>1. PICK n \in 1..Len(checkpoints) :
          LET c == checkpoints[n] IN
          /\ Reached(n)
          /\ force \/ Clash(c) = {}
          /\ work' = UndoneFiles(c)
          /\ checkpoints' = SubSeq(checkpoints, 1, n - 1)
          /\ redo' = KeepNewest(Append(redo, UndoneEntry(c, [p \in Tracked |-> work'[p]])), RedoCap)
    BY DEF UndoDone, UndoneEntry
  <1> DEFINE c == checkpoints[n]
             r == UndoneEntry(c, [p \in Tracked |-> work'[p]])
             t == Turned(c, Record(c))
             m == n - 1
  <1>2. phase = "idle" /\ phase' = "idle" /\ turn_records' = turn_records
    BY DEF UndoDone
  <1>3. r \in Redo
    BY <1>1, <1>2, UndoReverses
  <1>4. /\ Typed /\ checkpoints \in Seq(Commit) /\ past \in Seq(Turn)
        /\ Len(past) = Len(checkpoints) /\ Len(checkpoints) \in Nat /\ redo \in Seq(Redo)
        /\ AllTold(checkpoints, past, turn_records, FALSE)
    <2>1. AllTold(checkpoints, past, turn_records, FALSE)
      BY <1>2 DEF Faithful, Told
    <2>2. Typed
      BY DEF Faithful
    <2>3. Lists /\ Undos
      BY <2>2 DEF Typed
    <2>4. /\ checkpoints \in Seq(Commit) /\ past \in Seq(Turn) /\ redo \in Seq(Redo)
          /\ Len(past) = Len(checkpoints)
      BY <2>3 DEF Lists, Undos
    <2>5. Len(checkpoints) \in Nat
      BY <2>4
    <2> QED BY <2>1, <2>2, <2>4, <2>5
  <1>5. /\ Len(Done) = Len(checkpoints) /\ Done[n] = t
        /\ Done = DoneOf(checkpoints, turn_records) /\ Undone = UndosOf(redo)
    BY <1>2, <1>4, DoneParts, RecordIsIn DEF Mapped
  <1>6. c \in Commit /\ Recorded(past[n])
        /\ Tells(c, past[n], Record(c)) /\ TellsEnd(Record(c), past[n])
    BY <1>4, RecordIsIn DEF AllTold, Complete
  <1>7. End(c) = Record(c).after
    BY <1>6, PathsAreMoved
  <1>8. History!Moved(t) = TurnPaths(c) /\ t.start = c.tree /\ t.end = End(c)
    BY <1>7 DEF History!Moved, TurnPaths, Between, Turned
  <1>9. Snapshot' = [p \in Tracked |-> work'[p]]
    BY DEF Snapshot
  <1>10. Snapshot' = History!PutBack(c.tree, TurnPaths(c))
    <2>1. \A p \in Tracked : work'[p] = IF p \in TurnPaths(c) THEN c.tree[p] ELSE work[p]
      BY <1>1, <1>4, <1>6, UndoneEach
    <2> HIDE DEF c
    <2>2. \A p \in Tracked : Snapshot[p] = work[p]
      BY DEF Snapshot
    <2> QED BY <1>9, <2>1, <2>2 DEF History!PutBack
  <1>11. force \/ \A p \in TurnPaths(c) : Snapshot[p] = End(c)[p]
    <2>1. force \/ Clash(c) = {}
      BY <1>1
    <2>2. TurnPaths(c) \subseteq Tracked
      BY DEF TurnPaths, Between
    <2> HIDE DEF c
    <2> QED BY <2>1, <2>2 DEF Clash, Between
  <1>12. History!PassOver(n)
    <2>1. n \in 0..Len(checkpoints) /\ Reached(n)
      BY <1>1, <1>4
    <2> QED BY <1>2, <1>4, <2>1, PassesOver
  <1>13. Done' = SubSeq(Done, 1, n - 1)
    <2>1. m \in 0..Len(checkpoints) /\ checkpoints' = SubSeq(checkpoints, 1, m)
      BY <1>1, <1>4
    <2> HIDE DEF m
    <2>2. DoneOf(SubSeq(checkpoints, 1, m), turn_records)
            = SubSeq(DoneOf(checkpoints, turn_records), 1, m)
      BY <1>4, <2>1, DonePrefix
    <2>3. Done' = DoneOf(checkpoints', turn_records')
      BY <1>2 DEF Mapped
    <2> QED BY <1>2, <1>5, <2>1, <2>2, <2>3 DEF m
  <1>14. UndoneBy(r) = [before |-> Snapshot, after |-> Snapshot', paths |-> TurnPaths(c), turn |-> t]
    <2>1. /\ r.checkpoint = c /\ r.record = Record(c) /\ r.files = Snapshot
          /\ r.undone = [p \in Tracked |-> work'[p]] /\ r.paths = TurnPaths(c)
      BY DEF UndoneEntry
    <2> HIDE DEF r, c
    <2> QED BY <1>9, <2>1 DEF UndoneBy
  <1> HIDE DEF r
  <1>15. History!IsTailOf(UndosOf(redo'), Append(UndosOf(redo), UndoneBy(r))) /\ UndosOf(redo') # <<>>
    <2>1. PICK k : k = redo'
      OBVIOUS
    <2>2. k = KeepNewest(Append(redo, r), RedoCap)
      BY <1>1, <2>1 DEF r
    <2>3. History!IsTailOf(UndosOf(k), Append(UndosOf(redo), UndoneBy(r))) /\ UndosOf(k) # <<>>
      BY <1>3, <1>4, <2>2, UndonePushed
    <2> QED BY <2>1, <2>3
  <1>16. Undone' = UndosOf(redo')
    BY DEF Mapped
  <1>17. History!IsTailOf(Undone', Append(Undone,
            [before |-> Snapshot, after |-> Snapshot', paths |-> TurnPaths(c), turn |-> t]))
         /\ Undone' # <<>>
    BY <1>5, <1>14, <1>15, <1>16
  <1> HIDE DEF c, t
  <1>18. n \in 1..Len(Done)
    BY <1>5
  <1> QED BY <1>2, <1>5, <1>8, <1>10, <1>11, <1>12, <1>13, <1>17, <1>18 DEF History!Undo

LEMMA RedoneStep ==
    ASSUME Faithful, Faithful', Mapped, Mapped', NEW force \in BOOLEAN, RedoDone(force)
    PROVE  History!Redo(force)
  <1> DEFINE r == Last(redo)
             c == r.checkpoint
             t == Turned(c, r.record)
  <1>1. /\ phase = "idle" /\ phase' = "idle" /\ redo # <<>>
        /\ force \/ RedoClash(r) = {}
        /\ work' = RedoneFiles(r) /\ redo' = Front(redo)
        /\ checkpoints' = KeepNewest(Append(checkpoints, c), CheckpointCap)
        /\ turn_records' = WithRecord(checkpoints', c, r.record)
    BY DEF RedoDone
  <1>2. /\ Typed /\ redo \in Seq(Redo) /\ checkpoints \in Seq(Commit)
        /\ checkpoints' \in Seq(Commit) /\ Apart(checkpoints', redo')
    BY DEF Faithful, Typed, Lists, Undos, Known
  <1>3. r \in Redo /\ c \in Commit
    <2>1. r \in Redo
      BY <1>1, <1>2, FrontType
    <2> QED BY <2>1 DEF Redo
  <1>4. /\ Undone = UndosOf(redo) /\ Undone' = UndosOf(redo')
        /\ Done = DoneOf(checkpoints, turn_records) /\ Done' = DoneOf(checkpoints', turn_records')
    BY <1>1 DEF Mapped
  <1>5. /\ Undone' = SubSeq(Undone, 1, Len(Undone) - 1) /\ Undone # <<>>
        /\ History!Newest(Undone) = UndoneBy(r)
    <2>1. PICK us : us = redo
      OBVIOUS
    <2>2. /\ UndosOf(Front(us)) = SubSeq(UndosOf(us), 1, Len(UndosOf(us)) - 1)
          /\ UndosOf(us) # <<>> /\ History!Newest(UndosOf(us)) = UndoneBy(Last(us))
      BY <1>1, <1>2, <2>1, UndoneFront
    <2> QED BY <1>1, <1>4, <2>1, <2>2
  <1>6. UndoneBy(r) = [before |-> r.files, after |-> r.undone, paths |-> r.paths, turn |-> t]
    BY DEF UndoneBy
  <1> HIDE DEF c, r
  <1>7. force \/ \A p \in r.paths : Snapshot[p] = r.undone[p]
    <2>1. r.paths \subseteq Tracked
      BY <1>3 DEF Redo
    <2> QED BY <1>1, <2>1 DEF RedoClash, Between
  <1>8. Snapshot' = History!PutBack(r.files, r.paths)
    <2>1. \A p \in Tracked : work'[p] = IF p \in r.paths THEN r.files[p] ELSE work[p]
      BY <1>1, <1>3, RedoneEach
    <2>2. Snapshot' = [p \in Tracked |-> work'[p]] /\ \A p \in Tracked : Snapshot[p] = work[p]
      BY DEF Snapshot
    <2> QED BY <2>1, <2>2 DEF History!PutBack
  <1>9. Shifted(checkpoints', checkpoints, c, Dropped(checkpoints, CheckpointCap))
    BY <1>1, <1>2, <1>3, KeptElements, ConstantsType
  <1>10. /\ checkpoints'[Len(checkpoints')] = c /\ Len(checkpoints') > 0
         /\ Len(checkpoints') \in 1..Len(checkpoints')
    BY <1>2, <1>9 DEF Shifted
  <1>11. PICK k, us, rs2, f : k = checkpoints' /\ us = redo' /\ rs2 = turn_records' /\ f = Done'
    OBVIOUS
  <1>12. NewestRewritten(k, us, r.record, rs2)
    BY <1>1, <1>2, <1>10, <1>11 DEF NewestRewritten
  <1>13. /\ RecordIn(rs2, k[Len(k)]) = r.record
         /\ \A n \in 1..Len(k) : n < Len(k) => RecordIn(rs2, k[n]) = RecordIn(turn_records, k[n])
    BY <1>12, OthersKeepRecords
  <1>14. f = [n \in 1..Len(k) |-> f[n]]
         /\ \A n \in 1..Len(k) : f[n] = Turned(k[n], RecordIn(rs2, k[n]))
    BY <1>4, <1>11 DEF DoneOf
  <1>15. f[Len(k)] = t
    BY <1>10, <1>11, <1>13, <1>14
  <1> HIDE DEF t
  <1>16. PushedTurn(checkpoints, turn_records, c, k, rs2, f, t)
    BY <1>1, <1>2, <1>3, <1>11, <1>13, <1>14, <1>15 DEF PushedTurn
  <1>17. History!IsTailOf(f, Append(DoneOf(checkpoints, turn_records), t)) /\ f # <<>>
    BY <1>16, DonePushed
  <1>18. History!IsTailOf(Done', Append(Done, t)) /\ Done' # <<>>
    BY <1>4, <1>11, <1>17
  <1> QED BY <1>1, <1>5, <1>6, <1>7, <1>8, <1>18 DEF History!Redo

LEMMA AuditStep ==
    ASSUME Faithful, Mapped, Mapped', NEW left \in Tree, AuditRolledBack(left)
    PROVE  History!RollBack
  <1> DEFINE c == [tree |-> Snapshot, at |-> clock']
             q == [after |-> left, ignored |-> NothingSaved]
             r == [checkpoint |-> c, record |-> q,
                   files |-> left, undone |-> Snapshot, paths |-> Between(Snapshot, left),
                   ignored |-> NothingSaved, audit |-> TRUE]
             t == [start |-> Snapshot, end |-> left]
  <1>1. /\ redo' = KeepNewest(Append(redo, r), RedoCap)
        /\ UNCHANGED <<work, checkpoints, turn_records, phase>>
        /\ phase = "turn" /\ \E dt \in Seconds : clock' = clock + dt
    BY DEF AuditRolledBack
  <1>2. Typed /\ work \in Files /\ clock \in Nat /\ redo \in Seq(Redo)
    BY DEF Faithful, Typed, Undos, Rest
  <1>3. c \in Commit
    <2>1. clock' \in Nat
      BY <1>1, <1>2, ConstantsType
    <2> QED BY <1>2, <2>1, CommitType
  <1>4. r \in Redo
    <2>1. q \in TurnRecord /\ Snapshot \in Tree
      BY <1>2, SnapshotType, NothingSavedType DEF TurnRecord
    <2>2. Between(Snapshot, left) \in SUBSET Tracked
      BY DEF Between
    <2> HIDE DEF c, q
    <2> QED BY <1>3, <2>1, <2>2, NothingSavedType DEF Redo
  <1>5. UndoneBy(r) = [before |-> left, after |-> Snapshot, paths |-> History!Moved(t), turn |-> t]
    BY DEF UndoneBy, Turned, History!Moved, Between
  <1> HIDE DEF r
  <1>6. /\ Undone = UndosOf(redo) /\ Undone' = UndosOf(redo') /\ Snapshot' = Snapshot
        /\ Done = DoneOf(checkpoints, turn_records) /\ Done' = Done
    BY <1>1, SnapshotOf DEF Mapped
  <1>7. History!IsTailOf(UndosOf(redo'), Append(UndosOf(redo), UndoneBy(r))) /\ UndosOf(redo') # <<>>
    <2>1. PICK k : k = redo'
      OBVIOUS
    <2>2. k = KeepNewest(Append(redo, r), RedoCap)
      BY <1>1, <2>1
    <2>3. History!IsTailOf(UndosOf(k), Append(UndosOf(redo), UndoneBy(r))) /\ UndosOf(k) # <<>>
      BY <1>2, <1>4, <2>2, UndonePushed
    <2> QED BY <2>1, <2>3
  <1>8. left \in History!Tree
    BY SnapshotOf
  <1> QED BY <1>1, <1>5, <1>6, <1>7, <1>8 DEF History!RollBack

LEMMA StepImplements ==
    ASSUME NothingFails, Faithful, Faithful', Complete, Mapped, Mapped', [Next]_vars
    PROVE  [History!Next]_(History!vars)
  <1>0. Typed /\ Typed'
    BY DEF Faithful
  <1>1. CASE \/ BeginTurn \/ RedoRefused \/ UNCHANGED vars
             \/ \E p \in Tracked, x \in File : ToolWrite(p, x)
             \/ \E p \in Ignored, x \in File : WriteIgnored(p, x)
             \/ \E p \in Paths, x \in File : UserEdit(p, x)
             \/ \E p \in Paths, x \in File : WriteUnkept(p, x)
    <2>1. /\ UNCHANGED <<checkpoints, redo, turn_records>>
          /\ phase' = phase \/ {phase, phase'} \subseteq {"idle", "turn"}
      BY <1>1 DEF BeginTurn, RedoRefused, ToolWrite, WriteIgnored, UserEdit,
             WriteUnkept, vars, meta, history
    <2> QED BY <1>0, <2>1, WriteStep DEF History!Next
  <1>2. CASE CheckpointBeforeBuild
    BY <1>2, BeginStep DEF History!Next
  <1>3. CASE \E p \in Ignored : SaveIgnored(p)
    BY <1>0, <1>3, SaveStep DEF History!Next
  <1>4. CASE EndTurn
    BY <1>0, <1>4, EndStep, FinishStep DEF History!Next
  <1>5. CASE UndoNothing \/ UndoRefused
    BY <1>0, <1>5, ForgetStep DEF History!Next
  <1>6. CASE \E force \in BOOLEAN : UndoDone(force)
    BY <1>6, UndoneStep DEF History!Next
  <1>7. CASE \E force \in BOOLEAN : RedoDone(force)
    BY <1>7, RedoneStep DEF History!Next
  <1>8. CASE RevertFails \/ Crash
    BY <1>8, OnlyTheOthers DEF RevertFails, Crash
  <1>9. CASE \E p \in Tracked, x \in File : Revert(p, x)
    BY <1>9, RevertStep DEF History!Next
  <1>10. CASE \E left \in Tree : AuditRolledBack(left)
    BY <1>10, AuditStep DEF History!Next
  <1> QED BY <1>1, <1>2, <1>3, <1>4, <1>5, <1>6, <1>7, <1>8, <1>9, <1>10 DEF Next

LEMMA InitComplete == Init => Complete
  <1> SUFFICES ASSUME Init PROVE Complete
    OBVIOUS
  <1>1. past = <<>> /\ future = <<>> /\ phase = "idle" /\ Len(<<>>) = 0
    BY EmptySeq DEF Init
  <1> QED BY <1>1 DEF Complete

\* Of the files a snapshot holds, undo, redo, the reverts, the audits and
\* the turns themselves are steps of TurnHistory, where a turn is the files
\* before and after it: nothing that session.rs keeps of commits, records and
\* caps makes agent.rs (checkpoint_before_build, undo_with, redo_with) do
\* anything else.  Two checkpoints of the same files are a second apart,
\* and no turn is cut short and no revert fails half way.
THEOREM HistoryIsImplemented ==
    ASSUME ClockMoves, NothingFails
    PROVE  Spec => ImplementsTurnHistory
  <1> DEFINE Inv == Faithful /\ Complete
  <1>1. Init => Inv
    BY InitFaithful, InitComplete
  <1>2. Inv /\ [Next]_vars => Inv'
    BY NextFaithful, CompleteStays DEF Faithful
  <1>3. Init => History!Init
    BY InitStep
  <1>4. Inv /\ Inv' /\ [Next]_vars => [History!Next]_(History!vars)
    <2> SUFFICES ASSUME Inv, Inv', [Next]_vars PROVE [History!Next]_(History!vars)
      OBVIOUS
    <2>1. Mapped /\ Mapped'
      BY MappedHolds, MappedToo
    <2> QED BY <2>1, StepImplements
  <1> HIDE DEF Inv
  <1> QED BY <1>1, <1>2, <1>3, <1>4, PTL DEF Spec, ImplementsTurnHistory, History!Spec
=============================================================================
