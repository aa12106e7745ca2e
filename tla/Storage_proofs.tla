---------------------------- MODULE Storage_proofs -----------------------------
(* Proofs about Storage, for any sessions, caps and numbers of commits,     *)
(* days, rows and crashes: its types, the refs of what a session can still  *)
(* put back, and, where one process at a time brings it up to date, what    *)
(* the running total keeps.                                                 *)
EXTENDS Storage, TLAPS

Fields == {"at", "sessions", "refs", "touched", "still", "now"}

MoneyTyped ==
    /\ alive \subseteq Sessions
    /\ rows \in [Sessions -> Nat] /\ cache \in [Sessions -> Nat]
    /\ copy \in [{"cleaner"} -> [Sessions -> Nat] \cup {None}]
    /\ clean = [f \in Fields |-> clean[f]]
    /\ clean.still \subseteq Sessions
    /\ clean.at = "shown" => clean.still = {}

Gone == (Sessions \ alive) \ late

\* The cleaner holds the total only while it counts, and as it was for every
\* session that is gone.
CopyIsTrue ==
    copy["cleaner"] # None =>
        /\ clean.at = "counting"
        /\ \A s \in Gone : copy["cleaner"][s] = rows[s]

\* What a session that is about to be removed spent has been counted.
CountedIsTrue ==
    /\ clean.at = "counted" =>
         \A s \in (clean.sessions \cap alive) \ (late \cup clean.touched) : cache[s] = rows[s]
    /\ clean.at = "removing" => \A s \in (clean.still \cap alive) \ late : cache[s] = rows[s]

Counted == RemovedStaysCounted /\ CopyIsTrue /\ CountedIsTrue
IInv == MoneyTyped /\ Counted

-----------------------------------------------------------------------------
LEMMA FieldsOfClean ==
    ASSUME clean = [f \in Fields |-> clean[f]]
    PROVE  /\ \A v : /\ [clean EXCEPT !.at = v] = [f \in Fields |-> [clean EXCEPT !.at = v][f]]
                     /\ [clean EXCEPT !.at = v].at = v
                     /\ \A f \in Fields \ {"at"} : [clean EXCEPT !.at = v][f] = clean[f]
           /\ \A v : /\ [clean EXCEPT !.touched = v]
                          = [f \in Fields |-> [clean EXCEPT !.touched = v][f]]
                     /\ [clean EXCEPT !.touched = v].touched = v
                     /\ \A f \in Fields \ {"touched"} : [clean EXCEPT !.touched = v][f] = clean[f]
  BY DEF Fields

\* A session's step that charges nothing, removes nothing and may stamp it.
LEMMA StampStep ==
    ASSUME IInv, UNCHANGED <<alive, rows, cache, copy, late>>,
           clean' = clean \/ \E s : clean' = [clean EXCEPT !.touched = @ \cup s]
    PROVE  IInv'
  <1>1. CASE clean' = clean
    BY <1>1 DEF IInv, MoneyTyped, Counted, RemovedStaysCounted, CopyIsTrue, CountedIsTrue, Gone
  <1>2. ASSUME NEW s, clean' = [clean EXCEPT !.touched = @ \cup s] PROVE IInv'
    <2>1. /\ clean' = [f \in Fields |-> clean'[f]]
          /\ clean'.touched = clean.touched \cup s
          /\ clean'.at = clean.at /\ clean'.sessions = clean.sessions
          /\ clean'.still = clean.still
      BY <1>2, FieldsOfClean DEF IInv, MoneyTyped, Fields
    <2>2. MoneyTyped'
      BY <2>1 DEF IInv, MoneyTyped
    <2>3. Counted'
      BY <2>1 DEF IInv, Counted, RemovedStaysCounted, CopyIsTrue, CountedIsTrue, Gone
    <2> QED BY <2>2, <2>3 DEF IInv
  <1> QED BY <1>1, <1>2

\* A step of the cleanup, by what it makes of the parts that matter.
LEMMA CleanStep ==
    ASSUME IInv, UNCHANGED <<alive, rows, cache, late>>,
           copy' = copy \/ copy'["cleaner"] = None,
           copy' \in [{"cleaner"} -> [Sessions -> Nat] \cup {None}],
           clean' = [f \in Fields |-> clean'[f]], clean'.still \subseteq Sessions,
           clean'.at = "shown" => clean'.still = {},
           copy'["cleaner"] # None => clean'.at = "counting",
           CountedIsTrue'
    PROVE  IInv'
  <1>1. MoneyTyped'
    BY DEF IInv, MoneyTyped
  <1>2. RemovedStaysCounted' /\ CopyIsTrue'
    BY DEF IInv, Counted, RemovedStaysCounted, CopyIsTrue, Gone
  <1> QED BY <1>1, <1>2 DEF IInv, Counted

-----------------------------------------------------------------------------
(* A session's own steps.                                                  *)

\* Every step of a session's commands.
Works(s) ==
    \/ TakeCheckpoint(s) \/ PushTurn(s) \/ RecordTurn(s) \/ ClearRedo(s) \/ EndTurn(s)
    \/ RevertTakes(s) \/ RevertPushes(s) \/ RevertRecords(s) \/ RevertFails(s)
    \/ UndoBegins(s) \/ UndoPassesOver(s) \/ UndoStops(s) \/ UndoPops(s) \/ UndoPushes(s)
    \/ RedoPops(s) \/ RedoPushes(s) \/ RedoRecords(s)

\* What none of them touches.
LEMMA WorksLeaves ==
    ASSUME NEW s, Works(s)
    PROVE  /\ UNCHANGED <<alive, rows, cache, copy, late, day, crashes>>
           /\ Touch(s) \/ UNCHANGED <<clean, used>>
           /\ lost' = lost \/ lost' = lost \cup {s}
  <1>1. CASE TakeCheckpoint(s) \/ RevertTakes(s)
    BY <1>1 DEF TakeCheckpoint, RevertTakes, Take, money
  <1>2. CASE PushTurn(s) \/ RevertPushes(s)
    BY <1>2 DEF PushTurn, RevertPushes, Push, money
  <1>3. CASE RecordTurn(s) \/ ClearRedo(s)
    BY <1>3 DEF RecordTurn, ClearRedo, money
  <1>4. CASE EndTurn(s) \/ RevertRecords(s)
    BY <1>4 DEF EndTurn, RevertRecords, RecordEnd, money
  <1>5. CASE RevertFails(s) \/ UndoBegins(s) \/ UndoPassesOver(s) \/ UndoStops(s)
    BY <1>5 DEF RevertFails, UndoBegins, UndoPassesOver, UndoStops, money
  <1>6. CASE UndoPops(s) \/ UndoPushes(s)
    BY <1>6 DEF UndoPops, UndoPushes, money
  <1>7. CASE RedoPops(s) \/ RedoPushes(s) \/ RedoRecords(s)
    BY <1>7 DEF RedoPops, RedoPushes, RedoRecords, money
  <1> QED BY <1>1, <1>2, <1>3, <1>4, <1>5, <1>6, <1>7 DEF Works

LEMMA StampingSteps ==
    ASSUME IInv, NEW s \in Active, Works(s) \/ Crash(s) \/ Save(s)
    PROVE  IInv'
  <1>1. UNCHANGED <<alive, rows, cache, copy, late>>
    BY WorksLeaves DEF Crash, Save, money
  <1>2. clean' = clean \/ Touch(s)
    BY WorksLeaves DEF Crash, Save
  <1>3. clean' = clean \/ \E x : clean' = [clean EXCEPT !.touched = @ \cup x]
    BY <1>2 DEF Touch
  <1> QED BY <1>1, <1>3, StampStep

LEMMA SpendStep ==
    ASSUME IInv, NEW s \in Active, SpendRow(s)
    PROVE  IInv'
  <1>0. /\ s \in alive /\ s \in Sessions
        /\ rows' = [rows EXCEPT ![s] = @ + 1]
        /\ UNCHANGED <<alive, cache, copy, clean>>
        /\ late \subseteq late'
    BY DEF SpendRow, Working, IInv, MoneyTyped
  <1>1. \A x \in Sessions : x # s => rows'[x] = rows[x]
    BY <1>0 DEF IInv, MoneyTyped
  <1>2. MoneyTyped'
    <2>1. rows \in [Sessions -> Nat]
      BY DEF IInv, MoneyTyped
    <2>2. rows[s] + 1 \in Nat
      BY <2>1, <1>0
    <2>3. rows' \in [Sessions -> Nat]
      BY <2>1, <2>2, <1>0, Zenon
    <2> QED BY <2>3, <1>0 DEF IInv, MoneyTyped
  <1>3. RemovedStaysCounted'
    BY <1>0, <1>1 DEF IInv, Counted, RemovedStaysCounted
  <1>4. CopyIsTrue'
    BY <1>0, <1>1 DEF IInv, Counted, CopyIsTrue, Gone
  <1>5. CountedIsTrue'
    <2>1. clean.at = "counted" /\ s \in clean.sessions \ clean.touched => s \in late'
      BY DEF SpendRow
    <2>2. clean.at = "removing" /\ s \in clean.still => s \in late'
      BY DEF SpendRow
    <2>3. alive \subseteq Sessions
      BY DEF IInv, MoneyTyped
    <2>4. ASSUME clean.at = "counted",
                 NEW x \in (clean.sessions \cap alive) \ (late' \cup clean.touched)
          PROVE  cache[x] = rows'[x]
      BY <2>1, <2>3, <2>4, <1>0, <1>1 DEF IInv, Counted, CountedIsTrue
    <2>5. ASSUME clean.at = "removing", NEW x \in (clean.still \cap alive) \ late'
          PROVE  cache[x] = rows'[x]
      BY <2>2, <2>3, <2>5, <1>0, <1>1 DEF IInv, Counted, CountedIsTrue
    <2> QED BY <2>4, <2>5, <1>0 DEF CountedIsTrue
  <1> QED BY <1>2, <1>3, <1>4, <1>5 DEF IInv, Counted

LEMMA DeleteSessionStep ==
    ASSUME IInv, NEW s \in Active, DeleteSession(s)
    PROVE  IInv'
  <1>0. alive' = alive \ {s} /\ late' = late \cup {s} /\ UNCHANGED <<rows, cache, copy, clean>>
    BY DEF DeleteSession, Remove
  <1> QED BY <1>0 DEF IInv, MoneyTyped, Counted, RemovedStaysCounted, CopyIsTrue, CountedIsTrue,
                      Gone

-----------------------------------------------------------------------------
(* The total.                                                              *)

LEMMA ReadTotalStep ==
    ASSUME IInv, ReadTotal("cleaner")
    PROVE  IInv'
  <1>0. /\ clean.at = "counting" /\ copy' = [copy EXCEPT !["cleaner"] = cache]
        /\ UNCHANGED <<alive, rows, cache, late, clean>>
    BY DEF ReadTotal
  <1>1. copy'["cleaner"] = cache
    BY <1>0 DEF IInv, MoneyTyped
  <1>2. MoneyTyped'
    BY <1>0 DEF IInv, MoneyTyped
  <1>3. CopyIsTrue'
    BY <1>0, <1>1 DEF IInv, Counted, RemovedStaysCounted, CopyIsTrue, Gone
  <1>4. RemovedStaysCounted' /\ CountedIsTrue'
    BY <1>0 DEF IInv, Counted, RemovedStaysCounted, CountedIsTrue
  <1> QED BY <1>2, <1>3, <1>4 DEF IInv, Counted

LEMMA WriteTotalStep ==
    ASSUME IInv, WriteTotal("cleaner")
    PROVE  IInv'
  <1>0. /\ copy["cleaner"] # None /\ copy["cleaner"] \in [Sessions -> Nat]
        /\ cache' = [s \in Sessions |-> IF s \in alive THEN rows[s] ELSE copy["cleaner"][s]]
        /\ copy' = [copy EXCEPT !["cleaner"] = None]
        /\ clean' = [clean EXCEPT !.at = "counted"]
        /\ UNCHANGED <<alive, rows, late>>
        /\ alive \subseteq Sessions
    BY DEF WriteTotal, IInv, MoneyTyped
  <1>1. /\ clean' = [f \in Fields |-> clean'[f]] /\ clean'.at = "counted"
        /\ clean'.sessions = clean.sessions /\ clean'.touched = clean.touched
        /\ clean'.still = clean.still
    BY <1>0, FieldsOfClean DEF IInv, MoneyTyped, Fields
  <1>2. cache' \in [Sessions -> Nat] /\ \A s \in alive : cache'[s] = rows[s]
    BY <1>0 DEF IInv, MoneyTyped
  <1>3. \A s \in Gone : cache'[s] = rows[s]
    BY <1>0 DEF IInv, Counted, CopyIsTrue, Gone
  <1>4. copy'["cleaner"] = None
    BY <1>0 DEF IInv, MoneyTyped
  <1>5. MoneyTyped'
    BY <1>0, <1>1, <1>2 DEF IInv, MoneyTyped
  <1>6. RemovedStaysCounted' /\ CopyIsTrue'
    BY <1>0, <1>3, <1>4 DEF RemovedStaysCounted, CopyIsTrue, Gone
  <1>7. CountedIsTrue'
    <2>1. alive' = alive /\ rows' = rows
      BY <1>0
    <2>2. ASSUME NEW x \in (clean'.sessions \cap alive') \ (late' \cup clean'.touched)
          PROVE  cache'[x] = rows'[x]
      BY <2>1, <2>2, <1>2
    <2>3. clean'.at # "removing"
      BY <1>1
    <2> QED BY <2>2, <2>3 DEF CountedIsTrue
  <1> QED BY <1>5, <1>6, <1>7 DEF IInv, Counted

-----------------------------------------------------------------------------
(* The cleanup.                                                            *)

LEMMA ShowStep ==
    ASSUME IInv, NEW kind, Show(kind)
    PROVE  IInv'
  <1>1. PICK gone, taken :
            clean' = [NoCleanup EXCEPT !.at = "shown", !.sessions = gone, !.refs = taken]
    BY DEF Show
  <1>2. clean' = [f \in Fields |-> clean'[f]] /\ clean'.at = "shown" /\ clean'.still = {}
    BY <1>1 DEF NoCleanup, Fields
  <1>3. UNCHANGED <<alive, rows, cache, copy, late>> /\ clean.at = "none"
    BY DEF Show, money
  <1>4. copy["cleaner"] = None
    BY <1>3 DEF IInv, Counted, CopyIsTrue
  <1> QED BY <1>2, <1>3, <1>4, CleanStep DEF IInv, MoneyTyped, CountedIsTrue

LEMMA YesStep ==
    ASSUME IInv, Yes
    PROVE  IInv'
  <1>1. /\ clean' = [clean EXCEPT !.now = day,
                       !.at = IF clean.sessions = {} THEN "removing" ELSE "counting"]
        /\ clean.at = "shown" /\ UNCHANGED <<alive, rows, cache, copy, late>>
    BY DEF Yes, money
  <1>2. /\ clean' = [f \in Fields |-> clean'[f]] /\ clean'.still = clean.still
        /\ clean'.at = IF clean.sessions = {} THEN "removing" ELSE "counting"
    BY <1>1 DEF IInv, MoneyTyped, Fields
  <1>3. copy["cleaner"] = None
    BY <1>1 DEF IInv, Counted, CopyIsTrue
  <1>4. clean.still = {} /\ clean'.still = {}
    BY <1>1, <1>2 DEF IInv, MoneyTyped
  <1>6. clean'.at # "shown" /\ clean'.at # "counted"
    BY <1>2
  <1>5. CountedIsTrue'
    BY <1>4, <1>6 DEF CountedIsTrue
  <1> QED BY <1>1, <1>2, <1>3, <1>4, <1>5, <1>6, CleanStep DEF IInv, MoneyTyped

LEMMA ReadAgainStep ==
    ASSUME IInv, ReadAgain
    PROVE  IInv'
  <1>1. /\ clean' = [NoCleanup EXCEPT !.at = "removing", !.refs = clean.refs, !.now = clean.now,
                       !.still = (clean.sessions \cap alive) \ clean.touched]
        /\ clean.at = "counted" /\ UNCHANGED <<alive, rows, cache, copy, late>>
    BY DEF ReadAgain, money
  <1>2. /\ clean' = [f \in Fields |-> clean'[f]] /\ clean'.at = "removing"
        /\ clean'.still = (clean.sessions \cap alive) \ clean.touched
    BY <1>1 DEF NoCleanup, Fields
  <1>3. copy["cleaner"] = None
    BY <1>1 DEF IInv, Counted, CopyIsTrue
  <1>4. CountedIsTrue'
    BY <1>1, <1>2 DEF IInv, Counted, CountedIsTrue
  <1> QED BY <1>1, <1>2, <1>3, <1>4, CleanStep DEF IInv, MoneyTyped

LEMMA RemoveOneStep ==
    ASSUME IInv, NEW s \in Sessions, RemoveOne(s)
    PROVE  IInv'
  <1>1. /\ clean' = [clean EXCEPT !.still = clean.still \ {s}] /\ alive' = alive \ {s}
        /\ clean.at = "removing" /\ s \in clean.still
        /\ UNCHANGED <<rows, cache, copy, late>>
    BY DEF RemoveOne, Remove, money
  <1>2. /\ clean' = [f \in Fields |-> clean'[f]] /\ clean'.at = "removing"
        /\ clean'.still = clean.still \ {s}
    BY <1>1 DEF IInv, MoneyTyped, Fields
  <1>3. copy["cleaner"] = None
    BY <1>1 DEF IInv, Counted, CopyIsTrue
  <1>4. MoneyTyped'
    BY <1>1, <1>2 DEF IInv, MoneyTyped
  <1>5. RemovedStaysCounted'
    BY <1>1 DEF IInv, Counted, RemovedStaysCounted, CountedIsTrue
  <1>6. CopyIsTrue' /\ CountedIsTrue'
    BY <1>1, <1>2, <1>3 DEF IInv, Counted, CopyIsTrue, CountedIsTrue
  <1> QED BY <1>4, <1>5, <1>6 DEF IInv, Counted

\* What is kept of the plan for its last step.
LEMMA Deleting ==
    ASSUME NEW goes, \/ clean' = NoCleanup
                     \/ clean' = [NoCleanup EXCEPT !.at = "deleting", !.refs = goes]
    PROVE  /\ clean' = [f \in Fields |-> clean'[f]] /\ clean'.at \in {"none", "deleting"}
           /\ clean'.still = {} /\ clean'.sessions = {} /\ clean'.touched = {}
           /\ clean'.refs \in {{}, goes}
  <1>1. CASE clean' = NoCleanup
    BY <1>1 DEF NoCleanup, Fields
  <1>2. CASE clean' = [NoCleanup EXCEPT !.at = "deleting", !.refs = goes]
    BY <1>2 DEF NoCleanup, Fields
  <1> QED BY <1>1, <1>2

LEMMA ReadRefsStep ==
    ASSUME IInv, ReadRefs
    PROVE  IInv'
  <1>1. PICK goes : \/ clean' = NoCleanup
                    \/ clean' = [NoCleanup EXCEPT !.at = "deleting", !.refs = goes]
    BY DEF ReadRefs
  <1>2. clean.at = "removing" /\ UNCHANGED <<alive, rows, cache, copy, late>>
    BY DEF ReadRefs, money
  <1>3. /\ clean' = [f \in Fields |-> clean'[f]] /\ clean'.at \in {"none", "deleting"}
        /\ clean'.still = {}
    BY <1>1, Deleting
  <1>4. copy["cleaner"] = None
    BY <1>2 DEF IInv, Counted, CopyIsTrue
  <1> QED BY <1>2, <1>3, <1>4, CleanStep DEF IInv, MoneyTyped, CountedIsTrue

LEMMA NoCleanupStep ==
    ASSUME IInv, Delete \/ GiveUp
    PROVE  IInv'
  <1>1. /\ clean' = NoCleanup /\ UNCHANGED <<alive, rows, cache, late>>
        /\ copy' = copy \/ copy' = [copy EXCEPT !["cleaner"] = None]
        /\ clean.at = "deleting" \/ copy' = [copy EXCEPT !["cleaner"] = None]
    BY DEF Delete, GiveUp, money
  <1>2. clean' = [f \in Fields |-> clean'[f]] /\ clean'.at = "none" /\ clean'.still = {}
    BY <1>1 DEF NoCleanup, Fields
  <1>3. copy'["cleaner"] = None
    BY <1>1 DEF IInv, MoneyTyped, Counted, CopyIsTrue
  <1>4. copy' \in [{"cleaner"} -> [Sessions -> Nat] \cup {None}]
    BY <1>1 DEF IInv, MoneyTyped
  <1> QED BY <1>1, <1>2, <1>3, <1>4, CleanStep DEF CountedIsTrue

-----------------------------------------------------------------------------
LEMMA InitIInv ==
    ASSUME Readers = {}
    PROVE  Init => IInv
  <1> SUFFICES ASSUME Init PROVE IInv
    OBVIOUS
  <1>1. copy["cleaner"] = None /\ clean = NoCleanup /\ alive = Sessions
    BY DEF Init
  <1>2. MoneyTyped
    BY DEF Init, MoneyTyped, NoCleanup, Fields
  <1>3. Counted
    BY <1>1 DEF Counted, RemovedStaysCounted, CopyIsTrue, CountedIsTrue, NoCleanup
  <1> QED BY <1>2, <1>3 DEF IInv

LEMMA NextIInv ==
    ASSUME Readers = {}
    PROVE  IInv /\ [Next]_vars => IInv'
  <1> SUFFICES ASSUME IInv, [Next]_vars PROVE IInv'
    OBVIOUS
  <1>1. ASSUME NEW s \in Active,
               \/ Works(s) \/ Crash(s) \/ SpendRow(s) \/ Save(s) \/ DeleteSession(s)
        PROVE  IInv'
    BY <1>1, StampingSteps, SpendStep, DeleteSessionStep
  <1>2. ASSUME NEW s \in Sessions, RemoveOne(s) PROVE IInv'
    BY <1>2, RemoveOneStep
  <1>3. ASSUME NEW r \in Readers \cup {"cleaner"}, ReadTotal(r) \/ WriteTotal(r) PROVE IInv'
    BY <1>3, ReadTotalStep, WriteTotalStep
  <1>4. ASSUME NEW kind, Show(kind) PROVE IInv'
    BY <1>4, ShowStep
  <1>5. CASE Yes \/ ReadAgain \/ ReadRefs \/ Delete \/ GiveUp
    BY <1>5, YesStep, ReadAgainStep, ReadRefsStep, NoCleanupStep
  <1>6. CASE NextDay \/ UNCHANGED vars
    BY <1>6, StampStep DEF NextDay, vars, money
  <1> QED BY <1>1, <1>2, <1>3, <1>4, <1>5, <1>6 DEF Next, Works

\* What a session removed by the cleanup had spent stays in the project's
\* total (storage.rs, apply; project.rs, project_spend), up to the rows it
\* wrote after the cleanup last looked, whatever the sessions do meanwhile,
\* as long as no other process writes the total.
THEOREM RemovedAreCounted ==
    ASSUME Readers = {}
    PROVE  Spec => []RemovedStaysCounted
  <1>1. IInv => RemovedStaysCounted
    BY DEF IInv, Counted
  <1> QED BY <1>1, InitIInv, NextIInv, PTL DEF Spec

-----------------------------------------------------------------------------
(* What a session's index names, and where each commit has its ref.        *)

Entry == [checkpoint : Nat, files : Nat, undone : Nat, after : Nat \cup {None}]
Popped == [checkpoint : Nat, files : {None}, undone : {None}, after : Nat \cup {None}]

\* The phases with a new snapshot in hand, those with an undone turn in hand,
\* and those from a turn's or a revert's snapshot to the end of its redos.
Fresh == {"taken", "reverting", "undoing"}
Between == {"undone", "redoing", "redone"}
Yielding == {"taken", "pushed", "recorded", "reverting", "reverted", "kept"}

InHand(ph, h) == IF ph \in Between THEN UNION {InRedo(r) : r \in h} ELSE h
RedoNames(rd) == UNION {InRedo(rd[i]) : i \in 1..Len(rd)}
RecordNames(rec) == DOMAIN rec \cup ({rec[c] : c \in DOMAIN rec} \ {None})

\* What a session's index names, and what its Ryter has in hand.
Reach(s) == Named(s) \cup Unsaved(s)
Listed == {p[2] : p \in clean.refs}

Has(n, c) == n \in DOMAIN refs /\ refs[n] = c

\* What is in hand goes with the phase.
HandedOf(cp, rd, ph, h) ==
    /\ ph \notin Fresh \cup Between => h = {}
    /\ ph = "undone" => h \subseteq Entry
    /\ ph \in {"redoing", "redone"} => h \subseteq Popped
    /\ ph \in {"pushed", "recorded", "turn", "reverted", "kept"} => cp # <<>>
    /\ ph = "turn" => rd = <<>>

Handed(s) ==
    /\ HandedOf(checkpoints[s], redo[s], phase[s], hand[s])
    /\ phase[s] # "idle" => s \in alive

Indexed(s) ==
    /\ Len(checkpoints[s]) <= CheckpointCap
    /\ Len(redo[s]) <= RedoCap
    /\ Reach(s) \subseteq Commits

\* A snapshot no save names is of today, and no cleanup lists it.
OfToday(s) ==
    phase[s] \in Fresh => \A c \in hand[s] : made[c] = day /\ c \notin Listed

Shaped ==
    /\ made \in Seq(0..MaxDays) /\ day \in 0..MaxDays
    /\ alive \subseteq Sessions
    /\ checkpoints \in [Sessions -> Seq(Nat)]
    /\ redo \in [Sessions -> Seq(Entry)]
    /\ records = [s \in Sessions |-> records[s]]
    /\ phase \in [Sessions -> Phases]
    /\ hand = [s \in Sessions |-> hand[s]]
    /\ DOMAIN refs \subseteq Names
    /\ \A n \in DOMAIN refs : refs[n] \in Commits
    /\ \A n, m : \A c : Has(n, c) /\ Has(m, c) => n = m
    /\ clean = [f \in Fields |-> clean[f]]
    /\ Listed \subseteq Commits

\* A checkpoint is at some place of its session's turns, and how its turn ended
\* is under its own name, or under its place where a revert ended it.
TurnAt(s, c) == \E i \in Nat : Has(Name(s, "turn", i), c)
EndHeld(s, c, a) ==
    \/ a = None
    \/ Has(Name(s, "after", c), a)
    \/ \E i \in Nat : Has(Name(s, "turn", i), c) /\ Has(Name(s, "reverted", i), a)

\* All that a redo at the k-th place needs.
RedoHeld(s, k, r) ==
    /\ Has(Name(s, "redo", k), r.files) /\ Has(Name(s, "undone", k), r.undone)
    /\ TurnAt(s, r.checkpoint) /\ EndHeld(s, r.checkpoint, r.after)

\* Where each commit's ref is, by what the index names and what is in hand.
PlacedOf(s, cp, rec, rd, ph, h) ==
    /\ \A i \in 1..Len(cp) : Has(Name(s, "turn", i), cp[i])
    /\ \A c \in DOMAIN rec : TurnAt(s, c) => EndHeld(s, c, rec[c])
    /\ ph \notin Yielding => \A k \in 1..Len(rd) : RedoHeld(s, k, rd[k])
    /\ ph \in {"taken", "reverting"} => \A c \in h : Has(Name(s, "turn", Len(cp) + 1), c)
    /\ ph = "undoing" => \A c \in h : Has(Name(s, "redo", Len(rd) + 1), c)
    /\ ph = "undone" => \A r \in h : RedoHeld(s, Len(rd) + 1, r)
    /\ ph \in {"redoing", "redone"} =>
         \A r \in h : TurnAt(s, r.checkpoint) /\ EndHeld(s, r.checkpoint, r.after)

Placed(s) == PlacedOf(s, checkpoints[s], records[s], redo[s], phase[s], hand[s])

\* What a cleanup is about to delete, no session can put back.
Spared ==
    clean.at = "deleting" => \A s \in alive \ lost : Reach(s) \cap Listed = {}

Held ==
    /\ Shaped
    /\ \A s \in Sessions : Handed(s) /\ Indexed(s) /\ OfToday(s)
    /\ Spared
    /\ \A s \in alive \ lost : Placed(s)

-----------------------------------------------------------------------------
(* Sequences, and what the parts of an index name.                         *)

LEMMA ReachParts ==
    ASSUME NEW s
    PROVE  /\ Named(s) = Elements(checkpoints[s]) \cup RecordNames(records[s])
                           \cup RedoNames(redo[s])
           /\ Named(s)' = Elements(checkpoints[s]') \cup RecordNames(records[s]')
                           \cup RedoNames(redo[s]')
           /\ Reach(s) = Named(s) \cup InHand(phase[s], hand[s])
           /\ Reach(s)' = Named(s)' \cup InHand(phase[s]', hand[s]')
  BY DEF Reach, Named, Unsaved, RecordNames, RedoNames, InHand, Between

LEMMA AppendParts ==
    ASSUME NEW S, NEW q \in Seq(S), NEW e \in S
    PROVE  /\ Append(q, e) \in Seq(S) /\ Len(Append(q, e)) = Len(q) + 1
           /\ \A i \in 1..Len(q) : Append(q, e)[i] = q[i]
           /\ Append(q, e)[Len(q) + 1] = e /\ Last(Append(q, e)) = e
           /\ Elements(Append(q, e)) = Elements(q) \cup {e}
  <1>1. /\ Append(q, e) \in Seq(S) /\ Len(Append(q, e)) = Len(q) + 1 /\ Len(q) \in Nat
        /\ \A i \in 1..Len(q) : Append(q, e)[i] = q[i]
        /\ Append(q, e)[Len(q) + 1] = e
    OBVIOUS
  <1> DEFINE a == Append(q, e)
  <1> HIDE DEF a
  <1>2. Len(a) = Len(q) + 1 /\ Len(q) \in Nat /\ a[Len(q) + 1] = e
        /\ \A i \in 1..Len(q) : a[i] = q[i]
    BY <1>1 DEF a
  <1>3. Elements(a) \subseteq Elements(q) \cup {e}
    <2>1. \A i \in 1..Len(a) : i \in 1..Len(q) \/ i = Len(q) + 1
      BY <1>2
    <2> QED BY <1>2, <2>1 DEF Elements
  <1>4. Elements(q) \cup {e} \subseteq Elements(a)
    <2>1. Len(q) + 1 \in 1..Len(a) /\ \A i \in 1..Len(q) : i \in 1..Len(a)
      BY <1>2
    <2> QED BY <1>2, <2>1 DEF Elements
  <1> QED BY <1>1, <1>2, <1>3, <1>4 DEF a, Last

LEMMA ButLastParts ==
    ASSUME NEW S, NEW q \in Seq(S), q # <<>>
    PROVE  /\ AllButLast(q) \in Seq(S) /\ Len(AllButLast(q)) = Len(q) - 1
           /\ Len(q) \in Nat \ {0} /\ Last(q) = q[Len(q)] /\ Last(q) \in S
           /\ \A i \in 1 .. Len(q) - 1 : AllButLast(q)[i] = q[i]
           /\ Elements(q) = Elements(AllButLast(q)) \cup {Last(q)}
  <1>1. Len(q) \in Nat \ {0} /\ Last(q) = q[Len(q)] /\ Last(q) \in S
    BY DEF Last
  <1>2. /\ AllButLast(q) \in Seq(S) /\ Len(AllButLast(q)) = Len(q) - 1
        /\ \A i \in 1 .. Len(q) - 1 : AllButLast(q)[i] = q[i]
    <2> DEFINE n == Len(q) - 1
               p == SubSeq(q, 1, n)
    <2>1. n \in Nat /\ n + 1 = Len(q) /\ AllButLast(q) = p
      BY <1>1 DEF AllButLast
    <2> HIDE DEF n
    <2>2. p \in Seq(S)
      BY <2>1
    <2>3. Len(p) = n /\ \A i \in 1..n : p[i] = q[i]
      BY <2>1
    <2>4. n = Len(q) - 1
      BY DEF n
    <2> QED BY <2>1, <2>2, <2>3, <2>4
  <1> DEFINE a == AllButLast(q)
  <1> HIDE DEF a
  <1>3. Len(a) = Len(q) - 1 /\ \A i \in 1 .. Len(q) - 1 : a[i] = q[i]
    BY <1>2 DEF a
  <1>4. Elements(a) \cup {Last(q)} \subseteq Elements(q)
    <2>1. Len(q) \in 1..Len(q) /\ \A i \in 1..Len(a) : i \in 1..Len(q) /\ i \in 1 .. Len(q) - 1
      BY <1>1, <1>3
    <2> QED BY <1>1, <1>3, <2>1 DEF Elements
  <1>5. Elements(q) \subseteq Elements(a) \cup {Last(q)}
    <2>1. \A i \in 1..Len(q) : i = Len(q) \/ (i \in 1..Len(a) /\ i \in 1 .. Len(q) - 1)
      BY <1>1, <1>3
    <2> QED BY <1>1, <1>3, <2>1 DEF Elements
  <1> QED BY <1>1, <1>2, <1>4, <1>5 DEF a

LEMMA NewestParts ==
    ASSUME NEW S, NEW q \in Seq(S), NEW cap \in Nat \ {0}
    PROVE  /\ KeepNewest(q, cap) \in Seq(S) /\ Len(KeepNewest(q, cap)) <= cap
           /\ Elements(KeepNewest(q, cap)) \subseteq Elements(q)
           /\ Len(q) <= cap => KeepNewest(q, cap) = q
           /\ q # <<>> => KeepNewest(q, cap) # <<>> /\ Last(KeepNewest(q, cap)) = Last(q)
  <1>0. Len(q) \in Nat /\ (q # <<>> => Len(q) # 0)
    OBVIOUS
  <1>1. CASE Len(q) <= cap
    BY <1>0, <1>1 DEF KeepNewest
  <1>2. CASE ~(Len(q) <= cap)
    <2> DEFINE f == Len(q) - cap
               k == SubSeq(q, f + 1, Len(q))
    <2>1. f \in Nat /\ f + cap = Len(q) /\ KeepNewest(q, cap) = k
      BY <1>0, <1>2 DEF KeepNewest
    <2>2. k \in Seq(S) /\ Len(k) = cap /\ \A i \in 1..cap : k[i] = q[f + i]
      BY <1>0, <2>1
    <2> HIDE DEF k, f
    <2>3. Elements(k) \subseteq Elements(q)
      <3>1. \A i \in 1..cap : f + i \in 1..Len(q)
        BY <1>0, <2>1
      <3> QED BY <2>2, <3>1 DEF Elements
    <2>4. Last(k) = Last(q)
      BY <2>1, <2>2 DEF Last
    <2>5. k # <<>>
      BY <2>2
    <2> QED BY <1>2, <2>1, <2>2, <2>3, <2>4, <2>5
  <1> QED BY <1>0, <1>1, <1>2

LEMMA RedoAppended ==
    ASSUME NEW rd \in Seq(Entry), NEW r \in Entry
    PROVE  RedoNames(Append(rd, r)) = RedoNames(rd) \cup InRedo(r)
  <1> DEFINE a == Append(rd, r)
  <1>1. /\ Len(a) = Len(rd) + 1 /\ Len(rd) \in Nat /\ a[Len(rd) + 1] = r
        /\ \A i \in 1..Len(rd) : a[i] = rd[i]
    BY AppendParts
  <1> HIDE DEF a
  <1>2. \A i \in 1..Len(a) : i \in 1..Len(rd) \/ i = Len(rd) + 1
    BY <1>1
  <1>3. Len(rd) + 1 \in 1..Len(a) /\ \A i \in 1..Len(rd) : i \in 1..Len(a)
    BY <1>1
  <1>4. RedoNames(a) \subseteq RedoNames(rd) \cup InRedo(r)
    BY <1>1, <1>2 DEF RedoNames
  <1>5. RedoNames(rd) \cup InRedo(r) \subseteq RedoNames(a)
    BY <1>1, <1>3 DEF RedoNames
  <1> QED BY <1>4, <1>5 DEF a

LEMMA RedoPopped ==
    ASSUME NEW rd \in Seq(Entry), rd # <<>>
    PROVE  RedoNames(rd) = RedoNames(AllButLast(rd)) \cup InRedo(Last(rd))
  <1> DEFINE a == AllButLast(rd)
  <1>1. /\ Len(rd) \in Nat \ {0} /\ Len(a) = Len(rd) - 1 /\ Last(rd) = rd[Len(rd)]
        /\ \A i \in 1 .. Len(rd) - 1 : a[i] = rd[i]
    BY ButLastParts
  <1> HIDE DEF a
  <1>2. \A i \in 1..Len(rd) : (i \in 1..Len(a) /\ i \in 1 .. Len(rd) - 1) \/ i = Len(rd)
    BY <1>1
  <1>3. /\ Len(rd) \in 1..Len(rd)
        /\ \A i \in 1..Len(a) : i \in 1..Len(rd) /\ i \in 1 .. Len(rd) - 1
    BY <1>1
  <1>4. RedoNames(rd) \subseteq RedoNames(a) \cup InRedo(Last(rd))
    BY <1>1, <1>2 DEF RedoNames
  <1>5. RedoNames(a) \cup InRedo(Last(rd)) \subseteq RedoNames(rd)
    BY <1>1, <1>3 DEF RedoNames
  <1> QED BY <1>4, <1>5 DEF a

\* What the redos name is in those that a shorter list leaves out, too.
LEMMA RedoDropped ==
    ASSUME NEW rd \in Seq(Entry), NEW cap \in Nat \ {0}
    PROVE  RedoNames(KeepNewest(rd, cap)) \subseteq RedoNames(rd)
  <1> DEFINE a == KeepNewest(rd, cap)
  <1>1. Elements(a) \subseteq Elements(rd)
    BY NewestParts
  <1> HIDE DEF a
  <1>2. \A i \in 1..Len(a) : \E j \in 1..Len(rd) : a[i] = rd[j]
    BY <1>1 DEF Elements
  <1>3. RedoNames(a) \subseteq RedoNames(rd)
    BY <1>2 DEF RedoNames
  <1> QED BY <1>3 DEF a

LEMMA RecordedParts ==
    ASSUME NEW s, NEW live, NEW c, NEW after
    PROVE  /\ c \in DOMAIN Recorded(s, live, c, after)
           /\ DOMAIN Recorded(s, live, c, after) \subseteq Elements(live) \cup {c}
           /\ \A k \in DOMAIN Recorded(s, live, c, after) :
                 \/ k = c /\ Recorded(s, live, c, after)[k] = after
                 \/ /\ k \in DOMAIN records[s]
                    /\ Recorded(s, live, c, after)[k] = records[s][k]
           /\ RecordNames(Recorded(s, live, c, after))
                \subseteq RecordNames(records[s]) \cup {c} \cup ({after} \ {None})
  <1> DEFINE D == (DOMAIN records[s] \cap Elements(live)) \cup {c}
             w == Recorded(s, live, c, after)
  <1>1. DOMAIN w = D /\ \A k \in D : w[k] = IF k = c THEN after ELSE records[s][k]
    BY DEF Recorded
  <1> HIDE DEF w
  <1>2. /\ c \in DOMAIN w /\ DOMAIN w \subseteq Elements(live) \cup {c}
        /\ \A k \in DOMAIN w : \/ k = c /\ w[k] = after
                               \/ k \in DOMAIN records[s] /\ w[k] = records[s][k]
    BY <1>1
  <1>3. RecordNames(w) \subseteq RecordNames(records[s]) \cup {c} \cup ({after} \ {None})
    BY <1>2 DEF RecordNames
  <1> QED BY <1>2, <1>3 DEF w

LEMMA Numbered ==
    ASSUME Shaped
    PROVE  /\ Len(made) \in Nat /\ NewCommit \in Nat \ {0} /\ NewCommit \notin Commits
           /\ Commits \subseteq Nat \ {0}
  BY DEF Shaped, NewCommit, Commits

-----------------------------------------------------------------------------
(* Steps, by what they leave alone.                                        *)

\* What does not move, stays in its place.
LEMMA SamePlaces ==
    ASSUME NEW q, NEW cp, NEW rec, NEW rd, NEW ph, NEW h,
           \A w, i, c : Has(Name(q, w, i), c)' <=> Has(Name(q, w, i), c),
           PlacedOf(q, cp, rec, rd, ph, h)
    PROVE  PlacedOf(q, cp, rec, rd, ph, h)'
  <1>1. \A c : TurnAt(q, c)' <=> TurnAt(q, c)
    BY DEF TurnAt
  <1>2. \A c, a : EndHeld(q, c, a) => EndHeld(q, c, a)'
    BY DEF EndHeld
  <1>3. \A k, r : RedoHeld(q, k, r) => RedoHeld(q, k, r)'
    BY <1>1, <1>2 DEF RedoHeld
  <1> QED BY <1>1, <1>2, <1>3 DEF PlacedOf

\* The parts of a session's index, and what is in hand.
Is(s, cp, rec, rd, ph, h) ==
    /\ cp = checkpoints[s] /\ rec = records[s] /\ rd = redo[s] /\ ph = phase[s] /\ h = hand[s]

LEMMA PlacedNow ==
    ASSUME NEW s, NEW cp, NEW rec, NEW rd, NEW ph, NEW h,
           Is(s, cp, rec, rd, ph, h)', PlacedOf(s, cp, rec, rd, ph, h)'
    PROVE  Placed(s)'
  <1>1. /\ checkpoints'[s] = cp /\ records'[s] = rec /\ redo'[s] = rd
        /\ phase'[s] = ph /\ hand'[s] = h
    BY DEF Is
  <1> QED BY <1>1 DEF Placed, PlacedOf, RedoHeld, EndHeld, TurnAt, Has

\* A step of one session, or that removes it.
Moves(s) ==
    /\ s \in Sessions
    /\ \A q \in Sessions \ {s} :
         /\ checkpoints'[q] = checkpoints[q] /\ records'[q] = records[q]
         /\ redo'[q] = redo[q] /\ phase'[q] = phase[q] /\ hand'[q] = hand[q]
         /\ q \in alive => q \in alive'
         /\ \A w, i, c : Has(Name(q, w, i), c)' <=> Has(Name(q, w, i), c)
    /\ alive' \subseteq alive /\ lost \subseteq lost' /\ day' = day
    /\ Len(made) <= Len(made') /\ \A c \in Commits : made'[c] = made[c]
    /\ clean'.refs = clean.refs
    /\ clean'.at = "deleting" => clean.at = "deleting"

LEMMA MoreCommits ==
    ASSUME Shaped, Shaped', Len(made) <= Len(made')
    PROVE  Commits \subseteq Commits'
  BY Numbered DEF Shaped, Commits

LEMMA OthersKeep ==
    ASSUME Held, Shaped', NEW s, Moves(s), NEW q \in Sessions \ {s}
    PROVE  /\ Handed(q)' /\ Indexed(q)' /\ OfToday(q)' /\ Reach(q)' = Reach(q)
           /\ q \in alive' \ lost' => Placed(q)'
  <1>1. /\ checkpoints'[q] = checkpoints[q] /\ records'[q] = records[q] /\ redo'[q] = redo[q]
        /\ phase'[q] = phase[q] /\ hand'[q] = hand[q] /\ (q \in alive => q \in alive')
        /\ \A w, i, c : Has(Name(q, w, i), c)' <=> Has(Name(q, w, i), c)
        /\ alive' \subseteq alive /\ lost \subseteq lost' /\ day' = day
        /\ \A c \in Commits : made'[c] = made[c]
        /\ clean'.refs = clean.refs
    BY DEF Moves
  <1>2. Commits \subseteq Commits'
    BY MoreCommits DEF Moves, Held
  <1>3. Reach(q)' = Reach(q)
    BY <1>1, ReachParts
  <1>4. Handed(q)'
    BY <1>1 DEF Held, Handed, HandedOf
  <1>5. Indexed(q)'
    BY <1>1, <1>2, <1>3 DEF Held, Indexed
  <1>6. OfToday(q)'
    <2>1. Listed' = Listed
      BY <1>1 DEF Listed
    <2>2. phase[q] \in Fresh => hand[q] \subseteq Commits
      BY DEF Held, Indexed, Reach, Unsaved, Fresh
    <2> QED BY <1>1, <2>1, <2>2 DEF Held, OfToday
  <1>7. ASSUME q \in alive' \ lost' PROVE Placed(q)'
    <2>1. PICK cp, rec, rd, ph, h : Is(q, cp, rec, rd, ph, h)
      BY DEF Is
    <2>2. Is(q, cp, rec, rd, ph, h)'
      BY <1>1, <2>1 DEF Is
    <2>3. PlacedOf(q, cp, rec, rd, ph, h)
      BY <1>1, <1>7, <2>1 DEF Held, Placed, Is
    <2>4. PlacedOf(q, cp, rec, rd, ph, h)'
      BY <1>1, <2>3, SamePlaces
    <2> QED BY <2>2, <2>4, PlacedNow
  <1> QED BY <1>3, <1>4, <1>5, <1>6, <1>7

LEMMA MovesStep ==
    ASSUME Held, Shaped', NEW s, Moves(s),
           Handed(s)', Indexed(s)', OfToday(s)',
           Reach(s)' \subseteq Reach(s) \cup (Commits' \ Commits),
           s \in alive' \ lost' => Placed(s)'
    PROVE  Held'
  <1>1. \A q \in Sessions : Handed(q)' /\ Indexed(q)' /\ OfToday(q)'
    BY OthersKeep
  <1>2. \A q \in alive' \ lost' : Placed(q)'
    BY OthersKeep DEF Shaped
  <1>3. Spared'
    <2> SUFFICES ASSUME clean'.at = "deleting", NEW q \in alive' \ lost'
                 PROVE  Reach(q)' \cap Listed' = {}
      BY DEF Spared
    <2>1. Reach(q) \cap Listed = {} /\ Listed' = Listed /\ Listed \subseteq Commits
      BY DEF Held, Spared, Moves, Listed, Shaped
    <2>2. q \in Sessions
      BY DEF Shaped
    <2>3. CASE q = s
      BY <2>1, <2>3
    <2>4. CASE q # s
      BY <2>1, <2>2, <2>4, OthersKeep
    <2> QED BY <2>3, <2>4
  <1> QED BY <1>1, <1>2, <1>3 DEF Held

\* A step that leaves every index and every ref alone.
LEMMA QuietStep ==
    ASSUME Held, Shaped', UNCHANGED <<refs, made, alive, checkpoints, records, redo, phase, hand>>,
           lost \subseteq lost', \A s \in Sessions : OfToday(s)', Spared'
    PROVE  Held'
  <1>1. \A s \in Sessions : Handed(s)' /\ Indexed(s)'
    BY ReachParts DEF Held, Handed, Indexed, Commits
  <1>2. ASSUME NEW s \in alive' \ lost' PROVE Placed(s)'
    <2>1. PICK cp, rec, rd, ph, h : Is(s, cp, rec, rd, ph, h)
      BY DEF Is
    <2>2. Is(s, cp, rec, rd, ph, h)' /\ PlacedOf(s, cp, rec, rd, ph, h)
      BY <2>1 DEF Held, Placed, Is
    <2>3. \A n, c : Has(n, c)' <=> Has(n, c)
      BY DEF Has
    <2>4. PlacedOf(s, cp, rec, rd, ph, h)'
      BY <2>2, <2>3, SamePlaces
    <2> QED BY <2>2, <2>4, PlacedNow
  <1> QED BY <1>1, <1>2 DEF Held

-----------------------------------------------------------------------------
(* A session's step, by what it makes of the index and what is in hand, of *)
(* the commits and of their refs.                                          *)

Sets(f, g, s, v) == g = [f EXCEPT ![s] = v] \/ (g = f /\ f[s] = v)

Becomes(s, cp, rec, rd, ph, h) ==
    /\ Sets(checkpoints, checkpoints', s, cp) /\ Sets(records, records', s, rec)
    /\ Sets(redo, redo', s, rd) /\ Sets(phase, phase', s, ph) /\ Sets(hand, hand', s, h)

Files(s) ==
    /\ made' \in Seq(0..MaxDays) /\ Len(made) <= Len(made')
    /\ \A c \in Commits : made'[c] = made[c]
    /\ DOMAIN refs' \subseteq Names
    /\ \A n \in DOMAIN refs' : refs'[n] \in Commits'
    /\ \A n, m : \A c : Has(n, c)' /\ Has(m, c)' => n = m
    /\ \A q \in Sessions \ {s} : \A w, i, c : Has(Name(q, w, i), c)' <=> Has(Name(q, w, i), c)

LEMMA SameFiles ==
    ASSUME Held, NEW s, UNCHANGED <<refs, made>>
    PROVE  Files(s) /\ Commits' = Commits
  <1>1. \A n, c : Has(n, c)' <=> Has(n, c)
    BY DEF Has
  <1>2. \A n, m : \A c : Has(n, c) /\ Has(m, c) => n = m
    BY DEF Held, Shaped
  <1>3. \A n, m : \A c : Has(n, c)' /\ Has(m, c)' => n = m
    BY <1>1, <1>2
  <1>4. Len(made) <= Len(made')
    BY Numbered DEF Held
  <1>5. Commits' = Commits
    BY DEF Commits
  <1> QED BY <1>1, <1>3, <1>4, <1>5 DEF Held, Shaped, Files

LEMMA TouchKeeps ==
    ASSUME Held, NEW s, clean' = clean \/ Touch(s)
    PROVE  /\ clean' = [f \in Fields |-> clean'[f]]
           /\ clean'.refs = clean.refs /\ clean'.at = clean.at /\ Listed' = Listed
  <1>1. clean = [f \in Fields |-> clean[f]]
    BY DEF Held, Shaped
  <1>2. clean' = clean \/ clean' = [clean EXCEPT !.touched = clean.touched \cup ({s} \cap clean.sessions)]
    BY DEF Touch
  <1>3. /\ clean' = [f \in Fields |-> clean'[f]]
        /\ clean'.refs = clean.refs /\ clean'.at = clean.at
    BY <1>1, <1>2 DEF Fields
  <1> QED BY <1>3 DEF Listed

\* What a session's step starts from.
Start(s, cp, rec, rd, ph, h) ==
    /\ s \in Sessions /\ cp \in Seq(Nat) /\ rd \in Seq(Entry)
    /\ Len(cp) \in Nat /\ Len(rd) \in Nat /\ ph \in Phases
    /\ Len(cp) <= CheckpointCap /\ Len(rd) <= RedoCap
    /\ CheckpointCap \in Nat \ {0} /\ RedoCap \in Nat \ {0}
    /\ HandedOf(cp, rd, ph, h)
    /\ Elements(cp) \cup RecordNames(rec) \cup RedoNames(rd) \cup InHand(ph, h) = Reach(s)
    /\ Reach(s) \subseteq Commits /\ Commits \subseteq Nat \ {0}
    /\ NewCommit \in Nat \ {0} /\ NewCommit \notin Commits
    /\ ph # "idle" => s \in alive
    /\ s \in alive \ lost => PlacedOf(s, cp, rec, rd, ph, h)

LEMMA Before ==
    ASSUME Held, NEW s \in Active, NEW cp, NEW rec, NEW rd, NEW ph, NEW h,
           Is(s, cp, rec, rd, ph, h)
    PROVE  Start(s, cp, rec, rd, ph, h)
  <1>1. s \in Sessions /\ CheckpointCap \in Nat \ {0} /\ RedoCap \in Nat \ {0}
    BY StorageAssumption
  <1>2. /\ cp = checkpoints[s] /\ rec = records[s] /\ rd = redo[s] /\ ph = phase[s]
        /\ h = hand[s]
    BY DEF Is
  <1>3. cp \in Seq(Nat) /\ rd \in Seq(Entry) /\ ph \in Phases
    BY <1>1, <1>2 DEF Held, Shaped
  <1>4. Len(cp) \in Nat /\ Len(rd) \in Nat
    BY <1>3
  <1>5. /\ Len(cp) <= CheckpointCap /\ Len(rd) <= RedoCap /\ Reach(s) \subseteq Commits
        /\ HandedOf(cp, rd, ph, h) /\ (ph # "idle" => s \in alive)
    BY <1>1, <1>2 DEF Held, Indexed, Handed
  <1>6. Elements(cp) \cup RecordNames(rec) \cup RedoNames(rd) \cup InHand(ph, h) = Reach(s)
    BY <1>2, ReachParts
  <1>7. s \in alive \ lost => PlacedOf(s, cp, rec, rd, ph, h)
    BY <1>2 DEF Held, Placed
  <1> QED BY <1>1, <1>3, <1>4, <1>5, <1>6, <1>7, Numbered DEF Start, Held

LEMMA BecomesParts ==
    ASSUME Held, NEW s \in Active, NEW cp \in Seq(Nat), NEW rec, NEW rd \in Seq(Entry),
           NEW ph \in Phases, NEW h, Becomes(s, cp, rec, rd, ph, h), Files(s),
           alive' = alive, day' = day, lost \subseteq lost', clean' = clean \/ Touch(s)
    PROVE  Shaped' /\ Moves(s) /\ Is(s, cp, rec, rd, ph, h)'
  <1>s. s \in Sessions
    BY StorageAssumption
  <1>t. /\ checkpoints \in [Sessions -> Seq(Nat)] /\ redo \in [Sessions -> Seq(Entry)]
        /\ records = [q \in Sessions |-> records[q]] /\ phase \in [Sessions -> Phases]
        /\ hand = [q \in Sessions |-> hand[q]]
    BY DEF Held, Shaped
  <1>1. checkpoints' \in [Sessions -> Seq(Nat)] /\ redo' \in [Sessions -> Seq(Entry)]
        /\ phase' \in [Sessions -> Phases]
    BY <1>t DEF Becomes, Sets
  <1>2. records' = [q \in Sessions |-> records'[q]] /\ hand' = [q \in Sessions |-> hand'[q]]
    BY <1>t DEF Becomes, Sets
  <1>3. /\ checkpoints'[s] = cp /\ records'[s] = rec /\ redo'[s] = rd
        /\ phase'[s] = ph /\ hand'[s] = h
    BY <1>s, <1>t DEF Becomes, Sets
  <1>4. \A q \in Sessions \ {s} :
          /\ checkpoints'[q] = checkpoints[q] /\ records'[q] = records[q]
          /\ redo'[q] = redo[q] /\ phase'[q] = phase[q] /\ hand'[q] = hand[q]
    BY <1>t DEF Becomes, Sets
  <1>5. Commits \subseteq Commits'
    BY Numbered DEF Held, Files, Commits
  <1>6. Shaped'
    <2>1. Listed' \subseteq Commits'
      BY <1>5, TouchKeeps DEF Held, Shaped
    <2>2. clean' = [f \in Fields |-> clean'[f]]
      BY TouchKeeps
    <2>3. /\ made' \in Seq(0..MaxDays) /\ DOMAIN refs' \subseteq Names
          /\ \A n \in DOMAIN refs' : refs'[n] \in Commits'
          /\ \A n, m : \A c : Has(n, c)' /\ Has(m, c)' => n = m
      BY DEF Files
    <2>4. day' \in 0..MaxDays /\ alive' \subseteq Sessions
      BY DEF Held, Shaped
    <2> QED BY <1>1, <1>2, <2>1, <2>2, <2>3, <2>4 DEF Shaped
  <1>7. Moves(s)
    BY <1>s, <1>4, TouchKeeps DEF Moves, Files
  <1> QED BY <1>3, <1>6, <1>7 DEF Is

\* What is left to see is of that session.
Lawful(s, cp, rec, rd, ph, h) ==
    /\ cp \in Seq(Nat) /\ rd \in Seq(Entry) /\ ph \in Phases
    /\ Becomes(s, cp, rec, rd, ph, h) /\ Files(s)
    /\ s \in alive /\ alive' = alive /\ day' = day /\ lost \subseteq lost'
    /\ clean' = clean \/ Touch(s)
    /\ HandedOf(cp, rd, ph, h) /\ Len(cp) <= CheckpointCap /\ Len(rd) <= RedoCap
    /\ ph \in Fresh => \A c \in h : made'[c] = day /\ c \notin Listed
    /\ Elements(cp) \cup RecordNames(rec) \cup RedoNames(rd) \cup InHand(ph, h)
         \subseteq Reach(s) \cup (Commits' \ Commits)
    /\ s \notin lost' => PlacedOf(s, cp, rec, rd, ph, h)'

LEMMA LawfulStep ==
    ASSUME Held, NEW s \in Active, NEW cp, NEW rec, NEW rd, NEW ph, NEW h,
           Lawful(s, cp, rec, rd, ph, h)
    PROVE  Held'
  <1>0. /\ cp \in Seq(Nat) /\ rd \in Seq(Entry) /\ ph \in Phases
        /\ Becomes(s, cp, rec, rd, ph, h) /\ Files(s)
        /\ s \in alive /\ alive' = alive /\ day' = day /\ lost \subseteq lost'
        /\ clean' = clean \/ Touch(s)
        /\ HandedOf(cp, rd, ph, h) /\ Len(cp) <= CheckpointCap /\ Len(rd) <= RedoCap
        /\ ph \in Fresh => \A c \in h : made'[c] = day /\ c \notin Listed
        /\ s \notin lost' => PlacedOf(s, cp, rec, rd, ph, h)'
    BY DEF Lawful
  <1>u. Elements(cp) \cup RecordNames(rec) \cup RedoNames(rd) \cup InHand(ph, h)
          \subseteq Reach(s) \cup (Commits' \ Commits)
    BY DEF Lawful
  <1>1. Shaped' /\ Moves(s) /\ Is(s, cp, rec, rd, ph, h)'
    BY <1>0, BecomesParts
  <1>i. /\ checkpoints'[s] = cp /\ records'[s] = rec /\ redo'[s] = rd
        /\ phase'[s] = ph /\ hand'[s] = h
    BY <1>1 DEF Is
  <1>2. Commits \subseteq Commits' /\ Reach(s) \subseteq Commits
    BY <1>1, MoreCommits DEF Held, Moves, Indexed
  <1>3. Reach(s)' \subseteq Reach(s) \cup (Commits' \ Commits)
    BY <1>u, <1>i, ReachParts
  <1>4. Indexed(s)'
    BY <1>0, <1>i, <1>2, <1>3 DEF Indexed
  <1>5. OfToday(s)'
    <2>1. Listed' = Listed
      BY <1>0, TouchKeeps
    <2> QED BY <1>0, <1>i, <2>1 DEF OfToday
  <1>6. Handed(s)'
    BY <1>0, <1>i DEF Handed, HandedOf
  <1>7. s \notin lost' => Placed(s)'
    BY <1>0, <1>1, PlacedNow
  <1> QED BY <1>1, <1>3, <1>4, <1>5, <1>6, <1>7, MovesStep

\* A step that only saves: no commit is made and no ref moves.
Saves(s, cp, rec, rd, ph, h) ==
    /\ cp \in Seq(Nat) /\ rd \in Seq(Entry) /\ ph \in Phases
    /\ Becomes(s, cp, rec, rd, ph, h)
    /\ s \in alive /\ UNCHANGED <<refs, made, alive, day>> /\ lost \subseteq lost'
    /\ clean' = clean \/ Touch(s)
    /\ HandedOf(cp, rd, ph, h) /\ Len(cp) <= CheckpointCap /\ Len(rd) <= RedoCap
    /\ ph \in Fresh => phase[s] \in Fresh /\ h \subseteq hand[s]
    /\ Elements(cp) \cup RecordNames(rec) \cup RedoNames(rd) \cup InHand(ph, h) \subseteq Reach(s)
    /\ s \notin lost' => PlacedOf(s, cp, rec, rd, ph, h)

LEMMA SavesStep ==
    ASSUME Held, NEW s \in Active, NEW cp, NEW rec, NEW rd, NEW ph, NEW h,
           Saves(s, cp, rec, rd, ph, h)
    PROVE  Held'
  <1>0. /\ cp \in Seq(Nat) /\ rd \in Seq(Entry) /\ ph \in Phases
        /\ Becomes(s, cp, rec, rd, ph, h)
        /\ s \in alive /\ UNCHANGED <<refs, made, alive, day>> /\ lost \subseteq lost'
        /\ clean' = clean \/ Touch(s)
        /\ HandedOf(cp, rd, ph, h) /\ Len(cp) <= CheckpointCap /\ Len(rd) <= RedoCap
        /\ ph \in Fresh => phase[s] \in Fresh /\ h \subseteq hand[s]
        /\ s \notin lost' => PlacedOf(s, cp, rec, rd, ph, h)
    BY DEF Saves
  <1>u. Elements(cp) \cup RecordNames(rec) \cup RedoNames(rd) \cup InHand(ph, h) \subseteq Reach(s)
    BY DEF Saves
  <1>1. Files(s)
    BY <1>0, SameFiles
  <1>2. ph \in Fresh => \A c \in h : made'[c] = day /\ c \notin Listed
    <2>1. s \in Sessions
      BY StorageAssumption
    <2> QED BY <1>0, <2>1 DEF Held, OfToday
  <1>3. ASSUME s \notin lost' PROVE PlacedOf(s, cp, rec, rd, ph, h)'
    <2>1. PlacedOf(s, cp, rec, rd, ph, h)
      BY <1>0, <1>3
    <2>2. \A n, c : Has(n, c)' <=> Has(n, c)
      BY <1>0 DEF Has
    <2> QED BY <2>1, <2>2, SamePlaces
  <1>4. Lawful(s, cp, rec, rd, ph, h)
    BY <1>0, <1>u, <1>1, <1>2, <1>3 DEF Lawful
  <1> QED BY <1>4, LawfulStep

-----------------------------------------------------------------------------
(* The saves of a turn, a revert, an undo and a redo.                      *)

LEMMA NoRedos == /\ RedoNames(<<>>) = {} /\ \A ph : InHand(ph, {}) = {}
                 /\ <<>> \in Seq(Entry) /\ Len(<<>>) = 0
  BY DEF RedoNames, InHand

\* What is in hand is let go of, or the redos are.
Sheds(s, cp, rec, rd, ph, h, nrd, nph) ==
    /\ Is(s, cp, rec, rd, ph, h) /\ s \in alive
    /\ Becomes(s, cp, rec, nrd, nph, {})
    /\ nrd \in {rd, <<>>} /\ nph \in {"idle", "turn"}
    /\ nph = "turn" => nrd = <<>> /\ cp # <<>>
    /\ UNCHANGED <<refs, made, alive, day>> /\ lost \subseteq lost'
    /\ clean' = clean \/ Touch(s)
    /\ s \notin lost' => nrd = <<>> \/ ph \notin Yielding

LEMMA ShedsStep ==
    ASSUME Held, NEW s \in Active, NEW cp, NEW rec, NEW rd, NEW ph, NEW h, NEW nrd, NEW nph,
           Sheds(s, cp, rec, rd, ph, h, nrd, nph)
    PROVE  Held'
  <1>0. /\ Is(s, cp, rec, rd, ph, h) /\ s \in alive
        /\ Becomes(s, cp, rec, nrd, nph, {})
        /\ nrd \in {rd, <<>>} /\ nph \in {"idle", "turn"}
        /\ nph = "turn" => nrd = <<>> /\ cp # <<>>
        /\ UNCHANGED <<refs, made, alive, day>> /\ lost \subseteq lost'
        /\ clean' = clean \/ Touch(s)
        /\ s \notin lost' => nrd = <<>> \/ ph \notin Yielding
    BY DEF Sheds
  <1>b. Start(s, cp, rec, rd, ph, h)
    BY <1>0, Before
  <1>c. /\ cp \in Seq(Nat) /\ rd \in Seq(Entry) /\ Len(cp) <= CheckpointCap /\ Len(rd) <= RedoCap
        /\ RedoCap \in Nat
        /\ Elements(cp) \cup RecordNames(rec) \cup RedoNames(rd) \subseteq Reach(s)
    BY <1>b DEF Start
  <1>1. HandedOf(cp, nrd, nph, {})
    BY <1>0 DEF HandedOf
  <1>2. nrd \in Seq(Entry) /\ Len(nrd) <= RedoCap /\ RedoNames(nrd) \subseteq Reach(s)
    <2>1. CASE nrd = rd
      BY <2>1, <1>c
    <2>2. CASE nrd = <<>>
      BY <2>2, <1>c, NoRedos
    <2> QED BY <1>0, <2>1, <2>2
  <1>3. nph \in Phases /\ nph \notin Fresh /\ nph \notin Yielding
    BY <1>0 DEF Phases, Fresh, Yielding
  <1>4. ASSUME s \notin lost' PROVE PlacedOf(s, cp, rec, nrd, nph, {})
    <2>1. PlacedOf(s, cp, rec, rd, ph, h)
      BY <1>b, <1>0, <1>4 DEF Start
    <2>2. \A k \in 1..Len(nrd) : RedoHeld(s, k, nrd[k])
      <3>1. CASE nrd = <<>>
        BY <3>1, NoRedos
      <3>2. CASE nrd = rd /\ ph \notin Yielding
        BY <3>2, <2>1 DEF PlacedOf
      <3> QED BY <1>0, <1>4, <3>1, <3>2
    <2> QED BY <2>1, <2>2 DEF PlacedOf
  <1>5. Saves(s, cp, rec, nrd, nph, {})
    BY <1>0, <1>c, <1>1, <1>2, <1>3, <1>4, NoRedos DEF Saves
  <1> QED BY <1>5, SavesStep

LEMMA SheddingSteps ==
    ASSUME Held, NEW s \in Active,
           ClearRedo(s) \/ RevertFails(s) \/ UndoStops(s) \/ Crash(s)
    PROVE  Held'
  <1>p. PICK cp, rec, rd, ph, h : Is(s, cp, rec, rd, ph, h)
    BY DEF Is
  <1>b. HandedOf(cp, rd, ph, h) /\ (ph # "idle" => s \in alive)
    BY <1>p, Before DEF Start
  <1>i. /\ cp = checkpoints[s] /\ rec = records[s] /\ rd = redo[s] /\ ph = phase[s]
        /\ h = hand[s]
    BY <1>p DEF Is
  <1>1. CASE ClearRedo(s)
    <2>1. PICK nph : nph = IF ph = "recorded" THEN "turn" ELSE "idle"
      OBVIOUS
    <2>2. /\ ph \in {"recorded", "kept"} /\ redo' = [redo EXCEPT ![s] = <<>>]
          /\ phase' = [phase EXCEPT ![s] = nph]
          /\ Touch(s) /\ lost' = lost
          /\ UNCHANGED <<refs, made, day, alive, checkpoints, records, hand>>
      BY <1>1, <1>i, <2>1 DEF ClearRedo
    <2>3. h = {} /\ cp # <<>> /\ s \in alive
      BY <1>b, <2>2 DEF HandedOf, Fresh, Between
    <2>4. Becomes(s, cp, rec, <<>>, nph, {})
      BY <1>i, <2>2, <2>3 DEF Becomes, Sets
    <2>5. Sheds(s, cp, rec, rd, ph, h, <<>>, nph)
      BY <1>p, <2>1, <2>2, <2>3, <2>4 DEF Sheds
    <2> QED BY <2>5, ShedsStep
  <1>2. CASE RevertFails(s) \/ UndoStops(s) \/ Crash(s)
    <2>1. /\ ph # "idle" /\ phase' = [phase EXCEPT ![s] = "idle"]
          /\ UNCHANGED <<refs, made, day, alive, checkpoints, records, redo, clean>>
          /\ lost \subseteq lost'
          /\ hand' = [hand EXCEPT ![s] = {}] \/ (hand' = hand /\ ph = "reverted")
      BY <1>2, <1>i DEF RevertFails, UndoStops, Crash, meta
    <2>2. hand' = [hand EXCEPT ![s] = {}] \/ (hand' = hand /\ h = {})
      BY <1>b, <2>1 DEF HandedOf, Fresh, Between
    <2>3. s \notin lost' => rd = <<>> \/ ph \notin Yielding
      BY <1>2, <1>i DEF RevertFails, UndoStops, Crash, GivesUpRedo, Yielding
    <2>4. Becomes(s, cp, rec, rd, "idle", {})
      BY <1>i, <2>1, <2>2 DEF Becomes, Sets
    <2>5. Sheds(s, cp, rec, rd, ph, h, rd, "idle")
      BY <1>p, <1>b, <2>1, <2>3, <2>4 DEF Sheds
    <2> QED BY <2>5, ShedsStep
  <1> QED BY <1>1, <1>2

\* One more at the end of a capped list.
Longer(S, q, c, cap, new) ==
    /\ new \in Seq(S) /\ new # <<>> /\ Len(new) <= cap
    /\ Elements(new) \subseteq Elements(q) \cup {c}
    /\ ~(Len(q) >= cap) =>
         /\ new = Append(q, c) /\ Len(new) = Len(q) + 1
         /\ \A i \in 1..Len(new) : \/ i \in 1..Len(q) /\ new[i] = q[i]
                                   \/ i = Len(q) + 1 /\ new[i] = c

LEMMA Appended ==
    ASSUME NEW S, NEW q \in Seq(S), NEW c \in S, NEW cap \in Nat \ {0}
    PROVE  Longer(S, q, c, cap, KeepNewest(Append(q, c), cap))
  <1>0. PICK new : new = KeepNewest(Append(q, c), cap)
    OBVIOUS
  <1>1. /\ Append(q, c) \in Seq(S) /\ Len(Append(q, c)) = Len(q) + 1
        /\ \A i \in 1..Len(q) : Append(q, c)[i] = q[i]
        /\ Append(q, c)[Len(q) + 1] = c
        /\ Elements(Append(q, c)) = Elements(q) \cup {c}
    BY AppendParts
  <1>2. Len(q) \in Nat /\ Append(q, c) # <<>>
    OBVIOUS
  <1>3. /\ new \in Seq(S) /\ new # <<>> /\ Len(new) <= cap
        /\ Elements(new) \subseteq Elements(Append(q, c))
        /\ Len(Append(q, c)) <= cap => new = Append(q, c)
    BY <1>0, <1>1, <1>2, NewestParts
  <1>5. ASSUME ~(Len(q) >= cap)
        PROVE  /\ new = Append(q, c) /\ Len(new) = Len(q) + 1
               /\ \A i \in 1..Len(new) : \/ i \in 1..Len(q) /\ new[i] = q[i]
                                         \/ i = Len(q) + 1 /\ new[i] = c
    <2>1. Len(q) + 1 <= cap
      BY <1>2, <1>5
    <2>2. new = Append(q, c) /\ Len(new) = Len(q) + 1
      BY <2>1, <1>1, <1>3
    <2>3. \A i \in 1..Len(new) : i \in 1..Len(q) \/ i = Len(q) + 1
      BY <2>2, <1>2
    <2>4. (\A i \in 1..Len(q) : new[i] = q[i]) /\ new[Len(q) + 1] = c
      BY <2>2, <1>1
    <2> QED BY <2>2, <2>3, <2>4
  <1> QED BY <1>0, <1>1, <1>3, <1>5 DEF Longer

LEMMA PushStep ==
    ASSUME Held, NEW s \in Active, PushTurn(s) \/ RevertPushes(s)
    PROVE  Held'
  <1>p. PICK cp, rec, rd, ph, h : Is(s, cp, rec, rd, ph, h)
    BY DEF Is
  <1>b. Start(s, cp, rec, rd, ph, h)
    BY <1>p, Before
  <1>i. /\ cp = checkpoints[s] /\ rec = records[s] /\ rd = redo[s] /\ ph = phase[s]
        /\ h = hand[s]
    BY <1>p DEF Is
  <1>a. PICK c, new, nph :
          /\ c \in h /\ new = KeepNewest(Append(cp, c), CheckpointCap)
          /\ checkpoints' = [checkpoints EXCEPT ![s] = new]
          /\ ph \in {"taken", "reverting"} /\ nph \in {"pushed", "reverted"}
          /\ phase' = [phase EXCEPT ![s] = nph]
          /\ hand' = [hand EXCEPT ![s] = {}]
          /\ lost' = IF Len(cp) >= CheckpointCap THEN lost \cup {s} ELSE lost
          /\ UNCHANGED <<refs, made, day, alive, records, redo>> /\ Touch(s)
    BY <1>i DEF PushTurn, RevertPushes, Push
  <1>c. /\ cp \in Seq(Nat) /\ rd \in Seq(Entry) /\ Len(rd) <= RedoCap /\ s \in alive
        /\ CheckpointCap \in Nat \ {0}
        /\ Elements(cp) \cup RecordNames(rec) \cup RedoNames(rd) \cup h \subseteq Reach(s)
    BY <1>a, <1>b DEF Start, InHand, Between
  <1>d. c \in Nat /\ c \in Reach(s)
    BY <1>a, <1>b, <1>c DEF Start
  <1>e. /\ new \in Seq(Nat) /\ new # <<>> /\ Len(new) <= CheckpointCap
        /\ Elements(new) \subseteq Elements(cp) \cup {c}
        /\ ~(Len(cp) >= CheckpointCap) =>
             /\ Len(new) = Len(cp) + 1
             /\ \A i \in 1..Len(new) : \/ i \in 1..Len(cp) /\ new[i] = cp[i]
                                       \/ i = Len(cp) + 1 /\ new[i] = c
    <2>1. cp \in Seq(Nat) /\ c \in Nat /\ CheckpointCap \in Nat \ {0}
      BY <1>c, <1>d
    <2>2. new = KeepNewest(Append(cp, c), CheckpointCap)
      BY <1>a
    <2>3. Longer(Nat, cp, c, CheckpointCap, new)
      BY <2>1, <2>2, Appended
    <2> QED BY <2>3 DEF Longer
  <1>f. nph \in Phases /\ nph \notin Fresh /\ nph \notin Between /\ nph \in Yielding /\ nph # "turn"
    BY <1>a DEF Phases, Fresh, Between, Yielding
  <1>1. Becomes(s, new, rec, rd, nph, {})
    BY <1>a, <1>i DEF Becomes, Sets
  <1>2. HandedOf(new, rd, nph, {})
    BY <1>e, <1>f DEF HandedOf
  <1>3. Elements(new) \cup RecordNames(rec) \cup RedoNames(rd) \cup InHand(nph, {}) \subseteq Reach(s)
    BY <1>c, <1>d, <1>e, NoRedos
  <1>4. ASSUME s \notin lost' PROVE PlacedOf(s, new, rec, rd, nph, {})
    <2>1. PlacedOf(s, cp, rec, rd, ph, h) /\ ~(Len(cp) >= CheckpointCap)
      BY <1>4, <1>a, <1>b, <1>c DEF Start
    <2>2. /\ \A i \in 1..Len(cp) : Has(Name(s, "turn", i), cp[i])
          /\ Has(Name(s, "turn", Len(cp) + 1), c)
      BY <2>1, <1>a DEF PlacedOf
    <2>3. \A i \in 1..Len(new) : Has(Name(s, "turn", i), new[i])
      BY <2>1, <2>2, <1>e
    <2>4. \A k \in DOMAIN rec : TurnAt(s, k) => EndHeld(s, k, rec[k])
      BY <2>1 DEF PlacedOf
    <2> QED BY <2>3, <2>4, <1>f DEF PlacedOf
  <1>5. Saves(s, new, rec, rd, nph, {})
    BY <1>1, <1>2, <1>3, <1>4, <1>a, <1>c, <1>e, <1>f DEF Saves
  <1> QED BY <1>5, SavesStep

LEMMA RecordTurnStep ==
    ASSUME Held, NEW s \in Active, RecordTurn(s)
    PROVE  Held'
  <1>p. PICK cp, rec, rd, ph, h : Is(s, cp, rec, rd, ph, h)
    BY DEF Is
  <1>b. Start(s, cp, rec, rd, ph, h)
    BY <1>p, Before
  <1>i. /\ cp = checkpoints[s] /\ rec = records[s] /\ rd = redo[s] /\ ph = phase[s]
        /\ h = hand[s]
    BY <1>p DEF Is
  <1>a. PICK new, nph :
          /\ new = Recorded(s, cp, Last(cp), None)
          /\ nph = IF rd = <<>> THEN "turn" ELSE "recorded"
          /\ records' = [records EXCEPT ![s] = new]
          /\ phase' = [phase EXCEPT ![s] = nph]
          /\ hand' = [hand EXCEPT ![s] = {}]
          /\ ph \in {"taken", "pushed"} /\ (ph = "taken" => cp # <<>>)
          /\ UNCHANGED <<refs, made, day, alive, checkpoints, redo, lost>> /\ Touch(s)
    BY <1>i DEF RecordTurn
  <1>c. /\ cp \in Seq(Nat) /\ cp # <<>> /\ rd \in Seq(Entry) /\ s \in alive
        /\ Len(cp) <= CheckpointCap /\ Len(rd) <= RedoCap
        /\ Elements(cp) \cup RecordNames(rec) \cup RedoNames(rd) \subseteq Reach(s)
    BY <1>a, <1>b DEF Start, HandedOf
  <1>d. Last(cp) \in Elements(cp)
    BY <1>c, ButLastParts
  <1>e. /\ \A k \in DOMAIN new : new[k] = None \/ (k \in DOMAIN rec /\ new[k] = rec[k])
        /\ RecordNames(new) \subseteq RecordNames(rec) \cup {Last(cp)}
    <2>1. /\ \A k \in DOMAIN new : \/ k = Last(cp) /\ new[k] = None
                                   \/ k \in DOMAIN records[s] /\ new[k] = records[s][k]
          /\ RecordNames(new) \subseteq RecordNames(records[s]) \cup {Last(cp)} \cup ({None} \ {None})
      BY <1>a, RecordedParts
    <2> QED BY <2>1, <1>i
  <1>f. nph \in Phases /\ nph \notin Fresh /\ nph \notin Between /\ nph # "idle"
        /\ (nph = "turn" => rd = <<>>) /\ (nph \in Yielding \/ rd = <<>>)
    BY <1>a DEF Phases, Fresh, Between, Yielding
  <1>1. Becomes(s, cp, new, rd, nph, {})
    BY <1>a, <1>i DEF Becomes, Sets
  <1>2. HandedOf(cp, rd, nph, {})
    BY <1>c, <1>f DEF HandedOf, Fresh, Between
  <1>3. Elements(cp) \cup RecordNames(new) \cup RedoNames(rd) \cup InHand(nph, {}) \subseteq Reach(s)
    BY <1>c, <1>d, <1>e, NoRedos
  <1>4. ASSUME s \notin lost' PROVE PlacedOf(s, cp, new, rd, nph, {})
    <2>1. PlacedOf(s, cp, rec, rd, ph, h)
      BY <1>4, <1>a, <1>b, <1>c DEF Start
    <2>2. \A k \in DOMAIN new : TurnAt(s, k) => EndHeld(s, k, new[k])
      BY <2>1, <1>e DEF PlacedOf, EndHeld
    <2>3. nph \notin Yielding => \A k \in 1..Len(rd) : RedoHeld(s, k, rd[k])
      BY <1>f, NoRedos
    <2>4. \A i \in 1..Len(cp) : Has(Name(s, "turn", i), cp[i])
      BY <2>1 DEF PlacedOf
    <2> QED BY <2>2, <2>3, <2>4 DEF PlacedOf
  <1>5. Saves(s, cp, new, rd, nph, {})
    BY <1>1, <1>2, <1>3, <1>4, <1>a, <1>c, <1>f DEF Saves
  <1> QED BY <1>5, SavesStep

LEMMA PassesOverStep ==
    ASSUME Held, NEW s \in Active, UndoPassesOver(s)
    PROVE  Held'
  <1>p. PICK cp, rec, rd, ph, h : Is(s, cp, rec, rd, ph, h)
    BY DEF Is
  <1>b. Start(s, cp, rec, rd, ph, h)
    BY <1>p, Before
  <1>i. /\ cp = checkpoints[s] /\ rec = records[s] /\ rd = redo[s] /\ ph = phase[s]
        /\ h = hand[s]
    BY <1>p DEF Is
  <1>a. PICK new :
          /\ new = AllButLast(cp) /\ cp # <<>> /\ ph = "undoing"
          /\ checkpoints' = [checkpoints EXCEPT ![s] = new]
          /\ UNCHANGED <<refs, made, day, alive, records, redo, phase, hand, lost>> /\ Touch(s)
    BY <1>i DEF UndoPassesOver
  <1>c. /\ cp \in Seq(Nat) /\ rd \in Seq(Entry) /\ Len(rd) <= RedoCap /\ s \in alive
        /\ Len(cp) \in Nat /\ Len(cp) <= CheckpointCap /\ CheckpointCap \in Nat
        /\ Elements(cp) \cup RecordNames(rec) \cup RedoNames(rd) \cup InHand(ph, h) \subseteq Reach(s)
    BY <1>a, <1>b DEF Start
  <1>d. /\ new \in Seq(Nat) /\ Len(new) = Len(cp) - 1 /\ Elements(new) \subseteq Elements(cp)
        /\ \A i \in 1 .. Len(cp) - 1 : new[i] = cp[i]
    BY <1>a, <1>c, ButLastParts
  <1>e. Len(new) <= CheckpointCap /\ \A i \in 1..Len(new) : i \in 1..Len(cp) /\ new[i] = cp[i]
    BY <1>c, <1>d
  <1>1. Becomes(s, new, rec, rd, ph, h)
    BY <1>a, <1>i DEF Becomes, Sets
  <1>2. HandedOf(new, rd, ph, h)
    BY <1>a, <1>b DEF Start, HandedOf, Fresh, Between
  <1>4. ASSUME s \notin lost' PROVE PlacedOf(s, new, rec, rd, ph, h)
    <2>1. PlacedOf(s, cp, rec, rd, ph, h)
      BY <1>4, <1>a, <1>b, <1>c DEF Start
    <2>2. \A i \in 1..Len(new) : Has(Name(s, "turn", i), new[i])
      BY <2>1, <1>e DEF PlacedOf
    <2>3. ph \notin {"taken", "reverting"}
      BY <1>a
    <2> QED BY <2>1, <2>2, <2>3 DEF PlacedOf
  <1>5. ph \in Phases /\ ph = phase[s] /\ h = hand[s]
    BY <1>b, <1>i DEF Start
  <1>6. Saves(s, new, rec, rd, ph, h)
    BY <1>1, <1>2, <1>4, <1>5, <1>a, <1>c, <1>d, <1>e DEF Saves
  <1> QED BY <1>6, SavesStep

LEMMA UndoPushesStep ==
    ASSUME Held, NEW s \in Active, UndoPushes(s)
    PROVE  Held'
  <1>p. PICK cp, rec, rd, ph, h : Is(s, cp, rec, rd, ph, h)
    BY DEF Is
  <1>b. Start(s, cp, rec, rd, ph, h)
    BY <1>p, Before
  <1>i. /\ cp = checkpoints[s] /\ rec = records[s] /\ rd = redo[s] /\ ph = phase[s]
        /\ h = hand[s]
    BY <1>p DEF Is
  <1>a. PICK r, new :
          /\ r \in h /\ new = KeepNewest(Append(rd, r), RedoCap) /\ ph = "undone"
          /\ redo' = [redo EXCEPT ![s] = new]
          /\ phase' = [phase EXCEPT ![s] = "idle"]
          /\ hand' = [hand EXCEPT ![s] = {}]
          /\ lost' = IF Len(rd) >= RedoCap THEN lost \cup {s} ELSE lost
          /\ UNCHANGED <<refs, made, day, alive, checkpoints, records>> /\ Touch(s)
    BY <1>i DEF UndoPushes
  <1>c. /\ cp \in Seq(Nat) /\ rd \in Seq(Entry) /\ Len(cp) <= CheckpointCap /\ s \in alive
        /\ RedoCap \in Nat \ {0} /\ r \in Entry
        /\ Elements(cp) \cup RecordNames(rec) \cup RedoNames(rd) \cup InRedo(r) \subseteq Reach(s)
    BY <1>a, <1>b DEF Start, HandedOf, InHand, Between
  <1>d. Longer(Entry, rd, r, RedoCap, new)
    BY <1>a, <1>c, Appended
  <1>e. new \in Seq(Entry) /\ Len(new) <= RedoCap
    BY <1>d DEF Longer
  <1>f. RedoNames(new) \subseteq RedoNames(rd) \cup InRedo(r)
    <2>1. Append(rd, r) \in Seq(Entry) /\ RedoNames(Append(rd, r)) = RedoNames(rd) \cup InRedo(r)
      BY <1>c, RedoAppended
    <2>2. RedoNames(KeepNewest(Append(rd, r), RedoCap)) \subseteq RedoNames(Append(rd, r))
      BY <2>1, <1>c, RedoDropped
    <2> QED BY <2>1, <2>2, <1>a
  <1>1. Becomes(s, cp, rec, new, "idle", {})
    BY <1>a, <1>i DEF Becomes, Sets
  <1>2. HandedOf(cp, new, "idle", {})
    BY DEF HandedOf
  <1>3. Elements(cp) \cup RecordNames(rec) \cup RedoNames(new) \cup InHand("idle", {}) \subseteq Reach(s)
    BY <1>c, <1>f, NoRedos
  <1>4. ASSUME s \notin lost' PROVE PlacedOf(s, cp, rec, new, "idle", {})
    <2>1. PlacedOf(s, cp, rec, rd, ph, h) /\ ~(Len(rd) >= RedoCap)
      BY <1>4, <1>a, <1>b, <1>c DEF Start
    <2>2. /\ \A k \in 1..Len(rd) : RedoHeld(s, k, rd[k])
          /\ RedoHeld(s, Len(rd) + 1, r)
      BY <2>1, <1>a DEF PlacedOf, Yielding
    <2>3. \A i \in 1..Len(new) : \/ i \in 1..Len(rd) /\ new[i] = rd[i]
                                 \/ i = Len(rd) + 1 /\ new[i] = r
      BY <2>1, <1>d DEF Longer
    <2>4. \A k \in 1..Len(new) : RedoHeld(s, k, new[k])
      BY <2>2, <2>3
    <2> QED BY <2>1, <2>4 DEF PlacedOf
  <1>5. "idle" \in Phases /\ "idle" \notin Fresh
    BY DEF Phases, Fresh
  <1>6. Saves(s, cp, rec, new, "idle", {})
    BY <1>1, <1>2, <1>3, <1>4, <1>5, <1>a, <1>c, <1>e DEF Saves
  <1> QED BY <1>6, SavesStep

LEMMA RedoPopsStep ==
    ASSUME Held, NEW s \in Active, RedoPops(s)
    PROVE  Held'
  <1>p. PICK cp, rec, rd, ph, h : Is(s, cp, rec, rd, ph, h)
    BY DEF Is
  <1>b. Start(s, cp, rec, rd, ph, h)
    BY <1>p, Before
  <1>i. /\ cp = checkpoints[s] /\ rec = records[s] /\ rd = redo[s] /\ ph = phase[s]
        /\ h = hand[s]
    BY <1>p DEF Is
  <1>a. PICK r, new :
          /\ new = AllButLast(rd) /\ rd # <<>> /\ ph = "idle" /\ s \in alive
          /\ r = [Last(rd) EXCEPT !.files = None, !.undone = None]
          /\ redo' = [redo EXCEPT ![s] = new]
          /\ phase' = [phase EXCEPT ![s] = "redoing"]
          /\ hand' = [hand EXCEPT ![s] = {r}]
          /\ UNCHANGED <<refs, made, day, alive, checkpoints, records, lost>> /\ Touch(s)
    BY <1>i DEF RedoPops, Idle
  <1>c. /\ cp \in Seq(Nat) /\ rd \in Seq(Entry) /\ Len(cp) <= CheckpointCap
        /\ RedoCap \in Nat /\ Len(rd) <= RedoCap /\ Len(rd) \in Nat
        /\ Elements(cp) \cup RecordNames(rec) \cup RedoNames(rd) \subseteq Reach(s)
    BY <1>b DEF Start
  <1>d. /\ new \in Seq(Entry) /\ Len(new) = Len(rd) - 1 /\ Last(rd) = rd[Len(rd)]
        /\ Last(rd) \in Entry /\ \A i \in 1 .. Len(rd) - 1 : new[i] = rd[i]
        /\ Len(rd) \in Nat \ {0}
    BY <1>a, <1>c, ButLastParts
  <1>e. /\ Len(new) <= RedoCap /\ Len(rd) \in 1..Len(rd)
        /\ \A i \in 1..Len(new) : i \in 1..Len(rd) /\ new[i] = rd[i]
    <2>1. Len(new) <= RedoCap /\ Len(rd) \in 1..Len(rd)
      BY <1>c, <1>d
    <2>2. \A i \in 1..Len(new) : i \in 1..Len(rd) /\ i \in 1 .. Len(rd) - 1
      BY <1>c, <1>d
    <2> QED BY <2>1, <2>2, <1>d
  <1>f. RedoNames(rd) = RedoNames(new) \cup InRedo(Last(rd))
    BY <1>a, <1>c, RedoPopped
  <1>g. /\ r \in Popped /\ r.checkpoint = Last(rd).checkpoint /\ r.after = Last(rd).after
        /\ r.files = None /\ r.undone = None
    BY <1>a, <1>d DEF Entry, Popped
  <1>h. InHand("redoing", {r}) \subseteq InRedo(Last(rd))
    <2>1. InHand("redoing", {r}) = InRedo(r)
      BY DEF InHand, Between
    <2> QED BY <2>1, <1>g DEF InRedo
  <1>1. Becomes(s, cp, rec, new, "redoing", {r})
    BY <1>a, <1>i DEF Becomes, Sets
  <1>2. HandedOf(cp, new, "redoing", {r})
    BY <1>g DEF HandedOf, Between
  <1>3. Elements(cp) \cup RecordNames(rec) \cup RedoNames(new) \cup InHand("redoing", {r})
          \subseteq Reach(s)
    BY <1>c, <1>f, <1>h
  <1>4. ASSUME s \notin lost' PROVE PlacedOf(s, cp, rec, new, "redoing", {r})
    <2>1. PlacedOf(s, cp, rec, rd, ph, h)
      BY <1>4, <1>a, <1>b DEF Start
    <2>2. \A k \in 1..Len(rd) : RedoHeld(s, k, rd[k])
      BY <2>1, <1>a DEF PlacedOf, Yielding
    <2>3. \A k \in 1..Len(new) : RedoHeld(s, k, new[k])
      BY <2>2, <1>e
    <2>4. RedoHeld(s, Len(rd), Last(rd))
      BY <2>2, <1>d, <1>e
    <2>5. TurnAt(s, r.checkpoint) /\ EndHeld(s, r.checkpoint, r.after)
      BY <2>4, <1>g DEF RedoHeld
    <2> QED BY <2>1, <2>3, <2>5 DEF PlacedOf
  <1>5. "redoing" \in Phases /\ "redoing" \notin Fresh
    BY DEF Phases, Fresh
  <1>6. Saves(s, cp, rec, new, "redoing", {r})
    BY <1>1, <1>2, <1>3, <1>4, <1>5, <1>a, <1>c, <1>d, <1>e DEF Saves
  <1> QED BY <1>6, SavesStep

LEMMA RedoPushesStep ==
    ASSUME Held, NEW s \in Active, RedoPushes(s)
    PROVE  Held'
  <1>p. PICK cp, rec, rd, ph, h : Is(s, cp, rec, rd, ph, h)
    BY DEF Is
  <1>b. Start(s, cp, rec, rd, ph, h)
    BY <1>p, Before
  <1>i. /\ cp = checkpoints[s] /\ rec = records[s] /\ rd = redo[s] /\ ph = phase[s]
        /\ h = hand[s]
    BY <1>p DEF Is
  <1>a. PICK r, new :
          /\ r \in h /\ new = KeepNewest(Append(cp, r.checkpoint), CheckpointCap) /\ ph = "redoing"
          /\ checkpoints' = [checkpoints EXCEPT ![s] = new]
          /\ phase' = [phase EXCEPT ![s] = "redone"]
          /\ lost' = IF \/ Len(cp) >= CheckpointCap
                        \/ \E n \in DOMAIN refs : n # Place(s) /\ refs[n] = r.checkpoint
                     THEN lost \cup {s} ELSE lost
          /\ UNCHANGED <<refs, made, day, alive, records, redo, hand>> /\ Touch(s)
    BY <1>i DEF RedoPushes
  <1>c. /\ cp \in Seq(Nat) /\ rd \in Seq(Entry) /\ Len(rd) <= RedoCap /\ s \in alive
        /\ CheckpointCap \in Nat \ {0} /\ h \subseteq Popped
        /\ Elements(cp) \cup RecordNames(rec) \cup RedoNames(rd) \cup InHand(ph, h) \subseteq Reach(s)
    BY <1>a, <1>b DEF Start, HandedOf
  <1>d. /\ InHand("redone", h) = InHand(ph, h) /\ InRedo(r) \subseteq InHand(ph, h)
        /\ r.checkpoint \in Nat
    BY <1>a, <1>c DEF InHand, Between, Popped
  <1>e. r.checkpoint \in InRedo(r)
    BY <1>d, StorageAssumption DEF InRedo
  <1>f. Longer(Nat, cp, r.checkpoint, CheckpointCap, new)
    BY <1>a, <1>c, <1>d, Appended
  <1>g. /\ new \in Seq(Nat) /\ new # <<>> /\ Len(new) <= CheckpointCap
        /\ Elements(new) \subseteq Elements(cp) \cup {r.checkpoint}
    BY <1>f DEF Longer
  <1>1. Becomes(s, new, rec, rd, "redone", h)
    BY <1>a, <1>i DEF Becomes, Sets
  <1>2. HandedOf(new, rd, "redone", h)
    BY <1>c DEF HandedOf, Between
  <1>3. Elements(new) \cup RecordNames(rec) \cup RedoNames(rd) \cup InHand("redone", h)
          \subseteq Reach(s)
    BY <1>c, <1>d, <1>e, <1>g
  <1>4. ASSUME s \notin lost' PROVE PlacedOf(s, new, rec, rd, "redone", h)
    <2>1. /\ PlacedOf(s, cp, rec, rd, ph, h) /\ ~(Len(cp) >= CheckpointCap)
          /\ \A n \in DOMAIN refs : refs[n] = r.checkpoint => n = Place(s)
      BY <1>4, <1>a, <1>b, <1>c DEF Start
    <2>2. /\ \A i \in 1..Len(cp) : Has(Name(s, "turn", i), cp[i])
          /\ TurnAt(s, r.checkpoint)
      BY <2>1, <1>a DEF PlacedOf
    <2>3. Has(Name(s, "turn", Len(cp) + 1), r.checkpoint)
      BY <2>1, <2>2, <1>i DEF TurnAt, Has, Place
    <2>4. \A i \in 1..Len(new) : \/ i \in 1..Len(cp) /\ new[i] = cp[i]
                                 \/ i = Len(cp) + 1 /\ new[i] = r.checkpoint
      BY <2>1, <1>f DEF Longer
    <2>5. \A i \in 1..Len(new) : Has(Name(s, "turn", i), new[i])
      BY <2>2, <2>3, <2>4
    <2>6. /\ \A k \in 1..Len(rd) : RedoHeld(s, k, rd[k])
          /\ \A k \in DOMAIN rec : TurnAt(s, k) => EndHeld(s, k, rec[k])
          /\ \A x \in h : TurnAt(s, x.checkpoint) /\ EndHeld(s, x.checkpoint, x.after)
      BY <2>1, <1>a DEF PlacedOf, Yielding
    <2> QED BY <2>5, <2>6 DEF PlacedOf
  <1>5. "redone" \in Phases /\ "redone" \notin Fresh
    BY DEF Phases, Fresh
  <1>6. Saves(s, new, rec, rd, "redone", h)
    BY <1>1, <1>2, <1>3, <1>4, <1>5, <1>a, <1>c, <1>g DEF Saves
  <1> QED BY <1>6, SavesStep

LEMMA RedoRecordsStep ==
    ASSUME Held, NEW s \in Active, RedoRecords(s)
    PROVE  Held'
  <1>p. PICK cp, rec, rd, ph, h : Is(s, cp, rec, rd, ph, h)
    BY DEF Is
  <1>b. Start(s, cp, rec, rd, ph, h)
    BY <1>p, Before
  <1>i. /\ cp = checkpoints[s] /\ rec = records[s] /\ rd = redo[s] /\ ph = phase[s]
        /\ h = hand[s]
    BY <1>p DEF Is
  <1>a. PICK r, new :
          /\ r \in h /\ new = Recorded(s, cp, r.checkpoint, r.after) /\ ph = "redone"
          /\ records' = [records EXCEPT ![s] = new]
          /\ phase' = [phase EXCEPT ![s] = "idle"]
          /\ hand' = [hand EXCEPT ![s] = {}]
          /\ UNCHANGED <<refs, made, day, alive, checkpoints, redo, lost>> /\ Touch(s)
    BY <1>i DEF RedoRecords
  <1>c. /\ cp \in Seq(Nat) /\ rd \in Seq(Entry) /\ s \in alive
        /\ Len(cp) <= CheckpointCap /\ Len(rd) <= RedoCap /\ h \subseteq Popped
        /\ Elements(cp) \cup RecordNames(rec) \cup RedoNames(rd) \cup InHand(ph, h) \subseteq Reach(s)
    BY <1>a, <1>b DEF Start, HandedOf
  <1>d. InRedo(r) \subseteq Reach(s) /\ r.checkpoint \in Nat
    BY <1>a, <1>c DEF InHand, Between, Popped
  <1>e. r.checkpoint \in Reach(s) /\ ({r.after} \ {None}) \subseteq Reach(s)
    BY <1>d, StorageAssumption DEF InRedo
  <1>f. /\ \A k \in DOMAIN new : \/ k = r.checkpoint /\ new[k] = r.after
                                 \/ k \in DOMAIN rec /\ new[k] = rec[k]
        /\ RecordNames(new) \subseteq RecordNames(rec) \cup {r.checkpoint} \cup ({r.after} \ {None})
    <2>1. /\ \A k \in DOMAIN new : \/ k = r.checkpoint /\ new[k] = r.after
                                   \/ k \in DOMAIN records[s] /\ new[k] = records[s][k]
          /\ RecordNames(new)
               \subseteq RecordNames(records[s]) \cup {r.checkpoint} \cup ({r.after} \ {None})
      BY <1>a, RecordedParts
    <2> QED BY <2>1, <1>i
  <1>1. Becomes(s, cp, new, rd, "idle", {})
    BY <1>a, <1>i DEF Becomes, Sets
  <1>2. HandedOf(cp, rd, "idle", {})
    BY DEF HandedOf
  <1>3. Elements(cp) \cup RecordNames(new) \cup RedoNames(rd) \cup InHand("idle", {}) \subseteq Reach(s)
    BY <1>c, <1>e, <1>f, NoRedos
  <1>4. ASSUME s \notin lost' PROVE PlacedOf(s, cp, new, rd, "idle", {})
    <2>1. PlacedOf(s, cp, rec, rd, ph, h)
      BY <1>4, <1>a, <1>b, <1>c DEF Start
    <2>2. EndHeld(s, r.checkpoint, r.after)
      BY <2>1, <1>a DEF PlacedOf
    <2>3. \A k \in DOMAIN rec : TurnAt(s, k) => EndHeld(s, k, rec[k])
      BY <2>1 DEF PlacedOf
    <2>4. \A k \in DOMAIN new : TurnAt(s, k) => EndHeld(s, k, new[k])
      BY <2>2, <2>3, <1>f
    <2>5. /\ \A k \in 1..Len(rd) : RedoHeld(s, k, rd[k])
          /\ \A i \in 1..Len(cp) : Has(Name(s, "turn", i), cp[i])
      BY <2>1, <1>a DEF PlacedOf, Yielding
    <2> QED BY <2>4, <2>5 DEF PlacedOf
  <1>5. "idle" \in Phases /\ "idle" \notin Fresh
    BY DEF Phases, Fresh
  <1>6. Saves(s, cp, new, rd, "idle", {})
    BY <1>1, <1>2, <1>3, <1>4, <1>5, <1>a, <1>c DEF Saves
  <1> QED BY <1>6, SavesStep

-----------------------------------------------------------------------------
(* The steps that make a commit and move a ref to it.                      *)

Uses == {"turn", "after", "reverted", "redo", "undone"}

\* A ref of a session goes to the commit just made; the others stay.
Shifts(s, what, i, c) ==
    /\ Has(Name(s, what, i), c)'
    /\ \A n, d : n # Name(s, what, i) => (Has(n, d)' <=> Has(n, d))
    /\ \A d : Has(Name(s, what, i), d)' => d = c

LEMMA OneRefFiles ==
    ASSUME Held, NEW s \in Sessions, NEW what \in Uses,
           NEW i \in Nat \ {0}, NEW c, c = NewCommit,
           refs' = Put(refs, Name(s, what, i), c), made' = Append(made, day)
    PROVE  /\ Files(s) /\ Commits' \ Commits = {c} /\ made'[c] = day
           /\ Shifts(s, what, i, c)
  <1> DEFINE x == Name(s, what, i)
  <1>m. /\ made' \in Seq(0..MaxDays) /\ Len(made') = Len(made) + 1
        /\ Commits' = Commits \cup {c} /\ made'[c] = day
        /\ \A d \in Commits : made'[d] = made[d]
    <2>1. made \in Seq(0..MaxDays) /\ day \in 0..MaxDays
      BY DEF Held, Shaped
    <2> QED BY <2>1 DEF Commits, NewCommit
  <1>n. Len(made) \in Nat /\ c \notin Commits
    BY Numbered DEF Held
  <1>x. x \in Names
    BY DEF Name, Names, Uses
  <1>o. \A q \in Sessions \ {s} : \A w, j : Name(q, w, j) # x
    BY DEF Name
  <1>p. refs' = Put(refs, x, c)
    OBVIOUS
  <1>q. Shifts(s, what, i, c) <=> /\ Has(x, c)'
                                  /\ \A n, d : n # x => (Has(n, d)' <=> Has(n, d))
                                  /\ \A d : Has(x, d)' => d = c
    BY DEF Shifts
  <1> HIDE DEF x
  <1>1. /\ DOMAIN refs' = DOMAIN refs \cup {x} /\ refs'[x] = c
        /\ \A z \in DOMAIN refs \ {x} : refs'[z] = refs[z]
    <2>1. refs' = [z \in DOMAIN refs \cup {x} |-> IF z = x THEN c ELSE refs[z]]
      BY <1>p DEF Put
    <2>2. DOMAIN refs' = DOMAIN refs \cup {x} /\ refs'[x] = c
      BY <2>1
    <2>3. \A z \in DOMAIN refs : z # x => refs'[z] = refs[z]
      BY <2>1
    <2> QED BY <2>2, <2>3
  <1>2. Has(x, c)' /\ \A d : Has(x, d)' => d = c
    BY <1>1 DEF Has
  <1>3. \A n, d : n # x => (Has(n, d)' <=> Has(n, d))
    BY <1>1 DEF Has
  <1>4. DOMAIN refs' \subseteq Names /\ \A n \in DOMAIN refs' : refs'[n] \in Commits'
    BY <1>1, <1>m, <1>x DEF Held, Shaped
  <1>5. \A n, d : Has(n, d) => d \in Commits
    BY DEF Held, Shaped, Has
  <1>6. \A n, m : \A d : Has(n, d)' /\ Has(m, d)' => n = m
    <2> SUFFICES ASSUME NEW n, NEW m, NEW d, Has(n, d)', Has(m, d)' PROVE n = m
      OBVIOUS
    <2>1. CASE n = x \/ m = x
      <3>1. d = c
        BY <2>1, <1>2
      <3>2. ~Has(n, d) /\ ~Has(m, d)
        BY <3>1, <1>5, <1>n
      <3> QED BY <3>2, <1>3
    <2>2. CASE n # x /\ m # x
      BY <2>2, <1>3 DEF Held, Shaped
    <2> QED BY <2>1, <2>2
  <1>7. Len(made) <= Len(made')
    BY <1>m, <1>n
  <1>8. \A q \in Sessions \ {s} : \A w, j, d : Has(Name(q, w, j), d)' <=> Has(Name(q, w, j), d)
    BY <1>o, <1>3
  <1>9. Files(s)
    BY <1>m, <1>4, <1>6, <1>7, <1>8 DEF Files
  <1> QED BY <1>9, <1>m, <1>n, <1>2, <1>3, <1>q

\* What stays where it was when a ref of the session moves.
LEMMA Shifted ==
    ASSUME Held, NEW s \in Sessions, NEW what \in Uses, NEW i, NEW c, c \notin Commits,
           Shifts(s, what, i, c)
    PROVE  /\ \A d : d # c /\ TurnAt(s, d)' => TurnAt(s, d)
           /\ what # "turn" => \A d : TurnAt(s, d) => TurnAt(s, d)'
           /\ \A d, a : /\ EndHeld(s, d, a) /\ TurnAt(s, d)' /\ d # c
                        /\ ~(what = "after" /\ i = d)
                        /\ ~(what = "reverted" /\ Has(Name(s, "turn", i), d))
                        => EndHeld(s, d, a)'
           /\ what \in {"redo", "undone"} =>
                \A k, r : k # i /\ RedoHeld(s, k, r) => RedoHeld(s, k, r)'
  <1>0. /\ Has(Name(s, what, i), c)'
        /\ \A n, d : n # Name(s, what, i) => (Has(n, d)' <=> Has(n, d))
        /\ \A d : Has(Name(s, what, i), d)' => d = c
    BY DEF Shifts
  <1>n. \A w, j : Name(s, w, j) = Name(s, what, i) => w = what /\ j = i
    BY DEF Name
  <1>5. \A n, d : Has(n, d) => d \in Commits
    BY DEF Held, Shaped, Has
  <1>1. \A d : d # c => \A j : Has(Name(s, "turn", j), d)' => Has(Name(s, "turn", j), d)
    BY <1>0
  <1>2. \A d : d # c /\ TurnAt(s, d)' => TurnAt(s, d)
    BY <1>1 DEF TurnAt
  <1>3. what # "turn" => \A d : TurnAt(s, d) => TurnAt(s, d)'
    BY <1>0, <1>n DEF TurnAt
  <1>4. ASSUME NEW d, NEW a, EndHeld(s, d, a), TurnAt(s, d)', d # c,
               ~(what = "after" /\ i = d),
               ~(what = "reverted" /\ Has(Name(s, "turn", i), d))
        PROVE  EndHeld(s, d, a)'
    <2>1. CASE a = None
      BY <2>1 DEF EndHeld
    <2>2. CASE Has(Name(s, "after", d), a)
      <3>1. Has(Name(s, "after", d), a)'
        BY <2>2, <1>4, <1>0, <1>n
      <3> QED BY <3>1 DEF EndHeld
    <2>3. ASSUME NEW j \in Nat, Has(Name(s, "turn", j), d), Has(Name(s, "reverted", j), a)
          PROVE  EndHeld(s, d, a)'
      <3>1. PICK k \in Nat : Has(Name(s, "turn", k), d)'
        BY <1>4 DEF TurnAt
      <3>2. Has(Name(s, "turn", k), d)
        BY <3>1, <1>1, <1>4
      <3>3. Name(s, "turn", k) = Name(s, "turn", j)
        BY <3>2, <2>3 DEF Held, Shaped
      <3>4. Has(Name(s, "turn", j), d)'
        BY <3>1, <3>3 DEF Name
      <3>5. Name(s, "reverted", j) # Name(s, what, i)
        BY <1>n, <1>4, <2>3
      <3>6. Has(Name(s, "reverted", j), a)'
        BY <3>5, <2>3, <1>0
      <3> QED BY <3>4, <3>6 DEF EndHeld
    <2> QED BY <1>4, <2>1, <2>2, <2>3 DEF EndHeld
  <1>6. ASSUME what \in {"redo", "undone"}, NEW k, NEW r, k # i, RedoHeld(s, k, r)
        PROVE  RedoHeld(s, k, r)'
    <2>1. /\ Has(Name(s, "redo", k), r.files) /\ Has(Name(s, "undone", k), r.undone)
          /\ TurnAt(s, r.checkpoint) /\ EndHeld(s, r.checkpoint, r.after)
      BY <1>6 DEF RedoHeld
    <2>2. Has(Name(s, "redo", k), r.files)' /\ Has(Name(s, "undone", k), r.undone)'
      BY <2>1, <1>0, <1>n, <1>6
    <2>3. TurnAt(s, r.checkpoint)' /\ r.checkpoint # c
      BY <2>1, <1>3, <1>5, <1>6 DEF TurnAt
    <2>4. EndHeld(s, r.checkpoint, r.after)'
      BY <2>1, <2>3, <1>4, <1>6
    <2> QED BY <2>2, <2>3, <2>4 DEF RedoHeld
  <1> QED BY <1>2, <1>3, <1>4, <1>6

LEMMA TakeStep ==
    ASSUME Held, NEW s \in Active, TakeCheckpoint(s) \/ RevertTakes(s)
    PROVE  Held'
  <1>p. PICK cp, rec, rd, ph, h : Is(s, cp, rec, rd, ph, h)
    BY DEF Is
  <1>b. Start(s, cp, rec, rd, ph, h)
    BY <1>p, Before
  <1>i. /\ cp = checkpoints[s] /\ rec = records[s] /\ rd = redo[s] /\ ph = phase[s]
        /\ h = hand[s]
    BY <1>p DEF Is
  <1>a. PICK c, n, nph :
          /\ c = NewCommit /\ n = Len(cp) + 1
          /\ ph = "idle" /\ s \in alive /\ nph \in {"taken", "reverting"}
          /\ made' = Append(made, day)
          /\ refs' = Put(refs, Name(s, "turn", n), c)
          /\ hand' = [hand EXCEPT ![s] = {c}]
          /\ phase' = [phase EXCEPT ![s] = nph]
          /\ UNCHANGED <<day, alive, checkpoints, records, redo, clean, lost>>
    BY <1>i DEF TakeCheckpoint, RevertTakes, Take, Idle, Place, meta
  <1>c. /\ cp \in Seq(Nat) /\ rd \in Seq(Entry) /\ Len(cp) \in Nat /\ s \in Sessions
        /\ Len(cp) <= CheckpointCap /\ Len(rd) <= RedoCap
        /\ c \notin Commits /\ Reach(s) \subseteq Commits
        /\ Elements(cp) \cup RecordNames(rec) \cup RedoNames(rd) \subseteq Reach(s)
    BY <1>a, <1>b DEF Start
  <1>d. n \in Nat \ {0} /\ \A i \in 1..Len(cp) : i # n
    BY <1>a, <1>c
  <1>f. /\ Files(s) /\ Commits' \ Commits = {c} /\ made'[c] = day
        /\ Shifts(s, "turn", n, c)
    BY <1>a, <1>c, <1>d, OneRefFiles DEF Uses
  <1>e. /\ nph \in Phases /\ nph \in Fresh /\ nph \notin Between /\ nph \in Yielding
        /\ nph # "turn" /\ nph \notin {"pushed", "recorded", "turn", "reverted", "kept"}
        /\ nph # "undoing"
    BY <1>a DEF Phases, Fresh, Between, Yielding
  <1>g. InHand(nph, {c}) = {c}
    BY <1>e DEF InHand
  <1>1. Becomes(s, cp, rec, rd, nph, {c})
    BY <1>a, <1>i DEF Becomes, Sets
  <1>2. HandedOf(cp, rd, nph, {c})
    BY <1>e DEF HandedOf, Between
  <1>3. \A x \in {c} : made'[x] = day /\ x \notin Listed
    BY <1>c, <1>f DEF Held, Shaped
  <1>4. ASSUME s \notin lost' PROVE PlacedOf(s, cp, rec, rd, nph, {c})'
    <2>1. PlacedOf(s, cp, rec, rd, ph, h)
      BY <1>4, <1>a, <1>b DEF Start
    <2>2. \A i \in 1..Len(cp) : Has(Name(s, "turn", i), cp[i])'
      <3>1. \A i \in 1..Len(cp) : Has(Name(s, "turn", i), cp[i])
        BY <2>1 DEF PlacedOf
      <3>2. \A i \in 1..Len(cp) : Name(s, "turn", i) # Name(s, "turn", n)
        BY <1>d DEF Name
      <3> QED BY <3>1, <3>2, <1>f DEF Shifts
    <2>3. ASSUME NEW d \in DOMAIN rec, TurnAt(s, d)' PROVE EndHeld(s, d, rec[d])'
      <3>1. d # c
        BY <2>3, <1>c DEF RecordNames
      <3>2. TurnAt(s, d)
        BY <2>3, <3>1, <1>c, <1>f, Shifted DEF Uses
      <3>3. EndHeld(s, d, rec[d])
        BY <2>1, <2>3, <3>2 DEF PlacedOf
      <3> QED BY <2>3, <3>1, <3>3, <1>c, <1>f, Shifted DEF Uses
    <2>4. Has(Name(s, "turn", n), c)'
      BY <1>f DEF Shifts
    <2> QED BY <2>2, <2>3, <2>4, <1>a, <1>e DEF PlacedOf
  <1>5. Lawful(s, cp, rec, rd, nph, {c})
    BY <1>1, <1>2, <1>3, <1>4, <1>a, <1>c, <1>e, <1>f, <1>g DEF Lawful
  <1> QED BY <1>5, LawfulStep

LEMMA RecordEndStep ==
    ASSUME Held, NEW s \in Active, EndTurn(s) \/ RevertRecords(s)
    PROVE  Held'
  <1>p. PICK cp, rec, rd, ph, h : Is(s, cp, rec, rd, ph, h)
    BY DEF Is
  <1>b. Start(s, cp, rec, rd, ph, h)
    BY <1>p, Before
  <1>i. /\ cp = checkpoints[s] /\ rec = records[s] /\ rd = redo[s] /\ ph = phase[s]
        /\ h = hand[s]
    BY <1>p DEF Is
  <1>q. PICK c, start, new :
          c = NewCommit /\ start = Last(cp) /\ new = Recorded(s, cp, start, c)
    OBVIOUS
  <1>a. PICK what, n, nph :
          /\ \/ ph = "turn" /\ what = "after" /\ n = start /\ nph = "idle"
             \/ /\ ph = "reverted" /\ what = "reverted" /\ n = Len(cp)
                /\ nph = IF rd = <<>> THEN "idle" ELSE "kept"
          /\ made' = Append(made, day)
          /\ refs' = Put(refs, Name(s, what, n), c)
          /\ records' = [records EXCEPT ![s] = new]
          /\ phase' = [phase EXCEPT ![s] = nph]
          /\ UNCHANGED <<day, alive, checkpoints, redo, hand, lost>> /\ Touch(s)
    <2>1. ASSUME NEW name, NEW nph, RecordEnd(s, name, nph)
          PROVE  /\ made' = Append(made, day) /\ refs' = Put(refs, name, c)
                 /\ records' = [records EXCEPT ![s] = new]
                 /\ phase' = [phase EXCEPT ![s] = nph]
                 /\ UNCHANGED <<day, alive, checkpoints, redo, hand, lost>> /\ Touch(s)
      BY <2>1, <1>i, <1>q DEF RecordEnd
    <2>2. CASE EndTurn(s)
      BY <2>1, <2>2, <1>i, <1>q DEF EndTurn
    <2>3. CASE RevertRecords(s)
      BY <2>1, <2>3, <1>i, <1>q DEF RevertRecords
    <2> QED BY <2>2, <2>3
  <1>c. /\ cp \in Seq(Nat) /\ rd \in Seq(Entry) /\ Len(cp) \in Nat /\ s \in Sessions
        /\ Len(cp) <= CheckpointCap /\ Len(rd) <= RedoCap
        /\ c \notin Commits /\ Reach(s) \subseteq Commits /\ Commits \subseteq Nat \ {0}
        /\ Elements(cp) \cup RecordNames(rec) \cup RedoNames(rd) \subseteq Reach(s)
    BY <1>q, <1>b DEF Start
  <1>d. cp # <<>> /\ h = {} /\ s \in alive /\ (nph = "idle" => rd = <<>>)
    <2>1. HandedOf(cp, rd, ph, h) /\ (ph # "idle" => s \in alive)
      BY <1>b DEF Start
    <2> QED BY <2>1, <1>a DEF HandedOf, Fresh, Between
  <1>l. /\ Len(cp) \in Nat \ {0} /\ start = cp[Len(cp)] /\ start \in Elements(cp)
    <2>1. /\ Len(cp) \in Nat \ {0} /\ Last(cp) = cp[Len(cp)]
          /\ Elements(cp) = Elements(AllButLast(cp)) \cup {Last(cp)}
      BY <1>c, <1>d, ButLastParts
    <2> QED BY <2>1, <1>q
  <1>n. what \in Uses /\ what # "turn" /\ n \in Nat \ {0}
    BY <1>a, <1>c, <1>l DEF Uses
  <1>f. /\ Files(s) /\ Commits' \ Commits = {c} /\ made'[c] = day /\ Shifts(s, what, n, c)
    BY <1>a, <1>c, <1>n, <1>q, OneRefFiles
  <1>e. nph \in Phases /\ nph \notin Fresh /\ nph \notin Between /\ nph # "turn"
    BY <1>a DEF Phases, Fresh, Between
  <1>r. /\ \A k \in DOMAIN new : \/ k = start /\ new[k] = c
                                 \/ k # start /\ k \in DOMAIN rec /\ new[k] = rec[k]
        /\ RecordNames(new) \subseteq RecordNames(rec) \cup {start, c}
    <2>1. RecordNames(new) \subseteq RecordNames(records[s]) \cup {start} \cup ({c} \ {None})
      BY <1>q, RecordedParts
    <2>2. \A k \in DOMAIN new : \/ k = start /\ new[k] = c
                                \/ k # start /\ k \in DOMAIN rec /\ new[k] = rec[k]
      BY <1>q, <1>i DEF Recorded
    <2> QED BY <2>1, <2>2, <1>i
  <1>1. Becomes(s, cp, new, rd, nph, {})
    BY <1>a, <1>d, <1>i DEF Becomes, Sets
  <1>2. HandedOf(cp, rd, nph, {})
    BY <1>d, <1>e DEF HandedOf, Between
  <1>3. Elements(cp) \cup RecordNames(new) \cup RedoNames(rd) \cup InHand(nph, {})
          \subseteq Reach(s) \cup (Commits' \ Commits)
    BY <1>c, <1>f, <1>l, <1>r, NoRedos
  <1>4. ASSUME s \notin lost' PROVE PlacedOf(s, cp, new, rd, nph, {})'
    <2>1. PlacedOf(s, cp, rec, rd, ph, h)
      BY <1>4, <1>a, <1>b, <1>d DEF Start
    <2>2. \A i \in 1..Len(cp) : Has(Name(s, "turn", i), cp[i])
      BY <2>1 DEF PlacedOf
    <2>3. \A i \in 1..Len(cp) : Has(Name(s, "turn", i), cp[i])'
      <3>1. \A i : Name(s, "turn", i) # Name(s, what, n)
        BY <1>n DEF Name
      <3> QED BY <2>2, <3>1, <1>f DEF Shifts
    <2>4. Len(cp) \in 1..Len(cp)
      BY <1>l
    <2>5. ASSUME NEW d \in DOMAIN new, TurnAt(s, d)' PROVE EndHeld(s, d, new[d])'
      <3>1. CASE d = start /\ new[d] = c
        <4>1. Has(Name(s, what, n), c)' /\ Has(Name(s, "turn", Len(cp)), start)'
          BY <1>f, <1>l, <2>3, <2>4 DEF Shifts
        <4> QED BY <3>1, <4>1, <1>a, <1>c DEF EndHeld
      <3>2. CASE d # start /\ d \in DOMAIN rec /\ new[d] = rec[d]
        <4>1. d # c
          BY <3>2, <1>c DEF RecordNames
        <4>2. TurnAt(s, d)
          BY <2>5, <4>1, <1>c, <1>f, <1>n, Shifted
        <4>3. EndHeld(s, d, rec[d])
          BY <2>1, <3>2, <4>2 DEF PlacedOf
        <4>4. ~(what = "after" /\ n = d)
          BY <1>a, <3>2
        <4>5. ~(what = "reverted" /\ Has(Name(s, "turn", n), d))
          <5>1. Has(Name(s, "turn", Len(cp)), start)
            BY <2>2, <2>4, <1>l
          <5> QED BY <5>1, <1>a, <3>2 DEF Has
        <4> QED BY <2>5, <3>2, <4>1, <4>3, <4>4, <4>5, <1>c, <1>f, <1>n, Shifted
      <3> QED BY <3>1, <3>2, <1>r
    <2>6. nph \notin Yielding => \A k \in 1..Len(rd) : RedoHeld(s, k, rd[k])'
      BY <1>a, <1>d, NoRedos DEF Yielding
    <2> QED BY <2>3, <2>5, <2>6 DEF PlacedOf
  <1>5. Lawful(s, cp, new, rd, nph, {})
    BY <1>1, <1>2, <1>3, <1>4, <1>a, <1>c, <1>d, <1>e, <1>f DEF Lawful
  <1> QED BY <1>5, LawfulStep

LEMMA UndoBeginsStep ==
    ASSUME Held, NEW s \in Active, UndoBegins(s)
    PROVE  Held'
  <1>p. PICK cp, rec, rd, ph, h : Is(s, cp, rec, rd, ph, h)
    BY DEF Is
  <1>b. Start(s, cp, rec, rd, ph, h)
    BY <1>p, Before
  <1>i. /\ cp = checkpoints[s] /\ rec = records[s] /\ rd = redo[s] /\ ph = phase[s]
        /\ h = hand[s]
    BY <1>p DEF Is
  <1>a. PICK c, n :
          /\ c = NewCommit /\ n = Len(rd) + 1 /\ ph = "idle" /\ s \in alive
          /\ made' = Append(made, day)
          /\ refs' = Put(refs, Name(s, "redo", n), c)
          /\ hand' = [hand EXCEPT ![s] = {c}]
          /\ phase' = [phase EXCEPT ![s] = "undoing"]
          /\ UNCHANGED <<day, alive, checkpoints, records, redo, clean, lost>>
    BY <1>i DEF UndoBegins, Idle, meta
  <1>c. /\ cp \in Seq(Nat) /\ rd \in Seq(Entry) /\ Len(rd) \in Nat /\ s \in Sessions
        /\ Len(cp) <= CheckpointCap /\ Len(rd) <= RedoCap
        /\ c \notin Commits /\ Reach(s) \subseteq Commits
        /\ Elements(cp) \cup RecordNames(rec) \cup RedoNames(rd) \subseteq Reach(s)
    BY <1>a, <1>b DEF Start
  <1>d. n \in Nat \ {0} /\ \A k \in 1..Len(rd) : k # n
    BY <1>a, <1>c
  <1>f. /\ Files(s) /\ Commits' \ Commits = {c} /\ made'[c] = day
        /\ Shifts(s, "redo", n, c)
    BY <1>a, <1>c, <1>d, OneRefFiles DEF Uses
  <1>g. InHand("undoing", {c}) = {c} /\ "undoing" \in Phases
    BY DEF InHand, Between, Phases
  <1>1. Becomes(s, cp, rec, rd, "undoing", {c})
    BY <1>a, <1>i DEF Becomes, Sets
  <1>2. HandedOf(cp, rd, "undoing", {c})
    BY DEF HandedOf, Fresh
  <1>3. \A x \in {c} : made'[x] = day /\ x \notin Listed
    BY <1>c, <1>f DEF Held, Shaped
  <1>4. ASSUME s \notin lost' PROVE PlacedOf(s, cp, rec, rd, "undoing", {c})'
    <2>1. PlacedOf(s, cp, rec, rd, ph, h)
      BY <1>4, <1>a, <1>b DEF Start
    <2>2. \A i \in 1..Len(cp) : Has(Name(s, "turn", i), cp[i])'
      <3>1. \A i \in 1..Len(cp) : Has(Name(s, "turn", i), cp[i])
        BY <2>1 DEF PlacedOf
      <3>2. \A i : Name(s, "turn", i) # Name(s, "redo", n)
        BY DEF Name
      <3> QED BY <3>1, <3>2, <1>f DEF Shifts
    <2>3. ASSUME NEW d \in DOMAIN rec, TurnAt(s, d)' PROVE EndHeld(s, d, rec[d])'
      <3>1. d # c
        BY <2>3, <1>c DEF RecordNames
      <3>2. TurnAt(s, d)
        BY <2>3, <3>1, <1>c, <1>f, Shifted DEF Uses
      <3>3. EndHeld(s, d, rec[d])
        BY <2>1, <2>3, <3>2 DEF PlacedOf
      <3> QED BY <2>3, <3>1, <3>3, <1>c, <1>f, Shifted DEF Uses
    <2>4. ASSUME NEW k \in 1..Len(rd) PROVE RedoHeld(s, k, rd[k])'
      <3>1. PICK r : r = rd[k]
        OBVIOUS
      <3>2. RedoHeld(s, k, r) /\ k # n
        BY <2>1, <3>1, <1>a, <1>d DEF PlacedOf, Yielding
      <3>3. RedoHeld(s, k, r)'
        BY <3>2, <1>c, <1>f, Shifted DEF Uses
      <3> QED BY <3>1, <3>3
    <2>5. Has(Name(s, "redo", n), c)'
      BY <1>f DEF Shifts
    <2> QED BY <2>2, <2>3, <2>4, <2>5, <1>a DEF PlacedOf
  <1>5. Lawful(s, cp, rec, rd, "undoing", {c})
    BY <1>1, <1>2, <1>3, <1>4, <1>a, <1>c, <1>f, <1>g DEF Lawful
  <1> QED BY <1>5, LawfulStep

LEMMA UndoPopsStep ==
    ASSUME Held, NEW s \in Active, UndoPops(s)
    PROVE  Held'
  <1>p. PICK cp, rec, rd, ph, h : Is(s, cp, rec, rd, ph, h)
    BY DEF Is
  <1>b. Start(s, cp, rec, rd, ph, h)
    BY <1>p, Before
  <1>i. /\ cp = checkpoints[s] /\ rec = records[s] /\ rd = redo[s] /\ ph = phase[s]
        /\ h = hand[s]
    BY <1>p DEF Is
  <1>q. PICK c, n, start, after, new, nh :
          /\ c = NewCommit /\ n = Len(rd) + 1
          /\ start = Last(cp) /\ new = AllButLast(cp)
          /\ after = IF start \in DOMAIN rec THEN rec[start] ELSE None
          /\ nh = {[checkpoint |-> start, files |-> now, undone |-> c, after |-> after] : now \in h}
    OBVIOUS
  <1>a. /\ ph = "undoing" /\ cp # <<>> /\ made' = Append(made, day)
        /\ refs' = Put(refs, Name(s, "undone", n), c)
        /\ hand' = [hand EXCEPT ![s] = nh]
        /\ checkpoints' = [checkpoints EXCEPT ![s] = new]
        /\ phase' = [phase EXCEPT ![s] = "undone"]
        /\ UNCHANGED <<day, alive, records, redo, lost>> /\ Touch(s)
    BY <1>i, <1>q DEF UndoPops
  <1>c. /\ cp \in Seq(Nat) /\ rd \in Seq(Entry) /\ Len(rd) \in Nat /\ Len(cp) \in Nat
        /\ s \in Sessions /\ s \in alive /\ CheckpointCap \in Nat
        /\ Len(cp) <= CheckpointCap /\ Len(rd) <= RedoCap
        /\ c \notin Commits /\ c \in Nat /\ Reach(s) \subseteq Commits /\ Commits \subseteq Nat
        /\ Elements(cp) \cup RecordNames(rec) \cup RedoNames(rd) \cup h \subseteq Reach(s)
    BY <1>a, <1>q, <1>b DEF Start, InHand, Between
  <1>d. n \in Nat \ {0} /\ \A k \in 1..Len(rd) : k # n
    BY <1>a, <1>q, <1>c
  <1>l. /\ new \in Seq(Nat) /\ Len(new) = Len(cp) - 1 /\ Len(cp) \in Nat \ {0}
        /\ start = cp[Len(cp)] /\ Elements(cp) = Elements(new) \cup {start}
        /\ \A i \in 1 .. Len(cp) - 1 : new[i] = cp[i]
    BY <1>a, <1>q, <1>c, ButLastParts
  <1>m. /\ Len(new) <= CheckpointCap /\ Len(cp) \in 1..Len(cp)
        /\ \A i \in 1..Len(new) : i \in 1..Len(cp) /\ new[i] = cp[i]
    <2>1. Len(new) <= CheckpointCap /\ Len(cp) \in 1..Len(cp)
      BY <1>c, <1>l
    <2>2. \A i \in 1..Len(new) : i \in 1..Len(cp) /\ i \in 1 .. Len(cp) - 1
      BY <1>c, <1>l
    <2> QED BY <2>1, <2>2, <1>l
  <1>f. /\ Files(s) /\ Commits' \ Commits = {c} /\ made'[c] = day
        /\ Shifts(s, "undone", n, c)
    BY <1>a, <1>q, <1>c, <1>d, OneRefFiles DEF Uses
  <1>o. start \in Reach(s) /\ (after = None \/ after \in Reach(s))
    BY <1>a, <1>q, <1>c, <1>l DEF RecordNames
  <1>g. \A r \in nh : /\ r \in Entry /\ r.checkpoint = start /\ r.after = after
                      /\ r.files \in h /\ r.undone = c
                      /\ InRedo(r) \subseteq Reach(s) \cup {c}
    <2> SUFFICES ASSUME NEW now \in h, NEW r,
                        r = [checkpoint |-> start, files |-> now, undone |-> c, after |-> after]
                 PROVE  /\ r \in Entry /\ r.checkpoint = start /\ r.after = after
                        /\ r.files \in h /\ r.undone = c
                        /\ InRedo(r) \subseteq Reach(s) \cup {c}
      BY <1>a, <1>q
    <2>1. start \in Nat /\ now \in Nat /\ now \in Reach(s) /\ after \in Nat \cup {None}
      BY <1>c, <1>o
    <2>2. r \in Entry /\ r.checkpoint = start /\ r.after = after /\ r.files = now /\ r.undone = c
      BY <2>1, <1>c DEF Entry
    <2> QED BY <2>1, <2>2, <1>o DEF InRedo
  <1>h. InHand("undone", nh) \subseteq Reach(s) \cup {c} /\ "undone" \in Phases
        /\ "undone" \notin Fresh
    BY <1>g DEF InHand, Between, Phases, Fresh
  <1>1. Becomes(s, new, rec, rd, "undone", nh)
    BY <1>a, <1>q, <1>i DEF Becomes, Sets
  <1>2. HandedOf(new, rd, "undone", nh)
    BY <1>g DEF HandedOf, Between
  <1>3. Elements(new) \cup RecordNames(rec) \cup RedoNames(rd) \cup InHand("undone", nh)
          \subseteq Reach(s) \cup (Commits' \ Commits)
    BY <1>c, <1>f, <1>h, <1>l
  <1>4. ASSUME s \notin lost' PROVE PlacedOf(s, new, rec, rd, "undone", nh)'
    <2>1. PlacedOf(s, cp, rec, rd, ph, h)
      BY <1>4, <1>a, <1>b, <1>c DEF Start
    <2>2. \A i \in 1..Len(cp) : Has(Name(s, "turn", i), cp[i])
      BY <2>1 DEF PlacedOf
    <2>3. \A i \in 1..Len(cp) : Has(Name(s, "turn", i), cp[i])'
      <3>1. \A i : Name(s, "turn", i) # Name(s, "undone", n)
        BY DEF Name
      <3> QED BY <2>2, <3>1, <1>f DEF Shifts
    <2>4. ASSUME NEW d \in DOMAIN rec, TurnAt(s, d)' PROVE EndHeld(s, d, rec[d])'
      <3>1. d # c
        BY <2>4, <1>c DEF RecordNames
      <3>2. TurnAt(s, d)
        BY <2>4, <3>1, <1>c, <1>f, Shifted DEF Uses
      <3>3. EndHeld(s, d, rec[d])
        BY <2>1, <2>4, <3>2 DEF PlacedOf
      <3> QED BY <2>4, <3>1, <3>3, <1>c, <1>f, Shifted DEF Uses
    <2>5. ASSUME NEW k \in 1..Len(rd) PROVE RedoHeld(s, k, rd[k])'
      <3>1. PICK r : r = rd[k]
        OBVIOUS
      <3>2. RedoHeld(s, k, r) /\ k # n
        BY <2>1, <3>1, <1>a, <1>d, <1>q DEF PlacedOf, Yielding
      <3>3. RedoHeld(s, k, r)'
        BY <3>2, <1>c, <1>f, Shifted DEF Uses
      <3> QED BY <3>1, <3>3
    <2>6. TurnAt(s, start)' /\ start # c
      BY <2>3, <1>c, <1>l, <1>m, <1>o DEF TurnAt
    <2>7. EndHeld(s, start, after)'
      BY <2>4, <2>6, <1>a, <1>q DEF EndHeld
    <2>8. ASSUME NEW r \in nh PROVE RedoHeld(s, n, r)'
      <3>1. PICK now, x : now = r.files /\ x = Name(s, "redo", n)
        OBVIOUS
      <3>2. Has(x, now)
        <4>1. x = Name(s, "redo", Len(rd) + 1)
          BY <3>1, <1>q
        <4>2. now \in h
          BY <3>1, <1>g
        <4> QED BY <2>1, <4>1, <4>2, <1>a DEF PlacedOf
      <3>3. x # Name(s, "undone", n)
        BY <3>1 DEF Name
      <3>4. Has(x, now)' /\ Has(Name(s, "undone", n), c)'
        BY <3>2, <3>3, <1>f DEF Shifts
      <3> QED BY <2>6, <2>7, <3>1, <3>4, <1>g DEF RedoHeld
    <2>9. \A i \in 1..Len(new) : Has(Name(s, "turn", i), new[i])'
      BY <2>3, <1>m
    <2> QED BY <2>4, <2>5, <2>8, <2>9, <1>a, <1>q DEF PlacedOf
  <1>5. Lawful(s, new, rec, rd, "undone", nh)
    BY <1>1, <1>2, <1>3, <1>4, <1>a, <1>c, <1>f, <1>h, <1>l, <1>m DEF Lawful
  <1> QED BY <1>5, LawfulStep

-----------------------------------------------------------------------------
(* Removing a session, and what goes by without touching any.              *)

LEMMA RemoveStep ==
    ASSUME Held, NEW s \in Sessions, Remove(s), UNCHANGED <<refs, made, day, lost>>,
           clean' = [f \in Fields |-> clean'[f]],
           clean'.refs = clean.refs, clean'.at = clean.at
    PROVE  Held'
  <1>1. /\ phase'[s] = "idle" /\ hand'[s] = {} /\ checkpoints'[s] = <<>> /\ redo'[s] = <<>>
        /\ records'[s] = <<>> /\ alive' = alive \ {s}
    BY DEF Remove, Held, Shaped
  <1>2. \A q \in Sessions \ {s} :
          /\ checkpoints'[q] = checkpoints[q] /\ records'[q] = records[q]
          /\ redo'[q] = redo[q] /\ phase'[q] = phase[q] /\ hand'[q] = hand[q]
    BY DEF Remove, Held, Shaped
  <1>3. /\ phase' \in [Sessions -> Phases] /\ hand' = [q \in Sessions |-> hand'[q]]
        /\ records' = [q \in Sessions |-> records'[q]]
    <2>1. "idle" \in Phases
      BY DEF Phases
    <2> QED BY <2>1 DEF Remove, Held, Shaped
  <1>4. checkpoints' \in [Sessions -> Seq(Nat)] /\ redo' \in [Sessions -> Seq(Entry)]
    BY DEF Remove, Held, Shaped
  <1>5. Listed' = Listed
    BY DEF Listed
  <1>6. Files(s) /\ Commits' = Commits
    BY SameFiles
  <1>7. Shaped'
    BY <1>1, <1>3, <1>4, <1>5, <1>6 DEF Held, Shaped, Files
  <1>8. Moves(s)
    BY <1>1, <1>2, <1>6 DEF Moves, Files
  <1>9. Reach(s)' = {}
    <2>1. Elements(<<>>) = {} /\ RecordNames(<<>>) = {}
      BY DEF Elements, RecordNames
    <2> QED BY <2>1, <1>1, NoRedos, ReachParts
  <1>10. Handed(s)' /\ OfToday(s)'
    BY <1>1 DEF Handed, HandedOf, OfToday, Fresh
  <1>11. Indexed(s)'
    <2>1. Len(<<>>) <= CheckpointCap /\ Len(<<>>) <= RedoCap
      BY StorageAssumption
    <2> QED BY <2>1, <1>1, <1>9 DEF Indexed
  <1> QED BY <1>1, <1>7, <1>8, <1>9, <1>10, <1>11, MovesStep

LEMMA ApartStays ==
    ASSUME Shaped, refs' = refs
    PROVE  \A n, m : \A c : Has(n, c)' /\ Has(m, c)' => n = m
  <1>1. \A n, c : Has(n, c)' <=> Has(n, c)
    BY DEF Has
  <1>2. \A n, m : \A c : Has(n, c) /\ Has(m, c) => n = m
    BY DEF Shaped
  <1> QED BY <1>1, <1>2

LEMMA StillStep ==
    ASSUME Held, UNCHANGED <<refs, made, day, alive, checkpoints, records, redo, phase, hand>>,
           UNCHANGED lost,
           clean' = [f \in Fields |-> clean'[f]], Listed' \subseteq Listed,
           clean'.at = "deleting" => clean.at = "deleting"
    PROVE  Held'
  <1>1. Commits' = Commits
    BY DEF Commits
  <1>2. Shaped'
    BY <1>1, ApartStays DEF Held, Shaped
  <1>3. \A s \in Sessions : OfToday(s)'
    BY DEF Held, OfToday
  <1>4. Spared'
    <2>1. \A s : Reach(s)' = Reach(s)
      BY ReachParts
    <2> QED BY <2>1 DEF Held, Spared
  <1> QED BY <1>2, <1>3, <1>4, QuietStep

\* What the cleanup has to say of its own parts.
LEMMA CleanAt ==
    ASSUME Held, NEW v, clean' = [clean EXCEPT !.at = v]
    PROVE  /\ clean' = [f \in Fields |-> clean'[f]] /\ clean'.at = v
           /\ Listed' = Listed /\ clean'.refs = clean.refs
  <1>1. clean = [f \in Fields |-> clean[f]]
    BY DEF Held, Shaped
  <1>2. clean' = [f \in Fields |-> clean'[f]] /\ clean'.at = v /\ clean'.refs = clean.refs
    BY <1>1 DEF Fields
  <1> QED BY <1>2 DEF Listed

LEMMA CleanNone ==
    ASSUME clean' = NoCleanup
    PROVE  clean' = [f \in Fields |-> clean'[f]] /\ clean'.at = "none" /\ Listed' = {}
  BY DEF NoCleanup, Fields, Listed

LEMMA RemovingSteps ==
    ASSUME Held, NEW s \in Sessions, (s \in Active /\ DeleteSession(s)) \/ RemoveOne(s)
    PROVE  Held'
  <1>0. clean = [f \in Fields |-> clean[f]]
    BY DEF Held, Shaped
  <1>1. clean' = clean \/ clean' = [clean EXCEPT !.still = clean.still \ {s}]
    BY DEF DeleteSession, RemoveOne
  <1>2. clean' = [f \in Fields |-> clean'[f]] /\ clean'.refs = clean.refs /\ clean'.at = clean.at
    BY <1>0, <1>1 DEF Fields
  <1>3. Remove(s) /\ UNCHANGED <<refs, made, day, lost>>
    BY DEF DeleteSession, RemoveOne
  <1> QED BY <1>2, <1>3, RemoveStep

LEMMA NextDayStep ==
    ASSUME Held, NextDay
    PROVE  Held'
  <1>1. /\ day < MaxDays /\ day' = day + 1
        /\ UNCHANGED <<refs, made, alive, checkpoints, records, redo, phase, hand, clean, lost>>
        /\ \A s \in alive : phase[s] \notin Fresh
    BY DEF NextDay, meta, Fresh
  <1>2. Commits' = Commits /\ Listed' = Listed
    BY <1>1 DEF Commits, Listed
  <1>3. day' \in 0..MaxDays
    BY <1>1, StorageAssumption DEF Held, Shaped
  <1>4. Shaped'
    BY <1>1, <1>2, <1>3, ApartStays DEF Held, Shaped
  <1>5. \A s \in Sessions : OfToday(s)'
    <2>1. \A s \in Sessions : phase[s] \notin Fresh
      BY <1>1 DEF Held, Handed, Fresh
    <2> QED BY <1>1, <2>1 DEF OfToday
  <1>6. Spared'
    <2>1. \A s : Reach(s)' = Reach(s)
      BY <1>1, ReachParts
    <2> QED BY <1>1, <1>2, <2>1 DEF Held, Spared
  <1> QED BY <1>1, <1>4, <1>5, <1>6, QuietStep

LEMMA MoneySteps ==
    ASSUME Held, NEW s, NEW r,
           SpendRow(s) \/ Save(s) \/ ReadTotal(r) \/ WriteTotal(r)
    PROVE  Held'
  <1>1. UNCHANGED <<refs, made, day, alive, checkpoints, records, redo, phase, hand, lost>>
    BY DEF SpendRow, Save, ReadTotal, WriteTotal, meta
  <1>2. \/ clean' = clean \/ Touch(s)
        \/ clean' = [clean EXCEPT !.at = "counted"]
    BY DEF SpendRow, Save, ReadTotal, WriteTotal
  <1>3. CASE clean' = clean \/ Touch(s)
    BY <1>1, <1>3, TouchKeeps, StillStep
  <1>4. CASE clean' = [clean EXCEPT !.at = "counted"]
    BY <1>1, <1>4, CleanAt, StillStep
  <1> QED BY <1>2, <1>3, <1>4

LEMMA PlanSteps ==
    ASSUME Held, Yes \/ ReadAgain \/ GiveUp
    PROVE  Held'
  <1>1. UNCHANGED <<refs, made, day, alive, checkpoints, records, redo, phase, hand, lost>>
    BY DEF Yes, ReadAgain, GiveUp, meta
  <1>0. clean = [f \in Fields |-> clean[f]]
    BY DEF Held, Shaped
  <1>2. CASE Yes
    <2>1. clean' = [clean EXCEPT !.now = day,
                             !.at = IF clean.sessions = {} THEN "removing" ELSE "counting"]
      BY <1>2 DEF Yes
    <2>2. clean' = [f \in Fields |-> clean'[f]] /\ clean'.at # "deleting"
          /\ clean'.refs = clean.refs
      BY <1>0, <2>1 DEF Fields
    <2>3. Listed' = Listed
      BY <2>2 DEF Listed
    <2> QED BY <1>1, <2>2, <2>3, StillStep
  <1>3. CASE ReadAgain
    <2>1. clean' = [NoCleanup EXCEPT !.at = "removing", !.refs = clean.refs, !.now = clean.now,
                                     !.still = (clean.sessions \cap alive) \ clean.touched]
      BY <1>3 DEF ReadAgain
    <2>2. clean' = [f \in Fields |-> clean'[f]] /\ clean'.at = "removing"
          /\ clean'.refs = clean.refs
      BY <2>1 DEF NoCleanup, Fields
    <2>3. Listed' = Listed
      BY <2>2 DEF Listed
    <2> QED BY <1>1, <2>2, <2>3, StillStep
  <1>4. CASE GiveUp
    <2>1. clean' = NoCleanup
      BY <1>4 DEF GiveUp
    <2> QED BY <1>1, <2>1, CleanNone, StillStep
  <1> QED BY <1>2, <1>3, <1>4

-----------------------------------------------------------------------------
\* What Hold calls free is not of that day, and no session that stays names it.
LEMMA FreeIsFree ==
    ASSUME NEW c, NEW today, NEW gone, Hold(c, today, gone) = "free"
    PROVE  made[c] # today /\ \A s \in alive \ gone : c \notin Named(s)
  <1>1. made[c] # today
    BY DEF Hold
  <1>2. ~(\E s \in alive \ gone : c \in Named(s))
    BY <1>1 DEF Hold
  <1> QED BY <1>1, <1>2

LEMMA ShowHeld ==
    ASSUME Held, NEW kind, Show(kind)
    PROVE  Held'
  <1> DEFINE gone == IF kind = "unreachable" THEN {} ELSE {s \in alive \ {Mine} : used[s] < day}
             free == {n \in DOMAIN refs : Hold(refs[n], day, gone) = "free"}
             taken == IF kind = "unreachable" THEN free
                      ELSE {m \in free : \/ Hold(refs[m], day, {}) = "in use"
                                         \/ Owner(m) \in gone}
             pairs == {<<n, refs[n]>> : n \in taken}
  <1>1. clean' = [NoCleanup EXCEPT !.at = "shown", !.sessions = gone, !.refs = pairs]
    BY DEF Show
  <1>2. taken \subseteq free
    OBVIOUS
  <1>3. \A n \in free : n \in DOMAIN refs /\ made[refs[n]] # day
    BY FreeIsFree
  <1> HIDE DEF gone, free, taken
  <1>4. \A p \in pairs : \E n \in taken : p[2] = refs[n]
    OBVIOUS
  <1> HIDE DEF pairs
  <1>5. clean' = [f \in Fields |-> clean'[f]] /\ clean'.at = "shown" /\ clean'.refs = pairs
    BY <1>1 DEF NoCleanup, Fields
  <1>6. \A c \in Listed' : \E n \in DOMAIN refs : c = refs[n] /\ made[c] # day
    BY <1>2, <1>3, <1>4, <1>5 DEF Listed
  <1>7. UNCHANGED <<refs, made, day, alive, checkpoints, records, redo, phase, hand, lost>>
    BY DEF Show, meta
  <1>8. Commits' = Commits
    BY <1>7 DEF Commits
  <1>9. Listed' \subseteq Commits
    BY <1>6 DEF Held, Shaped
  <1>10. Shaped'
    BY <1>5, <1>7, <1>8, <1>9, ApartStays DEF Held, Shaped
  <1>11. \A s \in Sessions : OfToday(s)'
    BY <1>6, <1>7 DEF Held, OfToday
  <1>12. Spared'
    BY <1>5 DEF Spared
  <1> QED BY <1>7, <1>10, <1>11, <1>12, QuietStep

LEMMA ReadRefsHeld ==
    ASSUME Held, ReadRefs
    PROVE  Held'
  <1> DEFINE goes == {p \in clean.refs :
                        /\ p[1] \in DOMAIN refs /\ refs[p[1]] = p[2]
                        /\ Hold(p[2], clean.now, {}) = "free"}
  <1>1. /\ \/ clean' = NoCleanup
           \/ clean' = [NoCleanup EXCEPT !.at = "deleting", !.refs = goes]
        /\ lost' = lost \cup {s \in alive : /\ phase[s] \in {"undone", "redoing", "redone"}
                                           /\ \E r \in hand[s], p \in goes : p[2] \in InRedo(r)}
        /\ UNCHANGED <<refs, made, day, alive, checkpoints, records, redo, phase, hand>>
    BY DEF ReadRefs, meta
  <1>2. \A p \in goes : p \in clean.refs /\ \A s \in alive : p[2] \notin Named(s)
    BY FreeIsFree
  <1> HIDE DEF goes
  <1>3. clean' = [f \in Fields |-> clean'[f]] /\ clean'.refs \in {{}, goes}
    BY <1>1, Deleting
  <1>4. Listed' \subseteq Listed
    BY <1>2, <1>3 DEF Listed
  <1>5. Commits' = Commits
    BY <1>1 DEF Commits
  <1>6. Shaped'
    BY <1>1, <1>3, <1>4, <1>5, ApartStays DEF Held, Shaped
  <1>7. \A s \in Sessions : OfToday(s)'
    BY <1>1, <1>4 DEF Held, OfToday
  <1>8. Spared'
    <2> SUFFICES ASSUME NEW s \in alive', s \notin lost' PROVE Reach(s)' \cap Listed' = {}
      BY DEF Spared
    <2>1. s \in alive /\ s \in Sessions /\ Reach(s)' = Reach(s)
      <3>1. s \in alive /\ s \in Sessions
        BY <1>1 DEF Held, Shaped
      <3> QED BY <3>1, <1>1, ReachParts
    <2>2. Named(s) \cap Listed' = {}
      BY <1>2, <1>3, <2>1 DEF Listed
    <2>3. Unsaved(s) \cap Listed' = {}
      <3>1. CASE phase[s] \in Fresh
        <4>1. Unsaved(s) = hand[s]
          BY <3>1 DEF Fresh, Unsaved
        <4> QED BY <2>1, <3>1, <4>1, <1>4 DEF Held, OfToday
      <3>2. CASE phase[s] \in Between
        <4>1. \A r \in hand[s] : \A p \in goes : p[2] \notin InRedo(r)
          BY <1>1, <2>1, <3>2 DEF Between
        <4>2. Unsaved(s) = UNION {InRedo(r) : r \in hand[s]}
          BY <3>2 DEF Between, Unsaved
        <4> QED BY <4>1, <4>2, <1>3 DEF Listed
      <3>3. CASE phase[s] \notin Fresh \cup Between
        <4>1. hand[s] = {}
          BY <2>1, <3>3 DEF Held, Handed, HandedOf
        <4> QED BY <4>1 DEF Unsaved
      <3> QED BY <3>1, <3>2, <3>3
    <2> QED BY <2>1, <2>2, <2>3 DEF Reach
  <1>9. lost \subseteq lost'
    BY <1>1
  <1> QED BY <1>1, <1>6, <1>7, <1>8, <1>9, QuietStep

-----------------------------------------------------------------------------
\* Refs go, and none that this session needs.
Spares(s, cp, rec, rd, ph, h) ==
    /\ cp \in Seq(Nat) /\ rd \in Seq(Entry) /\ HandedOf(cp, rd, ph, h)
    /\ Elements(cp) \cap Listed = {} /\ RecordNames(rec) \cap Listed = {}
    /\ RedoNames(rd) \cap Listed = {} /\ InHand(ph, h) \cap Listed = {}
    /\ \A n, c : Has(n, c) /\ c \notin Listed => Has(n, c)'
    /\ \A n, c : Has(n, c)' => Has(n, c)
    /\ PlacedOf(s, cp, rec, rd, ph, h)

LEMMA SparedEnds ==
    ASSUME NEW s, NEW c, NEW a, c \notin Listed, a = None \/ a \notin Listed,
           \A n, x : Has(n, x) /\ x \notin Listed => Has(n, x)',
           EndHeld(s, c, a)
    PROVE  EndHeld(s, c, a)'
  BY DEF EndHeld

LEMMA SparedTurns ==
    ASSUME NEW s, NEW c, c \notin Listed,
           \A n, x : Has(n, x) /\ x \notin Listed => Has(n, x)',
           TurnAt(s, c)
    PROVE  TurnAt(s, c)'
  BY DEF TurnAt

LEMMA SparedRedos ==
    ASSUME NEW s, NEW k, NEW r \in Entry, InRedo(r) \cap Listed = {},
           \A n, x : Has(n, x) /\ x \notin Listed => Has(n, x)',
           RedoHeld(s, k, r)
    PROVE  RedoHeld(s, k, r)'
  <1>1. r.files # None /\ r.undone # None /\ r.checkpoint # None
    BY StorageAssumption DEF Entry
  <1>2. {r.files, r.undone, r.checkpoint} \cap Listed = {} /\ (r.after = None \/ r.after \notin Listed)
    BY <1>1 DEF InRedo
  <1>3. TurnAt(s, r.checkpoint)' /\ EndHeld(s, r.checkpoint, r.after)'
    BY <1>2, SparedTurns, SparedEnds DEF RedoHeld
  <1>4. /\ Has(Name(s, "redo", k), r.files)' /\ Has(Name(s, "undone", k), r.undone)'
    BY <1>2 DEF RedoHeld
  <1> QED BY <1>3, <1>4 DEF RedoHeld

LEMMA SparesStep ==
    ASSUME NEW s, NEW cp, NEW rec, NEW rd, NEW ph, NEW h, Spares(s, cp, rec, rd, ph, h)
    PROVE  PlacedOf(s, cp, rec, rd, ph, h)'
  <1>1. \A n, x : Has(n, x) /\ x \notin Listed => Has(n, x)'
    BY DEF Spares
  <1>2. \A i \in 1..Len(cp) : Has(Name(s, "turn", i), cp[i])'
    BY <1>1 DEF Spares, PlacedOf, Elements
  <1>3. ASSUME NEW c \in DOMAIN rec, TurnAt(s, c)' PROVE EndHeld(s, c, rec[c])'
    <2>1. TurnAt(s, c)
      BY <1>3 DEF Spares, TurnAt
    <2>2. EndHeld(s, c, rec[c])
      BY <2>1 DEF Spares, PlacedOf
    <2>3. c \notin Listed /\ (rec[c] = None \/ rec[c] \notin Listed)
      BY DEF Spares, RecordNames
    <2> QED BY <1>1, <2>2, <2>3, SparedEnds
  <1>4. ASSUME ph \notin Yielding, NEW k \in 1..Len(rd) PROVE RedoHeld(s, k, rd[k])'
    <2>1. rd[k] \in Entry /\ InRedo(rd[k]) \cap Listed = {} /\ RedoHeld(s, k, rd[k])
      <3>1. rd \in Seq(Entry) /\ RedoNames(rd) \cap Listed = {}
        BY DEF Spares
      <3>2. InRedo(rd[k]) \subseteq RedoNames(rd)
        BY DEF RedoNames
      <3>3. RedoHeld(s, k, rd[k])
        BY <1>4 DEF Spares, PlacedOf
      <3> QED BY <3>1, <3>2, <3>3
    <2>2. PICK r : r = rd[k]
      OBVIOUS
    <2>3. RedoHeld(s, k, r)'
      BY <1>1, <2>1, <2>2, SparedRedos
    <2> QED BY <2>2, <2>3
  <1>5. ASSUME ph \in Fresh, NEW n, NEW c \in h, Has(n, c) PROVE Has(n, c)'
    <2>1. h \cap Listed = {}
      BY <1>5 DEF Spares, InHand, Fresh, Between
    <2> QED BY <1>1, <1>5, <2>1
  <1>6. /\ ph \in {"taken", "reverting"} =>
             \A c \in h : Has(Name(s, "turn", Len(cp) + 1), c)'
        /\ ph = "undoing" => \A c \in h : Has(Name(s, "redo", Len(rd) + 1), c)'
    BY <1>5 DEF Spares, PlacedOf, Fresh
  <1>7. ASSUME ph \in Between, NEW r \in h PROVE InRedo(r) \cap Listed = {}
    BY <1>7 DEF Spares, InHand
  <1>8. ASSUME ph = "undone", NEW r \in h PROVE RedoHeld(s, Len(rd) + 1, r)'
    <2>1. r \in Entry /\ RedoHeld(s, Len(rd) + 1, r)
      BY <1>8 DEF Spares, PlacedOf, HandedOf
    <2>2. ph \in Between
      BY <1>8 DEF Between
    <2>3. PICK k : k = Len(rd) + 1
      OBVIOUS
    <2>4. RedoHeld(s, k, r)'
      BY <1>1, <1>7, <2>1, <2>2, <2>3, SparedRedos
    <2> QED BY <2>3, <2>4
  <1>9. ASSUME ph \in {"redoing", "redone"}, NEW r \in h
        PROVE  TurnAt(s, r.checkpoint)' /\ EndHeld(s, r.checkpoint, r.after)'
    <2>1. r \in Popped /\ TurnAt(s, r.checkpoint) /\ EndHeld(s, r.checkpoint, r.after)
      BY <1>9 DEF Spares, PlacedOf, HandedOf
    <2>2. InRedo(r) \cap Listed = {}
      BY <1>7, <1>9 DEF Between
    <2>3. r.checkpoint # None
      BY <2>1, StorageAssumption DEF Popped
    <2>4. r.checkpoint \notin Listed /\ (r.after = None \/ r.after \notin Listed)
      BY <2>2, <2>3 DEF InRedo
    <2> QED BY <1>1, <2>1, <2>4, SparedTurns, SparedEnds
  <1> QED BY <1>2, <1>3, <1>4, <1>6, <1>8, <1>9 DEF PlacedOf

LEMMA DeleteHeld ==
    ASSUME Held, Delete
    PROVE  Held'
  <1>1. /\ refs' = Without(refs, {n \in DOMAIN refs : <<n, refs[n]>> \in clean.refs})
        /\ clean' = NoCleanup /\ clean.at = "deleting"
        /\ UNCHANGED <<made, day, alive, checkpoints, records, redo, phase, hand, lost>>
    BY DEF Delete, meta
  <1>2. clean' = [f \in Fields |-> clean'[f]] /\ clean'.at = "none" /\ Listed' = {}
    BY <1>1, CleanNone
  <1>3. /\ DOMAIN refs' \subseteq DOMAIN refs /\ \A n \in DOMAIN refs' : refs'[n] = refs[n]
        /\ \A n \in DOMAIN refs : <<n, refs[n]>> \notin clean.refs => n \in DOMAIN refs'
    <2> DEFINE G == {n \in DOMAIN refs : <<n, refs[n]>> \in clean.refs}
    <2>1. DOMAIN refs' = DOMAIN refs \ G /\ \A n \in DOMAIN refs \ G : refs'[n] = refs[n]
      BY <1>1 DEF Without
    <2> QED BY <2>1
  <1>4. \A n, c : Has(n, c) /\ c \notin Listed => Has(n, c)'
    <2> SUFFICES ASSUME NEW n, NEW c, Has(n, c), c \notin Listed PROVE Has(n, c)'
      OBVIOUS
    <2>1. n \in DOMAIN refs /\ refs[n] = c
      BY DEF Has
    <2>2. <<n, c>> \notin clean.refs
      BY DEF Listed
    <2> QED BY <2>1, <2>2, <1>3 DEF Has
  <1>o. \A n, c : Has(n, c)' => Has(n, c)
    BY <1>3 DEF Has
  <1>5. Commits' = Commits
    BY <1>1 DEF Commits
  <1>6. Shaped'
    <2>1. \A n, m : \A c : Has(n, c)' /\ Has(m, c)' => n = m
      BY <1>o DEF Held, Shaped
    <2> QED BY <1>1, <1>2, <1>3, <1>5, <2>1 DEF Held, Shaped
  <1>7. \A s : Reach(s)' = Reach(s)
    BY <1>1, ReachParts
  <1>8. \A s \in Sessions : Handed(s)' /\ Indexed(s)' /\ OfToday(s)'
    <2> SUFFICES ASSUME NEW s \in Sessions PROVE Handed(s)' /\ Indexed(s)' /\ OfToday(s)'
      OBVIOUS
    <2>1. Handed(s)'
      BY <1>1 DEF Held, Handed, HandedOf
    <2>2. Indexed(s)'
      BY <1>1, <1>5, <1>7 DEF Held, Indexed
    <2>3. OfToday(s)'
      BY <1>1, <1>2 DEF Held, OfToday
    <2> QED BY <2>1, <2>2, <2>3
  <1>9. ASSUME NEW s \in alive' \ lost' PROVE Placed(s)'
    <2>1. PICK cp, rec, rd, ph, h : Is(s, cp, rec, rd, ph, h)
      BY DEF Is
    <2>2. Is(s, cp, rec, rd, ph, h)'
      BY <1>1, <2>1 DEF Is
    <2>3. PlacedOf(s, cp, rec, rd, ph, h) /\ Reach(s) \cap Listed = {} /\ s \in Sessions
      BY <1>1, <2>1 DEF Held, Placed, Is, Spared, Shaped
    <2>4. Elements(cp) \cup RecordNames(rec) \cup RedoNames(rd) \cup InHand(ph, h) = Reach(s)
      BY <2>1, ReachParts DEF Is
    <2>5. cp \in Seq(Nat) /\ rd \in Seq(Entry) /\ HandedOf(cp, rd, ph, h)
      BY <2>1, <2>3 DEF Held, Shaped, Handed, Is
    <2>6. Spares(s, cp, rec, rd, ph, h)
      BY <1>4, <1>o, <2>3, <2>4, <2>5 DEF Spares
    <2>7. PlacedOf(s, cp, rec, rd, ph, h)'
      BY <2>6, SparesStep
    <2> QED BY <2>2, <2>7, PlacedNow
  <1>10. Spared'
    BY <1>2 DEF Spared
  <1> QED BY <1>6, <1>8, <1>9, <1>10 DEF Held

-----------------------------------------------------------------------------
LEMMA HeldAtFirst == Init => Held
  <1> SUFFICES ASSUME Init PROVE Held
    OBVIOUS
  <1>0. 0 \in 0..MaxDays /\ CheckpointCap \in Nat /\ RedoCap \in Nat
    BY StorageAssumption
  <1>1. /\ made = <<>> /\ day = 0 /\ alive = Sessions /\ refs = <<>> /\ clean = NoCleanup
        /\ \A s \in Sessions : /\ checkpoints[s] = <<>> /\ redo[s] = <<>> /\ records[s] = <<>>
                               /\ phase[s] = "idle" /\ hand[s] = {}
    BY DEF Init
  <1>2. clean = [f \in Fields |-> clean[f]] /\ Listed = {} /\ clean.at = "none"
    BY <1>1 DEF NoCleanup, Fields, Listed
  <1>3. DOMAIN refs = {}
    BY <1>1
  <1>4. /\ made \in Seq(0..MaxDays) /\ checkpoints \in [Sessions -> Seq(Nat)]
        /\ redo \in [Sessions -> Seq(Entry)] /\ phase \in [Sessions -> Phases]
        /\ records = [s \in Sessions |-> records[s]] /\ hand = [s \in Sessions |-> hand[s]]
    BY DEF Init, Phases
  <1>5. Shaped
    <2>1. \A n, m : \A c : Has(n, c) /\ Has(m, c) => n = m
      BY <1>3 DEF Has
    <2> QED BY <1>0, <1>1, <1>2, <1>3, <1>4, <2>1 DEF Shaped
  <1>6. ASSUME NEW s \in Sessions
        PROVE  Handed(s) /\ Indexed(s) /\ OfToday(s) /\ Placed(s)
    <2>1. Len(checkpoints[s]) = 0 /\ Len(redo[s]) = 0 /\ DOMAIN records[s] = {}
      <3>1. Len(<<>>) = 0 /\ DOMAIN <<>> = {}
        OBVIOUS
      <3> QED BY ONLY <3>1, <1>1, s \in Sessions
    <2>2. Handed(s) /\ OfToday(s)
      BY <1>1 DEF Handed, HandedOf, OfToday, Fresh
    <2>3. Reach(s) = {}
      <3>1. Elements(checkpoints[s]) = {} /\ RecordNames(records[s]) = {}
        BY <2>1 DEF Elements, RecordNames
      <3> QED BY <3>1, <1>1, NoRedos, ReachParts
    <2>4. Indexed(s)
      BY <1>0, <2>1, <2>3 DEF Indexed
    <2>5. Placed(s)
      BY <1>0, <1>1, <2>1 DEF Placed, PlacedOf
    <2> QED BY <2>2, <2>4, <2>5
  <1>7. Spared
    BY <1>2 DEF Spared
  <1> QED BY <1>1, <1>5, <1>6, <1>7 DEF Held

LEMMA HeldStays == Held /\ [Next]_vars => Held'
  <1> SUFFICES ASSUME Held, [Next]_vars PROVE Held'
    OBVIOUS
  <1>1. ASSUME NEW s \in Active, Works(s) PROVE Held'
    <2>1. CASE TakeCheckpoint(s) \/ RevertTakes(s)
      BY <2>1, TakeStep
    <2>2. CASE PushTurn(s) \/ RevertPushes(s)
      BY <2>2, PushStep
    <2>3. CASE RecordTurn(s)
      BY <2>3, RecordTurnStep
    <2>4. CASE ClearRedo(s) \/ RevertFails(s) \/ UndoStops(s)
      BY <2>4, SheddingSteps
    <2>5. CASE EndTurn(s) \/ RevertRecords(s)
      BY <2>5, RecordEndStep
    <2>6. CASE UndoBegins(s) \/ UndoPassesOver(s) \/ UndoPops(s) \/ UndoPushes(s)
      BY <2>6, UndoBeginsStep, PassesOverStep, UndoPopsStep, UndoPushesStep
    <2>7. CASE RedoPops(s) \/ RedoPushes(s) \/ RedoRecords(s)
      BY <2>7, RedoPopsStep, RedoPushesStep, RedoRecordsStep
    <2> QED BY <1>1, <2>1, <2>2, <2>3, <2>4, <2>5, <2>6, <2>7 DEF Works
  <1>2. ASSUME NEW s \in Active, Crash(s) PROVE Held'
    BY <1>2, SheddingSteps
  <1>3. ASSUME NEW s \in Active, SpendRow(s) \/ Save(s) PROVE Held'
    BY <1>3, MoneySteps
  <1>4. ASSUME NEW s \in Active, DeleteSession(s) PROVE Held'
    BY <1>4, RemovingSteps, StorageAssumption
  <1>5. ASSUME NEW s \in Sessions, RemoveOne(s) PROVE Held'
    BY <1>5, RemovingSteps
  <1>6. ASSUME NEW r \in Readers \cup {"cleaner"}, ReadTotal(r) \/ WriteTotal(r) PROVE Held'
    BY <1>6, MoneySteps
  <1>7. ASSUME NEW kind \in {"unreachable", "older"}, Show(kind) PROVE Held'
    BY <1>7, ShowHeld
  <1>8. CASE Yes \/ ReadAgain \/ GiveUp
    BY <1>8, PlanSteps
  <1>9. CASE ReadRefs \/ Delete \/ NextDay
    BY <1>9, ReadRefsHeld, DeleteHeld, NextDayStep
  <1>10. CASE UNCHANGED vars
    <2>1. /\ UNCHANGED <<refs, made, day, alive, checkpoints, records, redo, phase, hand>>
          /\ UNCHANGED lost /\ UNCHANGED clean
      BY <1>10 DEF vars, meta, money
    <2>2. clean' = [f \in Fields |-> clean'[f]] /\ Listed' = Listed
      BY <2>1 DEF Held, Shaped, Listed
    <2> QED BY <2>1, <2>2, StillStep
  <1> QED BY <1>1, <1>2, <1>3, <1>4, <1>5, <1>6, <1>7, <1>8, <1>9, <1>10 DEF Next, Works

-----------------------------------------------------------------------------
HasRef(c) == \E n \in DOMAIN refs : refs[n] = c

LEMMA Referred == ASSUME NEW n, NEW c, Has(n, c) PROVE HasRef(c)
  BY DEF Has, HasRef

LEMMA EndReferred ==
    ASSUME NEW s, NEW c, NEW a, a # None, EndHeld(s, c, a)
    PROVE  HasRef(a)
  BY Referred DEF EndHeld

LEMMA RedoReferred ==
    ASSUME NEW s, NEW k, NEW r, RedoHeld(s, k, r), NEW c \in InRedo(r)
    PROVE  HasRef(c)
  <1>1. c \in {r.checkpoint, r.after, r.files, r.undone} /\ c # None
    BY DEF InRedo
  <1>2. CASE c = r.after
    BY <1>1, <1>2, EndReferred DEF RedoHeld
  <1>3. CASE c = r.checkpoint
    BY <1>3, Referred DEF RedoHeld, TurnAt
  <1>4. CASE c = r.files \/ c = r.undone
    BY <1>4, Referred DEF RedoHeld
  <1> QED BY <1>1, <1>2, <1>3, <1>4

\* The same, of what is in hand.
LEMMA HandReferred ==
    ASSUME NEW s, NEW cp, NEW rec, NEW rd, NEW ph, NEW h,
           HandedOf(cp, rd, ph, h), PlacedOf(s, cp, rec, rd, ph, h),
           NEW c \in InHand(ph, h)
    PROVE  HasRef(c)
  <1>1. CASE ph \in Between
    <2>1. PICK r \in h : c \in InRedo(r)
      BY <1>1 DEF InHand
    <2>2. CASE ph = "undone"
      <3>1. RedoHeld(s, Len(rd) + 1, r)
        BY <2>2 DEF PlacedOf
      <3> QED BY <2>1, <3>1, RedoReferred
    <2>3. CASE ph \in {"redoing", "redone"}
      <3>1. r \in Popped /\ TurnAt(s, r.checkpoint) /\ EndHeld(s, r.checkpoint, r.after)
        BY <2>3 DEF PlacedOf, HandedOf
      <3>2. c \in {r.checkpoint, r.after} /\ c # None
        BY <2>1, <3>1 DEF InRedo, Popped
      <3>3. CASE c = r.checkpoint
        BY <3>1, <3>3, Referred DEF TurnAt
      <3>4. CASE c = r.after
        BY <3>1, <3>2, <3>4, EndReferred
      <3> QED BY <3>2, <3>3, <3>4
    <2> QED BY <1>1, <2>2, <2>3 DEF Between
  <1>2. CASE ph \in Fresh
    <2>1. c \in h
      BY <1>2 DEF InHand, Fresh, Between
    <2>2. CASE ph \in {"taken", "reverting"}
      BY <2>1, <2>2, Referred DEF PlacedOf
    <2>3. CASE ph = "undoing"
      BY <2>1, <2>3, Referred DEF PlacedOf
    <2> QED BY <1>2, <2>2, <2>3 DEF Fresh
  <1>3. CASE ph \notin Fresh \cup Between
    <2>1. h = {}
      BY <1>3 DEF HandedOf
    <2> QED BY <2>1, NoRedos
  <1> QED BY <1>1, <1>2, <1>3

LEMMA HeldMeansRefs == Held => RefsHold
  <1> SUFFICES ASSUME Held, NEW s \in alive \ lost, NEW c \in Needs(s)
               PROVE  HasRef(c)
    BY DEF RefsHold, HasRef
  <1>1. PICK cp, rec, rd, ph, h : Is(s, cp, rec, rd, ph, h)
    BY DEF Is
  <1>2. cp = checkpoints[s] /\ rec = records[s] /\ rd = redo[s] /\ ph = phase[s] /\ h = hand[s]
    BY <1>1 DEF Is
  <1>3. HandedOf(cp, rd, ph, h) /\ PlacedOf(s, cp, rec, rd, ph, h)
    BY <1>2 DEF Held, Shaped, Handed, Placed
  <1>4. \/ c \in Elements(cp)
        \/ \E k \in DOMAIN rec \cap Elements(cp) : c = rec[k] /\ c # None
        \/ ph \notin Yielding /\ \E k \in 1..Len(rd) : c \in InRedo(rd[k])
        \/ c \in InHand(ph, h)
    BY <1>2 DEF Needs, GivesUpRedo, Yielding, Unsaved, InHand, Between
  <1>5. ASSUME c \in Elements(cp) PROVE HasRef(c)
    BY <1>3, <1>5, Referred DEF Elements, PlacedOf
  <1>6. ASSUME NEW k \in DOMAIN rec \cap Elements(cp), c = rec[k], c # None PROVE HasRef(c)
    <2>1. TurnAt(s, k)
      <3>1. PICK i \in 1..Len(cp) : k = cp[i]
        BY <1>6 DEF Elements
      <3>2. i \in Nat
        BY <3>1
      <3>3. Has(Name(s, "turn", i), k)
        BY <1>3, <3>1 DEF PlacedOf
      <3> QED BY <3>2, <3>3 DEF TurnAt
    <2>2. EndHeld(s, k, c)
      BY <1>3, <1>6, <2>1 DEF PlacedOf
    <2> QED BY <1>6, <2>2, EndReferred
  <1>7. ASSUME ph \notin Yielding, NEW k \in 1..Len(rd), c \in InRedo(rd[k]) PROVE HasRef(c)
    <2>1. PICK r : r = rd[k]
      OBVIOUS
    <2>2. RedoHeld(s, k, r) /\ c \in InRedo(r)
      BY <1>3, <1>7, <2>1 DEF PlacedOf
    <2> QED BY <2>2, RedoReferred
  <1>8. ASSUME c \in InHand(ph, h) PROVE HasRef(c)
    BY <1>3, <1>8, HandReferred
  <1> QED BY <1>4, <1>5, <1>6, <1>7, <1>8

\* Every commit that a live session can still put back has a ref, so git keeps
\* it (git.rs, checkpoint; agent.rs, checkpoint_before_build, undo_with,
\* redo_with and revert_recorded; storage.rs, apply), in every session but the
\* ones RefsHold leaves out: at a cap; with a checkpoint put back at another
\* place than its ref is named for, which takes no death where an undo passed
\* over others; with redos kept over a revert that failed or a turn or a revert
\* that died; or read by a cleanup between the saves of an undo or a redo.
THEOREM NeededCommitsHaveRefs == Spec => []RefsHold
  <1>1. Init => Held
    BY HeldAtFirst
  <1>2. Held /\ [Next]_vars => Held'
    BY HeldStays
  <1>3. Held => RefsHold
    BY HeldMeansRefs
  <1> QED BY <1>1, <1>2, <1>3, PTL DEF Spec

-----------------------------------------------------------------------------
(* The types.  What the indexes and refs hold is in Held; the rest is here. *)

Stages == {"none", "shown", "counting", "counted", "removing", "deleting"}
Amounts == [Sessions -> 0..MaxRows]

Planned ==
    /\ clean = [f \in Fields |-> clean[f]]
    /\ clean.at \in Stages
    /\ clean.sessions \cup clean.touched \cup clean.still \subseteq Sessions

Summed ==
    /\ rows \in Amounts /\ cache \in Amounts
    /\ copy \in [Readers \cup {"cleaner"} -> Amounts \cup {None}]

Dated ==
    /\ day \in 0..MaxDays /\ used \in [Sessions -> 0..MaxDays]
    /\ crashes \in 0..MaxCrashes
    /\ alive \subseteq Sessions /\ lost \cup late \subseteq Sessions

Rest == Planned /\ Summed /\ Dated

LEMMA TouchTyped ==
    ASSUME Planned, Dated, NEW s \in Sessions, Touch(s)
    PROVE  Planned' /\ used' \in [Sessions -> 0..MaxDays]
  <1>1. /\ used' = [used EXCEPT ![s] = day]
        /\ clean' = [clean EXCEPT !.touched = @ \cup ({s} \cap clean.sessions)]
    BY DEF Touch
  <1>2. /\ clean' = [f \in Fields |-> clean'[f]] /\ clean'.at = clean.at
        /\ clean'.sessions = clean.sessions /\ clean'.still = clean.still
        /\ clean'.touched = clean.touched \cup ({s} \cap clean.sessions)
    BY <1>1 DEF Planned, Fields
  <1>3. Planned'
    BY <1>2 DEF Planned
  <1>4. used' \in [Sessions -> 0..MaxDays]
    BY <1>1 DEF Dated
  <1> QED BY <1>3, <1>4

LEMMA SameTyped ==
    /\ Planned /\ UNCHANGED clean => Planned'
    /\ Summed /\ UNCHANGED <<rows, cache, copy>> => Summed'
    /\ Dated /\ UNCHANGED <<day, used, crashes, alive, lost, late>> => Dated'
  BY DEF Planned, Summed, Dated, Amounts

\* A plan goes on to its next stage.
LEMMA StageTyped ==
    ASSUME Planned, NEW st \in Stages, NEW still \in SUBSET Sessions, NEW now, NEW rs,
           \/ clean' = NoCleanup
           \/ clean' = [NoCleanup EXCEPT !.at = st, !.sessions = still, !.refs = rs]
           \/ clean' = [NoCleanup EXCEPT !.at = st, !.refs = rs, !.now = now, !.still = still]
           \/ clean' = [NoCleanup EXCEPT !.at = st, !.refs = rs]
           \/ clean' = [clean EXCEPT !.at = st]
           \/ clean' = [clean EXCEPT !.now = now, !.at = st]
           \/ clean' = [clean EXCEPT !.still = still]
    PROVE  Planned'
  <1>1. /\ clean' = [f \in Fields |-> clean'[f]]
        /\ clean'.at \in {"none", st, clean.at}
        /\ clean'.sessions \in {{}, still, clean.sessions}
        /\ clean'.touched \in {{}, clean.touched}
        /\ clean'.still \in {{}, still, clean.still}
    <2>0. clean = [f \in Fields |-> clean[f]]
      BY DEF Planned
    <2>1. CASE clean' = NoCleanup
      BY <2>1 DEF NoCleanup, Fields
    <2>2. CASE \/ clean' = [NoCleanup EXCEPT !.at = st, !.sessions = still, !.refs = rs]
               \/ clean' = [NoCleanup EXCEPT !.at = st, !.refs = rs]
      BY <2>2 DEF NoCleanup, Fields
    <2>3. CASE clean' = [NoCleanup EXCEPT !.at = st, !.refs = rs, !.now = now, !.still = still]
      BY <2>3 DEF NoCleanup, Fields
    <2>4. CASE \/ clean' = [clean EXCEPT !.at = st]
               \/ clean' = [clean EXCEPT !.now = now, !.at = st]
      BY <2>0, <2>4 DEF Fields
    <2>5. CASE clean' = [clean EXCEPT !.still = still]
      BY <2>0, <2>5 DEF Fields
    <2> QED BY <2>1, <2>2, <2>3, <2>4, <2>5
  <1>2. clean'.at \in Stages
    BY <1>1 DEF Planned, Stages
  <1> QED BY <1>1, <1>2 DEF Planned

\* A session's folder goes, and the stamp of its index with it.
LEMMA RemoveTyped ==
    ASSUME Dated, NEW s \in Sessions, Remove(s), UNCHANGED <<day, crashes, lost>>,
           late' = late \/ late' = late \cup {s}
    PROVE  Dated'
  <1>1. 0 \in 0..MaxDays
    BY StorageAssumption
  <1>2. used' = [used EXCEPT ![s] = 0] /\ alive' = alive \ {s}
    BY DEF Remove
  <1> QED BY <1>1, <1>2 DEF Dated

LEMMA SessionTypes ==
    ASSUME Rest, NEW s \in Active,
           Works(s) \/ Crash(s) \/ SpendRow(s) \/ Save(s) \/ DeleteSession(s)
    PROVE  Rest'
  <1>0. s \in Sessions /\ MaxCrashes \in Nat /\ MaxRows \in Nat
    BY StorageAssumption
  <1>1. CASE Works(s) \/ Save(s)
    <2>1. /\ UNCHANGED <<day, alive, crashes, rows, cache, copy, late>>
          /\ Touch(s) \/ UNCHANGED <<clean, used>>
          /\ lost' = lost \/ lost' = lost \cup {s}
      BY <1>1, WorksLeaves DEF Save, money
    <2>2. Planned' /\ used' \in [Sessions -> 0..MaxDays]
      <3>1. CASE Touch(s)
        BY <1>0, <3>1, TouchTyped DEF Rest
      <3>2. CASE UNCHANGED <<clean, used>>
        BY <3>2, SameTyped DEF Rest, Dated
      <3> QED BY <2>1, <3>1, <3>2
    <2>3. Summed'
      BY <2>1, SameTyped DEF Rest
    <2>4. Dated'
      BY <1>0, <2>1, <2>2 DEF Rest, Dated
    <2> QED BY <2>2, <2>3, <2>4 DEF Rest
  <1>2. CASE Crash(s)
    <2>1. /\ UNCHANGED <<day, used, alive, late, rows, cache, copy, clean>>
          /\ crashes < MaxCrashes /\ crashes' = crashes + 1
          /\ lost' = lost \/ lost' = lost \cup {s}
      BY <1>2 DEF Crash, money
    <2>2. crashes' \in 0..MaxCrashes
      BY <1>0, <2>1 DEF Rest, Dated
    <2>3. Dated'
      BY <1>0, <2>1, <2>2 DEF Rest, Dated
    <2> QED BY <2>1, <2>3, SameTyped DEF Rest
  <1>3. CASE SpendRow(s)
    <2>1. /\ UNCHANGED <<day, used, alive, crashes, lost, cache, copy, clean>>
          /\ rows[s] < MaxRows /\ rows' = [rows EXCEPT ![s] = @ + 1]
          /\ late' = late \/ late' = late \cup {s}
      BY <1>3 DEF SpendRow
    <2>2. Dated'
      BY <1>0, <2>1 DEF Rest, Dated
    <2>3. rows[s] \in 0..MaxRows
      BY <1>0 DEF Rest, Summed, Amounts
    <2>4. rows[s] + 1 \in 0..MaxRows
      BY <1>0, <2>1, <2>3
    <2>5. Summed'
      BY <1>0, <2>1, <2>4 DEF Rest, Summed, Amounts
    <2> QED BY <2>1, <2>2, <2>5, SameTyped DEF Rest
  <1>4. CASE DeleteSession(s)
    <2>1. /\ UNCHANGED <<day, crashes, lost, rows, cache, copy, clean>>
          /\ Remove(s) /\ late' = late \cup {s}
      BY <1>4 DEF DeleteSession
    <2>2. Dated'
      BY <1>0, <2>1, RemoveTyped DEF Rest
    <2> QED BY <2>1, <2>2, SameTyped DEF Rest
  <1> QED BY <1>1, <1>2, <1>3, <1>4

LEMMA TotalTypes ==
    ASSUME Rest, NEW r \in Readers \cup {"cleaner"}, ReadTotal(r) \/ WriteTotal(r)
    PROVE  Rest'
  <1>1. CASE ReadTotal(r)
    <2>1. /\ UNCHANGED <<day, used, alive, crashes, lost, late, rows, cache, clean>>
          /\ copy' = [copy EXCEPT ![r] = cache]
      BY <1>1 DEF ReadTotal
    <2>2. Summed'
      BY <2>1 DEF Rest, Summed, Amounts
    <2> QED BY <2>1, <2>2, SameTyped DEF Rest
  <1>2. CASE WriteTotal(r)
    <2>1. /\ UNCHANGED <<day, used, alive, crashes, lost, late, rows>>
          /\ copy[r] # None /\ copy' = [copy EXCEPT ![r] = None]
          /\ cache' = [s \in Sessions |-> IF s \in alive THEN rows[s] ELSE copy[r][s]]
          /\ clean' = [clean EXCEPT !.at = "counted"] \/ clean' = clean
      BY <1>2 DEF WriteTotal
    <2>2. copy[r] \in Amounts /\ rows \in Amounts
      BY <2>1 DEF Rest, Summed
    <2>3. cache' \in Amounts
      BY <2>1, <2>2 DEF Amounts
    <2>4. Summed'
      BY <2>1, <2>3 DEF Rest, Summed, Amounts
    <2>5. Planned'
      BY <2>1, SameTyped, StageTyped DEF Rest, Stages
    <2> QED BY <2>1, <2>4, <2>5, SameTyped DEF Rest
  <1> QED BY <1>1, <1>2

LEMMA CleanupTypes ==
    ASSUME Rest, NEW s \in Sessions, NEW kind \in {"unreachable", "older"},
           \/ RemoveOne(s) \/ Show(kind)
           \/ Yes \/ ReadAgain \/ ReadRefs \/ Delete \/ GiveUp
    PROVE  Rest'
  <1>0. /\ alive \subseteq Sessions /\ Planned
        /\ clean.still \subseteq Sessions /\ clean.sessions \subseteq Sessions
    BY DEF Rest, Dated, Planned
  <1>1. CASE RemoveOne(s)
    <2>1. /\ UNCHANGED <<day, crashes, lost, late, rows, cache, copy>>
          /\ Remove(s) /\ clean' = [clean EXCEPT !.still = clean.still \ {s}]
      BY <1>1 DEF RemoveOne, money
    <2>2. Planned'
      BY <1>0, <2>1, StageTyped DEF Stages
    <2>3. Dated'
      BY <2>1, RemoveTyped DEF Rest
    <2> QED BY <2>1, <2>2, <2>3, SameTyped DEF Rest
  <1>2. CASE Show(kind)
    <2>1. PICK gone, rs : /\ gone \subseteq alive
                          /\ clean' = [NoCleanup EXCEPT !.at = "shown", !.sessions = gone,
                                                        !.refs = rs]
      BY <1>2 DEF Show
    <2>2. UNCHANGED <<day, used, alive, crashes, lost, late, rows, cache, copy>>
      BY <1>2 DEF Show, money
    <2>3. Planned'
      BY <1>0, <2>1, StageTyped DEF Stages
    <2> QED BY <2>2, <2>3, SameTyped DEF Rest
  <1>3. CASE Yes \/ ReadAgain \/ Delete
    <2>1. UNCHANGED <<day, used, alive, crashes, lost, late, rows, cache, copy>>
      BY <1>3 DEF Yes, ReadAgain, Delete, money
    <2>2. CASE Yes
      <3>1. PICK st \in Stages : clean' = [clean EXCEPT !.now = day, !.at = st]
        BY <2>2 DEF Yes, Stages
      <3>2. {} \in SUBSET Sessions
        OBVIOUS
      <3>3. Planned'
        BY <1>0, <3>1, <3>2, StageTyped
      <3> QED BY <3>3, <2>1, SameTyped DEF Rest
    <2>3. CASE ReadAgain
      <3>1. PICK still \in SUBSET Sessions :
              clean' = [NoCleanup EXCEPT !.at = "removing", !.refs = clean.refs,
                                         !.now = clean.now, !.still = still]
        BY <1>0, <2>3 DEF ReadAgain
      <3>2. "removing" \in Stages
        BY DEF Stages
      <3>3. Planned'
        BY <1>0, <3>1, <3>2, StageTyped
      <3> QED BY <3>3, <2>1, SameTyped DEF Rest
    <2>4. CASE Delete
      <3>1. clean' = NoCleanup
        BY <2>4 DEF Delete
      <3>2. Planned'
        BY <3>1 DEF Planned, NoCleanup, Fields, Stages
      <3> QED BY <3>2, <2>1, SameTyped DEF Rest
    <2> QED BY <1>3, <2>2, <2>3, <2>4
  <1>4. CASE ReadRefs
    <2>1. PICK rs : \/ clean' = NoCleanup
                    \/ clean' = [NoCleanup EXCEPT !.at = "deleting", !.refs = rs]
      BY <1>4 DEF ReadRefs
    <2>2. /\ UNCHANGED <<day, used, alive, crashes, late, rows, cache, copy>>
          /\ lost' \subseteq lost \cup alive
      BY <1>4 DEF ReadRefs, money
    <2>3. Planned'
      BY <1>0, <2>1, StageTyped DEF Stages
    <2>4. Dated'
      BY <2>2 DEF Rest, Dated
    <2> QED BY <2>2, <2>3, <2>4, SameTyped DEF Rest
  <1>5. CASE GiveUp
    <2>1. /\ UNCHANGED <<day, used, alive, crashes, lost, late, rows, cache>>
          /\ clean' = NoCleanup /\ copy' = [copy EXCEPT !["cleaner"] = None]
      BY <1>5 DEF GiveUp
    <2>2. Planned'
      BY <1>0, <2>1, StageTyped DEF Stages
    <2>3. Summed'
      BY <2>1 DEF Rest, Summed, Amounts
    <2> QED BY <2>1, <2>2, <2>3, SameTyped DEF Rest
  <1> QED BY <1>1, <1>2, <1>3, <1>4, <1>5

LEMMA RestAtFirst == Init => Rest
  <1> SUFFICES ASSUME Init PROVE Rest
    OBVIOUS
  <1>1. 0 \in 0..MaxDays /\ 0 \in 0..MaxRows /\ 0 \in 0..MaxCrashes
    BY StorageAssumption
  <1>2. Planned
    <2>1. clean = NoCleanup
      BY DEF Init
    <2> QED BY <2>1 DEF Planned, NoCleanup, Fields, Stages
  <1>3. Summed
    BY <1>1 DEF Init, Summed, Amounts
  <1>4. Dated
    BY <1>1 DEF Init, Dated
  <1> QED BY <1>2, <1>3, <1>4 DEF Rest

LEMMA RestStays == Rest /\ [Next]_vars => Rest'
  <1> SUFFICES ASSUME Rest, [Next]_vars PROVE Rest'
    OBVIOUS
  <1>1. CASE \E s \in Active :
               \/ Works(s) \/ Crash(s) \/ SpendRow(s) \/ Save(s) \/ DeleteSession(s)
    BY <1>1, SessionTypes
  <1>2. CASE \E r \in Readers \cup {"cleaner"} : ReadTotal(r) \/ WriteTotal(r)
    BY <1>2, TotalTypes
  <1>3. CASE \/ \E s \in Sessions : RemoveOne(s)
             \/ \E kind \in {"unreachable", "older"} : Show(kind)
             \/ Yes \/ ReadAgain \/ ReadRefs \/ Delete \/ GiveUp
    BY <1>3, CleanupTypes, StorageAssumption
  <1>4. CASE NextDay
    <2>1. /\ UNCHANGED <<used, alive, crashes, lost, late, rows, cache, copy, clean>>
          /\ day < MaxDays /\ day' = day + 1
      BY <1>4 DEF NextDay, money
    <2>2. day' \in 0..MaxDays
      BY <2>1, StorageAssumption DEF Rest, Dated
    <2>3. Dated'
      BY <2>1, <2>2 DEF Rest, Dated
    <2> QED BY <2>1, <2>3, SameTyped DEF Rest
  <1>5. CASE UNCHANGED vars
    <2>1. UNCHANGED <<day, used, alive, crashes, lost, late, rows, cache, copy, clean>>
      BY <1>5 DEF vars, money
    <2> QED BY <2>1, SameTyped DEF Rest
  <1> QED BY <1>1, <1>2, <1>3, <1>4, <1>5 DEF Next, Works

LEMMA SeqOfElements ==
    ASSUME NEW S, NEW T, NEW q \in Seq(S), Elements(q) \subseteq T
    PROVE  q \in Seq(T)
  <1>1. q = [i \in 1..Len(q) |-> q[i]] /\ Len(q) \in Nat
    OBVIOUS
  <1>2. \A i \in 1..Len(q) : q[i] \in T
    BY DEF Elements
  <1>3. q \in [1..Len(q) -> T]
    BY <1>1, <1>2
  <1> QED BY <1>1, <1>3

LEMMA TypesFollow == Held /\ Rest => TypeOK
  <1> SUFFICES ASSUME Held, Rest PROVE TypeOK
    OBVIOUS
  <1>1. ASSUME NEW s \in Sessions
        PROVE  /\ checkpoints[s] \in Seq(Commits) /\ Len(checkpoints[s]) <= CheckpointCap
               /\ Len(redo[s]) <= RedoCap
               /\ Named(s) \subseteq Commits
               /\ phase[s] \in Phases
    <2>1. /\ checkpoints[s] \in Seq(Nat) /\ phase[s] \in Phases /\ Indexed(s)
      BY DEF Held, Shaped
    <2>2. Named(s) \subseteq Commits
      BY <2>1 DEF Indexed, Reach
    <2>3. Elements(checkpoints[s]) \subseteq Commits
      BY <2>2, ReachParts
    <2> QED BY <2>1, <2>2, <2>3, SeqOfElements DEF Indexed
  <1>2. /\ DOMAIN refs \subseteq Names /\ \A n \in DOMAIN refs : refs[n] \in Commits
        /\ made \in Seq(0..MaxDays) /\ day \in 0..MaxDays /\ alive \subseteq Sessions
    BY DEF Held, Shaped
  <1>3. /\ used \in [Sessions -> 0..MaxDays] /\ crashes \in 0..MaxCrashes
        /\ lost \cup late \subseteq Sessions
    BY DEF Rest, Dated
  <1>4. /\ rows \in [Sessions -> 0..MaxRows] /\ cache \in [Sessions -> 0..MaxRows]
        /\ copy \in [Readers \cup {"cleaner"} -> [Sessions -> 0..MaxRows] \cup {None}]
    BY DEF Rest, Summed, Amounts
  <1>5. /\ clean.at \in {"none", "shown", "counting", "counted", "removing", "deleting"}
        /\ clean.sessions \cup clean.touched \cup clean.still \subseteq Sessions
    BY DEF Rest, Planned, Stages
  <1>6. clean.sessions \cup clean.touched \cup clean.still \cup lost \cup late \subseteq Sessions
    BY <1>3, <1>5
  <1> QED BY <1>1, <1>2, <1>3, <1>4, <1>5, <1>6 DEF TypeOK

\* Every variable keeps its type, and no index names a commit that was never
\* made or grows past its cap.
THEOREM TypesHold == Spec => []TypeOK
  <1>1. Init => Held /\ Rest
    BY HeldAtFirst, RestAtFirst
  <1>2. Held /\ Rest /\ [Next]_vars => (Held /\ Rest)'
    BY HeldStays, RestStays
  <1>3. Held /\ Rest => TypeOK
    BY TypesFollow
  <1> QED BY <1>1, <1>2, <1>3, PTL DEF Spec
=============================================================================
