---------------------------- MODULE SessionStore ----------------------------
(***************************************************************************)
(* The files of one session and the Ryters that have it open: the          *)
(* transcript, which each Ryter also holds in memory, the ledger of what   *)
(* model calls cost, and meta.json, which every Ryter writes whole from    *)
(* its own memory.  Reading and writing the two logs is done under one     *)
(* directory lock; meta.json is written without one.  A process may die at *)
(* any step, in the middle of an append and of a recovery included.        *)
(*                                                                         *)
(* A row of the transcript is the set of the messages it stands for: a     *)
(* message is {n}, and the row that a compaction puts in the place of      *)
(* older ones holds all of theirs.  The hash a Ryter keeps of the file is  *)
(* modelled as the file itself.                                            *)
(***************************************************************************)
EXTENDS Integers, SequencesExt

CONSTANTS
    Ryters,       \* processes that may open the session
    None,         \* nobody holds the lock
    MaxRows,      \* bound: messages written
    MaxCalls,     \* bound: rows written to the ledger
    MaxTears,     \* bound: appends cut short by the end of the process
    MaxFullDisks  \* bound: appends cut short by an error the process survives

ASSUME StoreAssumption ==
    /\ None \notin Ryters
    /\ {MaxRows, MaxCalls, MaxTears, MaxFullDisks} \subseteq Nat

VARIABLES
    transcript,   \* transcript.jsonl: its complete rows, and whether a torn one follows
    ledger,       \* spend.jsonl: its rows, torn ones included
    disk,         \* meta.json, as far as spending goes
    lock,         \* who holds .jsonl.lock between two steps
    pc,           \* per Ryter: "off", "marking", "opening", "ready", "counting"
    memory,       \* per Ryter: Session::transcript
    seen,         \* per Ryter: Session::seen
    meta,         \* per Ryter: Session::meta
    written,      \* history: messages written so far
    tears,        \* history: appends cut short so far
    full,         \* history: of them, those the process survived
    lost,         \* history: a ledger row was torn
    shared        \* history: two Ryters had the session open at once

ryter == <<pc, memory, seen, meta>>
counters == <<written, tears, full, lost, shared>>
vars == <<transcript, ledger, disk, lock, pc, memory, seen, meta, written, tears, full, lost,
          shared>>

-----------------------------------------------------------------------------
\* What a call's ledger row may say of its cost: a price, no price, or the
\* least it can have cost.  "torn" is a row cut short.
Costs == {"priced", "unpriced", "partial"}
Meta == [total : Nat, unknown : BOOLEAN, incomplete : BOOLEAN]
NewMeta == [total |-> 0, unknown |-> FALSE, incomplete |-> FALSE]
NoFile == [rows |-> <<>>, torn |-> FALSE]
Messages(rows) == UNION ToSet(rows)

TornTail(log) == log # <<>> /\ Last(log) = "torn"
Complete(log) == IF TornTail(log) THEN Front(log) ELSE log
\* Only the last row of a log may be torn; any other stops the reader.
Readable(log) == "torn" \notin ToSet(Complete(log))
LedgerTotal(log) == Cardinality({i \in DOMAIN log : log[i] \in {"priced", "partial"}})

\* One row counted into the totals.
Count(m, cost) ==
    [total      |-> m.total + (IF cost = "unpriced" THEN 0 ELSE 1),
     unknown    |-> m.unknown \/ cost # "priced",
     incomplete |-> m.incomplete \/ cost = "partial"]

\* (The operators named ...Wrong are bugs this code could have had, for the
\* checks to find; nothing uses them.)
ReconcileWrong(m, log) == m

\* meta.json against the ledger, which is ahead of it after a crash.
Reconcile(m, log) ==
    LET sum == LedgerTotal(log)
        over == m.total > sum
    IN [total      |-> IF over THEN m.total ELSE sum,
        unknown    |-> m.unknown \/ over \/ \E i \in DOMAIN log : log[i] # "priced",
        incomplete |-> m.incomplete \/ over \/ \E i \in DOMAIN log : log[i] = "partial"]

\* What meta.json says before a torn tail is cut off.
MarkedWrong(m, torn) == m
Marked(m, torn) == IF torn THEN [m EXCEPT !.unknown = TRUE, !.incomplete = TRUE] ELSE m

Forgotten(r) ==
    /\ memory' = [memory EXCEPT ![r] = <<>>]
    /\ seen' = [seen EXCEPT ![r] = NoFile]
    /\ meta' = [meta EXCEPT ![r] = NewMeta]

-----------------------------------------------------------------------------
(* Opening a session.  Both logs are inspected before anything is changed, *)
(* and where a torn tail is to be cut off, meta.json says so first.        *)

\* Everything is read under the lock, which is held until the session is open.
Open(r) ==
    /\ pc[r] = "off" /\ lock = None
    /\ Readable(ledger)
    /\ lock' = r
    /\ memory' = [memory EXCEPT ![r] = transcript.rows]
    /\ meta' = [meta EXCEPT ![r] = Marked(Reconcile(disk, Complete(ledger)),
                                        transcript.torn \/ TornTail(ledger))]
    /\ pc' = [pc EXCEPT ![r] = IF meta'[r] = disk THEN "opening" ELSE "marking"]
    /\ shared' = (shared \/ \E q \in Ryters \ {r} : pc[q] # "off")
    /\ UNCHANGED <<transcript, ledger, disk, seen, written, tears, full, lost>>

\* meta.json is written only where it did not say all this already.
MarkMeta(r) ==
    /\ pc[r] = "marking"
    /\ disk' = meta[r]
    /\ pc' = [pc EXCEPT ![r] = "opening"]
    /\ UNCHANGED <<transcript, ledger, lock, memory, seen, meta, counters>>

\* The transcript is cut first, then the ledger; each by a rename.
RecoverTranscript(r) ==
    /\ pc[r] = "opening" /\ transcript.torn
    /\ transcript' = [transcript EXCEPT !.torn = FALSE]
    /\ UNCHANGED <<ledger, disk, lock, ryter, counters>>

RecoverLedger(r) ==
    /\ pc[r] = "opening" /\ ~transcript.torn /\ TornTail(ledger)
    /\ ledger' = Front(ledger)
    /\ UNCHANGED <<transcript, disk, lock, ryter, counters>>

\* ... the lock given back before the recovery is over.
FinishOpenUnlocked(r) ==
    /\ pc[r] = "opening" /\ lock = r
    /\ lock' = None
    /\ UNCHANGED <<transcript, ledger, disk, pc, memory, seen, meta, counters>>

FinishOpen(r) ==
    /\ pc[r] = "opening" /\ ~transcript.torn /\ ~TornTail(ledger)
    /\ seen' = [seen EXCEPT ![r] = transcript]
    /\ lock' = None
    /\ pc' = [pc EXCEPT ![r] = "ready"]
    /\ UNCHANGED <<transcript, ledger, disk, memory, meta, counters>>

-----------------------------------------------------------------------------
(* The transcript.                                                         *)

\* Where the file is not as this Ryter last saw it, memory follows it first:
\* its own rows still in front or not, memory is then the file.  A file that
\* ends in a torn row cannot be read, and nothing is appended to it.
PushMessage(r) ==
    /\ pc[r] = "ready" /\ lock = None
    /\ transcript = seen[r] \/ ~transcript.torn
    /\ written < MaxRows
    /\ written' = written + 1
    /\ transcript' = [transcript EXCEPT !.rows = Append(@, {written'})]
    /\ memory' = [memory EXCEPT ![r] =
                     Append(IF transcript = seen[r] THEN @ ELSE transcript.rows, {written'})]
    /\ seen' = [seen EXCEPT ![r] = transcript']
    /\ disk' = meta[r]
    /\ UNCHANGED <<ledger, lock, pc, meta, tears, full, lost, shared>>

\* The append stops half way.  Either the process died there, or the error (a
\* full disk) is reported and it goes on, with a file it can no longer read.
TearMessage(r) ==
    /\ pc[r] = "ready" /\ lock = None
    /\ ~transcript.torn
    /\ transcript' = [transcript EXCEPT !.torn = TRUE]
    /\ \/ /\ tears < MaxTears /\ tears' = tears + 1
          /\ pc' = [pc EXCEPT ![r] = "off"]
          /\ Forgotten(r)
          /\ UNCHANGED full
       \/ /\ full < MaxFullDisks /\ full' = full + 1
          /\ memory' = [memory EXCEPT ![r] = IF transcript = seen[r] THEN @ ELSE transcript.rows]
          /\ seen' = [seen EXCEPT ![r] = transcript]
          /\ UNCHANGED <<pc, meta, tears>>
    /\ UNCHANGED <<ledger, disk, lock, written, lost, shared>>

\* What a Ryter may want in the transcript's place, made from its memory: the
\* first `k` rows in one (compaction), or a row put in after them (an answer
\* to a call that has none).
Compacted(rows, k, n) ==
    <<Messages(SubSeq(rows, 1, k)) \cup {n}>> \o SubSeq(rows, k + 1, Len(rows))
Repaired(rows, k, n) == SubSeq(rows, 1, k) \o <<{n}>> \o SubSeq(rows, k + 1, Len(rows))

OwnInFront(r) == Len(memory[r]) <= Len(transcript.rows)
                   /\ SubSeq(transcript.rows, 1, Len(memory[r])) = memory[r]
Behind(r) == SubSeq(transcript.rows, Len(memory[r]) + 1, Len(transcript.rows))

\* ... rows behind the Ryter's own not looked for.
ReplaceTranscriptWrong(r) ==
    /\ pc[r] = "ready" /\ lock = None
    /\ ~transcript.torn
    /\ written < MaxRows /\ memory[r] # <<>>
    /\ written' = written + 1
    /\ \E k \in 1..Len(memory[r]) :
         transcript' = [transcript EXCEPT !.rows = Compacted(memory[r], k, written')]
    /\ memory' = [memory EXCEPT ![r] = transcript'.rows]
    /\ seen' = [seen EXCEPT ![r] = transcript']
    /\ disk' = meta[r]
    /\ UNCHANGED <<ledger, lock, pc, meta, tears, full, lost, shared>>

\* The transcript rewritten; rows another Ryter appended since are kept
\* behind what replaces this one's.
ReplaceTranscript(r) ==
    /\ pc[r] = "ready" /\ lock = None
    /\ ~transcript.torn
    /\ transcript = seen[r] \/ OwnInFront(r)
    /\ written < MaxRows /\ memory[r] # <<>>
    /\ written' = written + 1
    /\ \E k \in 1..Len(memory[r]) :
         \E mine \in {Compacted(memory[r], k, written'), Repaired(memory[r], k, written')} :
           transcript' = [transcript EXCEPT !.rows =
                             mine \o (IF transcript = seen[r] THEN <<>> ELSE Behind(r))]
    /\ memory' = [memory EXCEPT ![r] = transcript'.rows]
    /\ seen' = [seen EXCEPT ![r] = transcript']
    /\ disk' = meta[r]
    /\ UNCHANGED <<ledger, lock, pc, meta, tears, full, lost, shared>>

\* Rewritten elsewhere: the file is left alone and memory follows it.
ReplaceRefused(r) ==
    /\ pc[r] = "ready" /\ lock = None
    /\ transcript # seen[r] /\ ~transcript.torn /\ ~OwnInFront(r)
    /\ memory' = [memory EXCEPT ![r] = transcript.rows]
    /\ seen' = [seen EXCEPT ![r] = transcript]
    /\ UNCHANGED <<transcript, ledger, disk, lock, pc, meta, counters>>

-----------------------------------------------------------------------------
(* The ledger.  A call's row is appended first and counted after; the      *)
(* append does not look at the row it follows.                             *)

RecordSpend(r) ==
    /\ pc[r] = "ready" /\ lock = None
    /\ Len(ledger) < MaxCalls
    /\ \E cost \in Costs :
         /\ ledger' = Append(ledger, cost)
         /\ meta' = [meta EXCEPT ![r] = Count(@, cost)]
    /\ pc' = [pc EXCEPT ![r] = "counting"]
    /\ UNCHANGED <<transcript, disk, lock, memory, seen, counters>>

CountSpend(r) ==
    /\ pc[r] = "counting"
    /\ disk' = meta[r]
    /\ pc' = [pc EXCEPT ![r] = "ready"]
    /\ UNCHANGED <<transcript, ledger, lock, memory, seen, meta, counters>>

\* The process dies in the middle of the append.
TearSpend(r) ==
    /\ pc[r] = "ready" /\ lock = None
    /\ Len(ledger) < MaxCalls
    /\ tears < MaxTears /\ tears' = tears + 1
    /\ ledger' = Append(ledger, "torn")
    /\ lost' = TRUE
    /\ pc' = [pc EXCEPT ![r] = "off"]
    /\ Forgotten(r)
    /\ UNCHANGED <<transcript, disk, lock, written, full, shared>>

\* The append fails half way (a full disk) and the process goes on.
SpendFails(r) ==
    /\ pc[r] = "ready" /\ lock = None
    /\ Len(ledger) < MaxCalls
    /\ full < MaxFullDisks /\ full' = full + 1
    /\ ledger' = Append(ledger, "torn")
    /\ lost' = TRUE
    /\ UNCHANGED <<transcript, disk, lock, ryter, written, tears, shared>>

\* Any other change of the session's index writes meta.json from memory.
Touch(r) ==
    /\ pc[r] = "ready"
    /\ disk' = meta[r]
    /\ UNCHANGED <<transcript, ledger, lock, ryter, counters>>

\* The session is closed, or the process dies; a lock it held is free.
Close(r) ==
    /\ pc[r] # "off"
    /\ pc' = [pc EXCEPT ![r] = "off"]
    /\ lock' = IF lock = r THEN None ELSE lock
    /\ Forgotten(r)
    /\ UNCHANGED <<transcript, ledger, disk, counters>>

-----------------------------------------------------------------------------
Init ==
    /\ transcript = NoFile
    /\ ledger = <<>>
    /\ disk = NewMeta
    /\ lock = None
    /\ pc = [r \in Ryters |-> "off"]
    /\ memory = [r \in Ryters |-> <<>>]
    /\ seen = [r \in Ryters |-> NoFile]
    /\ meta = [r \in Ryters |-> NewMeta]
    /\ written = 0 /\ tears = 0 /\ full = 0 /\ lost = FALSE /\ shared = FALSE

Next == \E r \in Ryters :
    \/ Open(r) \/ MarkMeta(r) \/ RecoverTranscript(r) \/ RecoverLedger(r) \/ FinishOpen(r)
    \/ PushMessage(r) \/ TearMessage(r) \/ ReplaceTranscript(r) \/ ReplaceRefused(r)
    \/ RecordSpend(r) \/ CountSpend(r) \/ TearSpend(r) \/ SpendFails(r)
    \/ Touch(r) \/ Close(r)

Spec == Init /\ [][Next]_vars

-----------------------------------------------------------------------------
\* The types of the state; the lock is held only by a Ryter that is opening.
TypeOK ==
    /\ transcript \in [rows : Seq(SUBSET (1..MaxRows)), torn : BOOLEAN]
    /\ ledger \in Seq(Costs \cup {"torn"})
    /\ disk \in Meta
    /\ lock \in Ryters \cup {None}
    /\ pc \in [Ryters -> {"off", "marking", "opening", "ready", "counting"}]
    /\ memory \in [Ryters -> Seq(SUBSET (1..MaxRows))]
    /\ seen \in [Ryters -> [rows : Seq(SUBSET (1..MaxRows)), torn : BOOLEAN]]
    /\ meta \in [Ryters -> Meta]
    /\ written \in 0..MaxRows
    /\ tears \in Nat /\ full \in Nat /\ lost \in BOOLEAN /\ shared \in BOOLEAN
    /\ \A r \in Ryters : lock = r <=> pc[r] \in {"marking", "opening"}

\* DECISIONS.md, "Nothing another Ryter wrote is dropped on either path":
\* every message a push or a rewrite completed is in the transcript, itself
\* or in the row of a compaction that was made from a memory holding it.
NothingLost == 1..written \subseteq Messages(transcript.rows)

\* A Ryter that takes the file for the one it knows holds that file in
\* memory, row for row: what `seen` says is what a rewrite relies on.
SeenIsInMemory ==
    \A r \in Ryters : pc[r] \in {"ready", "counting"} =>
        /\ ~seen[r].torn
        /\ seen[r].rows = memory[r]

\* A session that opens has everything the ledger says in its totals, and
\* owns up to a row without a price, whatever a crash or another Ryter left
\* in meta.json.
OpenCountsTheLedger ==
    [][\A r \in Ryters : pc[r] = "opening" /\ pc'[r] = "ready" =>
          /\ meta'[r].total >= LedgerTotal(ledger')
          /\ (\E i \in DOMAIN ledger' : ledger'[i] # "priced") => meta'[r].unknown]_vars

Incomplete == /\ disk.incomplete \/ TornTail(ledger)
              /\ \A r \in Ryters : pc[r] \in {"ready", "counting"} => meta[r].incomplete

\* Of a session only one Ryter at a time ever had open: once a ledger row was
\* cut short by a crash, the session owns up to it whenever it is open, and
\* meta.json does unless the torn row is still there to be found.  The
\* ledger can always be read up to a torn final row.
AloneStaysIncomplete == lost /\ ~shared /\ full = 0 => Incomplete /\ Readable(ledger)
=============================================================================
