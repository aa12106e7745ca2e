# Ryter, specified

Ryter is a coding agent for a terminal: the user writes a message, a model
answers with text and tool calls, the calls change files, and this repeats until
the model says it is done. These modules specify the parts of Ryter that keep
state over time and that several actors work on: undoing what a turn did, the
files of a session, the rounds of a turn, cancelling, cleaning up what is kept,
asking before a tool runs, the product a project runs, and the model lists of
its connections. They are checked by TLC on small instances, and theorems about
each of the eight, for instances of any size, are proved with TLAPS.

Everything is read from the code under `src/crates`. Where a document says what
the code does not do, a run shows it (*Findings*).

## The system

| Component | Where | State | Operations | Correct when |
|---|---|---|---|---|
| Checkpoints, undo, redo | core `agent.rs`, `session.rs`, `git.rs`, `review.rs` | the stack of checkpoints, each turn's record, the undos that can be redone, all in `meta.json`; the working files; the snapshots git holds | a turn takes a checkpoint before its first change and records its end; `/undo`, `/redo`, forced or not; a file or hunk reverted; an audit rolled back | an undo moves what the turn changed and nothing else; a redo reverses it; the user's edits survive or are named |
| Session store | core `session.rs` | `transcript.jsonl`, `spend.jsonl`, `meta.json`, a lock; in memory the transcript, what was seen of the file, and the totals | open with recovery, push, rewrite (compaction, repair), record what a call cost | no message is lost, totals cover the ledger, a gap is owned up to |
| The turn | core `agent.rs` | the transcript's open calls, rounds, replies cut off, repeats, the last check, the bill | a request, its stream, a reply, its calls, the check after edits, "done" | a provider always gets a whole transcript; the budget holds; done is checked; Esc ends it |
| Cancellation, prompts over MCP | core `cancel.rs`, `tools/shell.rs`, `mcp/server.rs`; tui `run/mod.rs`, `run/worker.rs` | a flag, process groups, a ticket for each prompt, who has the host | Esc, `ryter_prompt`, `ryter_cancel`, a client that goes away, the worker's start and finish, a command's start and end | a cancel reaches what it is for, and only that |
| Audits | core `audit.rs`, `hooks.rs` | what the audit started and changed | run, stop, roll back | the project is as it was |
| Spend | core `spend.rs`, `prices.rs` | prices, totals | price a call, admit a request | a call is priced once, an unknown price is said |
| Storage | core `storage.rs`, `git.rs`, `project.rs` | refs and the commits they hold; each session's index of what it can put back; a project's running total | report, plan, apply; the turns, undos and redos that go on meanwhile; the total read and written | nothing a session can still put back goes, and what was spent stays counted |
| Questions and permissions | core `tools/mod.rs`, `user_io.rs`; tui cards | the mode, the kinds allowed for the session, requests on their way to the screen, the card that is up, each card's answer | decide, ask, wait with or without a limit, press a key, stop, time out | what runs was allowed, a no is the user's, and no wait keeps the turn |
| The product | core `run.rs`, `agent.rs` | the run file, what of it was approved, the note of what runs, what each Ryter has in hand, process groups | propose, approve, start, wait until it is ready, clean up, stop, remember, forget | nothing runs that was not approved; what runs can be stopped; no number from a note, of another session or another Ryter, ends a process |
| The worker's connections and lists | tui `run/worker.rs`, `run/actions.rs`, `panel/models.rs` | the connections on both threads, the agent's, fetches out, lists kept, notes, the picker | list all, list one, connections changed, the session moved, an answer that comes | a list is of the endpoint it is shown for; a picker that loads stops |
| Compaction | core `compact.rs` | none of its own | choose, summarise, rewrite | a call keeps its answer |

The rest (what the policy reads in a command, sandbox, providers, the MCP client
and the listener, configuration, maps and memory, review and commit, updates, the
screen, the command line, the benchmark) is in PROJECT.json, each with the
reason it is left out: pure functions of text, single calls with nothing between
two of them, or rules the kernel keeps.

**How they interact.** One worker thread takes work off a queue and owns the
agent and its session. The screen's thread sends it work and hears back in
events; MCP connections have a thread each, and another for each prompt. What
they share with the worker while it runs is one `Cancel`, the tickets and a
channel for questions. The agent works on the session, git and the project's
files; the user's editor works on the same files, and other Ryters may have the
same session open, clean up the same project, or start the same product. A
fetched list comes back on a channel the worker reads between two pieces of work.

**What is hard.** A cancel from three kinds of thread against a worker that
resets the flag as it starts; a group killed before or after it is registered;
files edited between a turn and its undo; a crash between any two writes, in the
middle of an append or of the recovery from one; two processes that each rewrite
a file from memory; a turn with a dozen ways to end, each of which has to leave
a transcript a provider accepts; a cleanup that deletes by what it read a while
ago; cards that outlive the wait they were put up for; a start that fails and
cannot be cleaned up, in a session that ends; an answer that comes for a
connection that is another one by now. PROJECT.json lists these hazards at their lines
with the properties that catch them.

## The modules

| Module | Models | Lines |
|---|---|---|
| `TurnUndo` | checkpoints, records, undo and redo | one action per operation of `agent.rs` 2755–2800 and 3400–3790, and the events around them |
| `TurnHistory` | what undo and redo promise, with no snapshots, commits or records | abstract |
| `SessionStore` | a session's files, with any number of Ryters | one action per stretch under the lock |
| `TurnLoop` | one message run to its end | one action per wait, branch or early return of `turn_inner` |
| `Inbound` | who cancels what | one action per stretch under a mutex, on each thread |
| `Storage` | refs, indexes, the cleanup and the running total | one action per save, and per step of `plan` and `apply` |
| `ToolGate` | how a call comes to run | one action per branch of `gated_execute`, wait, key and frame |
| `Product` | the run file, starts, stops and the note | one action per stretch between two points where a Ryter may die |
| `ModelLists` | connections, and the lists fetched for them | one action per piece of work, answer, event and act of the user |
| `MC_TurnUndo`, `MC_SessionStore`, `MC_Product`, `MC_ModelLists` | symmetry sets, the run files, the endpoints to begin with | |
| `TurnUndo_proofs`, `SessionStore_proofs`, `TurnLoop_proofs`, `Inbound_proofs`, `Storage_proofs`, `ToolGate_proofs`, `Product_proofs`, `ModelLists_proofs` | theorems | |

**TurnUndo.** `work` is the project's files; a snapshot is the function of the
tracked ones, so two snapshots of the same files are the same tree, as in git. A
checkpoint is a commit: a tree and the second it was made in.
`checkpoints`, `turn_records`, `redo` and `turn_checkpoint` are the fields of
`Meta` of those names. `CheckpointBeforeBuild` is the checkpoint before the first
call that may change a file, with its push, its trim to the cap and the record it
resets; `WriteUnkept` is a call that takes no checkpoint and writes all the same
(a decision recorded, a run file saved, a command passed as one that only reads). `UndoDone` and `RedoDone` are the whole of `undo_with` and `redo_with`:
turns the files show nothing of are passed over, the clash with what was edited
since is computed, files and gitignored files are put back, and the lists are
saved. `past` and `future` are history: what each turn really did, which the
properties are said of, so that a wrong record cannot vouch for itself. The
refinement mapping at its end reads a history of turns, `TurnHistory`, from
checkpoints and records. A turn counts from its checkpoint: what it wrote before
is a change between two turns, as the records have it.

**SessionStore.** A row of the transcript is the set of the messages it stands
for; a compaction's row stands for all it replaced. The hash kept of the file
is modelled as the file. Opening is four steps, since a process may die after
each: mark `meta.json` incomplete, cut the transcript's torn row, cut the
ledger's, count. `meta.json` is written whole from memory and without the lock,
as the code does.

**TurnLoop.** `at` is the place in `turn_inner`. Of the transcript only what a
provider would refuse is kept: how many calls of the newest reply have no answer,
and whether an older reply was left with one. `bill` is what `Meta` holds of
spending, `paid` is history of what requests really cost. A hat stands for the
model it runs on.

**Inbound.** A turn is opaque. `Cancel::cancel` is two steps, the flag and then
the groups; `InboundTurn::cancel` holds the ticket's mutex across both, and takes
the host's first, so `Held` and `Locked` are guards. `register_pgid` is two steps
too, the group in the set and the second look at the flag.

**Storage.** A commit is its number in the order commits were made, and `refs`
maps a name (session, use, number) to one, so a name that is used twice moves as
it does in git. `checkpoints`, `records` and `redo` are the index of each
session; `phase` and `hand` are what its Ryter is in the middle of and has not
saved. Each save that changes what an index names is a step: of a turn's start
`TakeCheckpoint`, `PushTurn`, `RecordTurn` and `ClearRedo`; of a revert
`RevertTakes`, `RevertPushes` and then `RevertRecords` and `ClearRedo`, or
`RevertFails`; of an undo `UndoBegins`, as many `UndoPassesOver` as there are
checkpoints the files already match, `UndoPops` and `UndoPushes`, or `UndoStops`;
of a redo `RedoPops`, `RedoPushes` and `RedoRecords`. Which files differ is not
kept, so an undo may pass over any checkpoint. The cleanup is `Show` (the preview), `Yes`, the total brought up to date
(`ReadTotal`, `WriteTotal`), `ReadAgain`, `RemoveOne` for each session,
`ReadRefs` and `Delete`; its Ryter may end between any two (`GiveUp`). `lost` and
`late` are history: the sessions the properties leave out, which are named there.

**ToolGate.** A call is what the policy decided of it and what `a` would allow.
A request goes through `queue` to the screen, which puts it up as `card` when no
other is; `slot` is the reply channel the screen keeps for each kind of card;
`answer` is what is in the channel of the request that is waited on. A card is not taken
down when its wait ends, so a key may be pressed on one nobody waits for.
`pressed`, `granted` and `last` are history, and the properties are said of them.

**Product.** A start has a number, which is its process group's too; `runs` says
for each what is left of it: the command, its group, something outside the group,
nothing, or another process that has the number by now. A number is free once
nothing of its start is left, unless a Ryter has a command of that number it has
not reaped (`Unreaped`), which is all the system gives: a start under way may have
reaped its own, and a group's number is free when the group is empty. What is
simplified is the other way: a number is taken only once all of its start is gone. `file`, `approved` and
`note` are shared with no lock; `at`, `text`, `product` and `started` are each
Ryter's. A proposal and the user's yes or no to its card are one step, a start
is several (shown, approved, spawned, coming up, remembered), and so is a stop.
`NextSession` is a Ryter that ends, at any step, and the next one that begins.

**ModelLists.** `conns` is the screen's, `cfg` the worker's; `work` is the queue
and `events` the way back. A list stands for the endpoint that gave it, so
`cache[n]` says whose list is kept under a name. `fetching` holds for each name
the number of the fetch that is current, the code's generation; `out` are the
threads and `answers` their channel, which the worker reads after each piece of
work (`after`). `settled` and `loading` are the picker's. `held` is
`session_hold`: it is never true, as the code takes the session out of it whether
or not there is a key (*Findings*).

## Runs

| Run | Question | Bounds |
|---|---|---|
| `undo` | Do undo and redo do what they promise, in any order with turns, reverts, audits, crashes and edits? | 2 tracked files, 1 ignored, 2 turns, 1 edit, 1 other event (a revert, an audit, a crash or a write without a checkpoint), both caps 2 |
| `undo_history` | Does `TurnUndo` implement `TurnHistory`? | the same with two contents, no ignored file |
| `undo_cut_short` | (finding) | |
| `store_shared` | Do two Ryters lose or miscount anything? | 3 messages, 3 ledger rows, 1 append torn by a crash, 1 by a full disk |
| `turn` | Does every way through a turn leave a whole transcript, keep the budget, check what is done and end at Esc? | 2 turns, 3 rounds, 2 calls a reply, 2 hats, 1 crash or error |
| `inbound` | Does each cancel reach what it is for and spare the rest? | 2 clients, 2 prompts, 1 message or draft, 1 command, 1 cancel over MCP besides Esc and the clients that go away |
| `storage` | Does a cleanup spare what a session can put back, and keep what a removed one cost in the total? | 2 sessions, one of them at work, caps of 3 checkpoints and 2 redos, 7 commits, 4 of them while a cleanup is under way, 2 days, 1 ledger row, 1 crash |
| `storage_capped` | (finding) | |
| `gate` | Is what runs allowed, is a no the user's, and does every wait end? | 2 kinds of action, 2 requests, 2 sessions, a wait of 1 tick |
| `product` | Is what runs approved and known, a failed cleanup made good first, and does a number from a note end nothing? | 2 Ryters, 2 starts, 2 run files, 1 stop command |
| `lists` | Are lists kept for the endpoint they are of, and does the picker stop loading? | 2 connections, one of which can go and come back, 2 endpoints, 3 acts of the user |
| `first_key` | (finding) | |

*Why these bounds.* Caps are constants: with a cap of 2 and more checkpoints
than that, the oldest falls off while an undo of it is still kept, which is what
the code's 50 and 20 do. Two contents are needed to tell a file put back from one
left alone only where both snapshots differ; `undo` has one content and a
missing file, `undo_history` two. Two Ryters and three messages allow a compaction
made before another's push; three ledger rows allow one behind a torn one. In
`turn`, one reply may cost 2 of a budget of 3, so a budget is both kept and
overrun, and `MaxCutoffs` and `RepeatStop` are below `MaxRounds`, so each stop
is reached. In `inbound` two clients contend for the host while a cancel of the
first is still held, and one command is enough for a cancel to fall on any side
of its registration. `MaxLag` bounds the events the screen is behind by; the
worker never waits for it in the code, and with 1 the screen's view is stale
across one whole event.

In `storage`, seven commits let a session take two checkpoints (a failed revert's
among them), undo one, pass over the other, redo, and go on to a turn that takes a
ref that is still needed; with an eighth it takes no failure. Four (`MaxDuring`)
are enough for a cleanup to meet each step of a turn, a revert, an undo or a redo,
since a session that has one checkpoint and has undone it can still do all of
them. One ledger row is one the total may miss; two days tell a
session that may be removed from one that may not, and commits too new to go from
the rest. `storage_capped` has turns only. Only one session works: the
other is the one `/storage` is used in, or is old and goes. `Readers = {}`: no
other Ryter brings the total up to date at the time; the file has no lock, and
with one `RemovedStaysCounted` fails (*Disagreements*). In `gate` two requests
are a card left behind by a wait and one that needs it gone; two sessions are
what was allowed in the one before. In `product`, two starts let a note say
another start than the one in hand, and the two run files differ in whether
there is an address and a stop command. In `lists`, three acts are the fewest
with a list asked for, its connection removed, and added again with another
endpoint before the old answer is read; that the new one's own fetch is out
too takes a fourth, and is covered by the theorem, not by the run. One
connection can be removed, as the session's never can be.

*Deadlock* is checked except in `store_shared` (a ledger damaged in the middle
cannot be opened), `inbound` (once everyone is gone and the queue is empty,
nothing is left to do), `storage` (the days, commits and rows run out) and `lists`
(with the acts used and every list in, all rest), with their findings.

*Assumptions named in the configurations.* `Seconds = {1}`: the clock moves
between two checkpoints. With 0, two checkpoints of the same files are the same
commit and share a record, and `RecordsSayWhatHappened` fails; this is listed as
a hazard. Process ids are not used again in `Inbound`; in `Product` they are, as
far as the system lets them be. In `ModelLists` the names asked for at once
share one generation (they share no slot, so this tells the same fetches apart);
the provider the agent falls back on where its connection is not configured
(worker.rs:841) is left out, since `AgentStaysConnected` says it always is; and
so are lists that another Ryter keeps in the same files.

*Symmetry* is over contents and tracked paths (`MC_TurnUndo`) and over Ryters
(`MC_SessionStore`, `MC_Product`): no definition names one of them. No run with a
liveness property uses it.

## Fairness

Five properties need it.

- `CancelEndsTheTurn` (`TurnLoop`): weak fairness of the agent's own steps and of
  those with which it notices Esc. The agent runs on its own thread; every wait on
  a provider is a `select!` biased to the cancel, a command's wait and a question's
  wait poll the flag every 100 ms. Nothing is assumed of the provider, a command
  or the user.
- `DisconnectFreesTheHost` (`Inbound`): weak fairness for each connection's thread
  and each prompt's thread. A mutex is waited for behind finitely many others, and
  cancels over MCP are bounded. Nothing is assumed of the agent: the turn may hang.
- `StopEndsTheTurn` and `SilenceEnds` (`ToolGate`): weak fairness of the turn's own
  steps (its thread polls every 100 ms while it waits), of the clock, and of the
  screen that draws its next card. The user owes no answer, and a card that is
  left up may stay for good.
- `PickerSettles` (`ModelLists`): weak fairness of the worker (other work it is
  given ends, or is stopped, which `CancelEndsTheTurn` is about), of the fetch
  threads (each name has 300 s, worker.rs:212), and of the screen reading its
  events. The user owes nothing, and nothing has to be slow.

## What is proved

| Theorem | Says | Argument |
|---|---|---|
| `TurnUndo_proofs!TypeCorrect` | checkpoints, records and undos are well formed and keep to their caps | `Typed`: the state in five parts, each kept by each action; lemmas for what a trim, a record and an undo return |
| `TurnUndo_proofs!RecordsAreTrue` | `RecordsSayWhatHappened` | `Faithful`, below |
| `TurnUndo_proofs!UndoIsExact` | `UndoPutsBackTheTurn` | `Faithful`: the files an undo moves are those its record and the turn differ in |
| `TurnUndo_proofs!ForcedUndoIsContained` | `ForcedUndoKeepsOtherFiles` | the same |
| `TurnUndo_proofs!UndoReachesIgnored` | `UndoPutsBackIgnored` | `Faithful`: a record's ignored files are those its turn wrote, with what they held before |
| `TurnUndo_proofs!RedoIsTheReverse` | `RedoReversesTheUndo` | `Faithful`: each undo knows the files around it |
| `TurnUndo_proofs!NothingRefusedFalsely` | `NoFalseRefusal` | `Calm`: while only turns with their checkpoint and reverts write, each turn ends where the next begins, the newest where the files are, and the undos likewise |
| `TurnUndo_proofs!HistoryIsImplemented` | `ImplementsTurnHistory` | `Faithful` and `Complete`, one step of the history for each action, below |
| `SessionStore_proofs!TypeCorrect` | types, and the lock is held exactly by the one that opens | `TypeOK` is inductive |
| `SessionStore_proofs!MemoryIsWhatWasSeen` | `SeenIsInMemory`: what a Ryter takes for seen is in its memory | `TypeOK`, `SeenIsInMemory`, and `OpenersHoldTheFile`: a Ryter that opens has the file's complete rows in memory |
| `SessionStore_proofs!NoMessageIsLost` | `NothingLost` | with those: a rewrite keeps what its maker had in memory, and the rows appended since, because `seen` is a prefix of the file |
| `SessionStore_proofs!OpeningCounts` | `OpenCountsTheLedger` | `OpenersCounted`: from the count under the lock to the end of the opening, the totals have every complete row, since nobody else can append |
| `SessionStore_proofs!TornRowsAreOwned` | `AloneStaysIncomplete` | `Alone`: only one Ryter has the session, its ledger reads up to a torn tail, and meta.json or the tail itself says so, in every step of the opening |
| `TurnLoop_proofs!TypeCorrect` | types, caps | `Counters`: a request that is out has a round to itself, so cut-off replies are never more than rounds; `Money`, `Flags` |
| `TurnLoop_proofs!ProvidersGetAnswers` | `RequestsAreAnswered` | `Paired`: while calls run, those without an answer are those left to run; everywhere else, and after every end but an error's, none is without one |
| `TurnLoop_proofs!TurnsClose` | `TurnsCloseTheirCalls` | a part of `Paired` |
| `TurnLoop_proofs!DoneMeansChecked` | `DoneIsChecked` | `Unchecked`: an edit no check has looked at is of the round that is on, in the build hat, on its way to the check |
| `TurnLoop_proofs!OverrunHasABound` | `OverrunIsBounded` | `Accounted`: what was paid and could be seen is on the bill, but for one reply of each model without a price; a request is out only below the budget and for a model not yet found to have none |
| `Inbound_proofs!TypeCorrect` | types; a group is registered only while its command is there | `Typed`: work, command and parties; a command that was started has a pid |
| `Inbound_proofs!CancelsStayTheirs` | `CancelSparesOthers` | `CancelInv`, below |
| `Inbound_proofs!CancelledPromptsStop` | `CancelledPromptStops` | `CancelInv` |
| `Inbound_proofs!CancelsReachCommands` | `CancelReachesTheCommand` | `CommandInv`: a registered command is in the groups, between turns there is none; `KillersStay`: a thread leaves the groups only by killing them |
| `Inbound_proofs!DisconnectsStayTheirs` | `DisconnectCancelsItsOwn` | `OwnerInv`: the connection whose prompt is out owns the host, whose ticket is its own |
| `Storage_proofs!TypesHold` | types; an index names only commits that were made, and keeps to its caps | `Held` with the cleanup's plan, the amounts and the days |
| `Storage_proofs!NeededCommitsHaveRefs` | `RefsHold` | `Held`, below |
| `Storage_proofs!RemovedAreCounted` | `RemovedStaysCounted`, where no other process writes the total | `CountedIsTrue`: from the moment the cleanup has counted, the total has every row of a session it lists that was not used since; `CopyIsTrue`: what is read of the total and not yet written back agrees with it on removed sessions |
| `ToolGate_proofs!Types` | types | each action keeps the parts it touches |
| `ToolGate_proofs!WhatRunsWasAllowed` | `NothingRunsUnasked` | `InOrder`: requests reach the screen in order and a card's channel is its own; `AnswerIsPressed`: what the wait reads was pressed on its card; `AllowedWasAsked`: each kind allowed has its card; `HooksAreFor`: the hooks run for a call that may run |
| `ToolGate_proofs!ANoIsTheUsers` | `DeniedMeansNo` | with those, `LastIsJust` |
| `Product_proofs!TypeCorrect` | types; a run file is in hand exactly while it is shown or about to start | each action keeps them |
| `Product_proofs!OnlyApprovedRuns` | `NothingRunsUnapproved` | what is approved, kept in the note or in hand was said yes to |
| `Product_proofs!RunningStaysKnown` | `RunningIsKnown` | `Known`: what runs is the note's, or of a start that is not through |
| `Product_proofs!FailedCleanupIsHeld` | `FailedCleanupHolds` | `Known`: a start whose cleanup failed, and not lost sight of, is the note's and pending |
| `Product_proofs!NotesEndNobody` | `NotesEndNobodyElse` | `AllHoldOwn`: a number a Ryter has in hand as a command or a group, and so may signal, is of a start it made in this session, and the newest of them |
| `ModelLists_proofs!TypeCorrect` | types; no note stands against a connection that is gone | the state in three parts |
| `ModelLists_proofs!ListsStayTheirs` | `ListsAreTheirs` | `FetchesAreTheirs` and `Ahead`, below |
| `ModelLists_proofs!AgentStaysConnected` | the agent's connection is one the worker has | `Ahead` |

`Faithful` ties the records to `past` and `future`. Each checkpoint's tree is the
files its turn found and, but for the turn that is open, its record's end is the
files its turn left (`Told`); each undo has the files around it (`Reverses`); a
turn that is open is the newest checkpoint's, its record is open and nothing is
left to redo (`Running`). None of this stays without `Apart`: no two checkpoints,
kept or undone, are one commit, since `set_turn_record` finds a record by it. And
that stays because no commit is newer than the clock and a new one is
(`NoneNewer`, `ClockMoves`).

`HistoryIsImplemented` adds that every turn ran to its end (`Complete`), which
stays so where nothing is cut short. Then `Mapped` holds: the history's lists are
what is on record, the open turn's end apart. An action that changes no list is
`Edit`, a turn that took no checkpoint ending among them, since then every end
was on record already; each other action is the history's of the same purpose.
The lemmas between are about lists grown by one and cut at the front, which is
what `IsTailOf` allows and the caps do.

`Held` says where each commit's ref is (`Placed`), of each session that is not in
`lost`: the `i`th checkpoint is at its place `i`; a checkpoint of the session that
has a ref at any place (`TurnAt`) has the end of its turn under its own name, or
under that same place where a revert ended it (`EndHeld`); and the `k`th undo has
its two snapshots at its own place and its checkpoint at some place of a turn
(`RedoHeld`), unless a new turn or revert has taken that place and is on its way
to forget the undos. Which place is not said: an undo that passes over
checkpoints leaves the undos' places with no relation to the list's. It is
enough, since the redo that puts a checkpoint back is seen to put it where its
ref is or else puts the session in `lost`. No two refs hold one commit (`Shaped`),
so a ref that moves takes nothing else along; a snapshot that is in hand and in
no index is of today, which no cleanup lists (`OfToday`); and what the cleanup is
about to delete nobody can put back (`Spared`): the refs and the indexes are read
again once the sessions are gone, and what a session comes to name later is a new
commit or one it named already. The proof is by what a step makes of one
session's index and hand (`Lawful`, and `Saves` where no ref moves); that no
other session is disturbed is proved once (`OthersKeep`).

`CancelInv` is three facts that need each other: a ticket runs only while its
prompt is the worker's (`TicketsRun`); a thread holds only a running ticket,
and has the flag up once it is at the groups (`HoldersHoldRunning`); a running
ticket that was cancelled is still held or has the flag up
(`CancelledSeesFlag`). The worker cannot finish a ticket that is held, so between
two turns nobody holds any (`NothingRuns`), and the reset that begins a turn
wipes no cancel of a ticket.

`Ahead` says how the worker's queue leads from what the worker has to what the
screen has: there is a sequence of configurations, and of the session's
connections, from the one to the other, in which each name changes only by way
of being removed and the session's connection is always configured. It is why
connections that reach the worker late, and in the middle of its fetches, never
turn a name into another endpoint in one step; with it, a fetch that a slot still
holds was asked of the endpoint configured now (`FetchesAreTheirs`).

The proofs use the modules' ASSUMEs: names are distinct, caps and bounds are
natural numbers (caps positive), the sets of paths are disjoint, `None` is no tree
and no number. They hold for any number of Ryters, clients, prompts, messages,
commands, files, sessions, requests, commits and connections. Three assumptions
are the theorems' own:

- `ClockMoves`, of every theorem about `TurnUndo` but its types: 0 is not among
  `Seconds`, so two checkpoints are at least a second apart. git dates a commit to
  the second (git.rs:110), and two of the same files in one second are one commit
  with one record.
- `NothingFails`, of `HistoryIsImplemented`: no process dies in a turn and no
  revert fails once its checkpoint is pushed. Where one does, the end of the turn
  is nowhere on record and the undo takes the files of the moment for it: the
  code does not implement the history then (finding `undo_cut_short`).
- `Readers = {}`, of `RemovedAreCounted`: one process at a time writes the
  project's total (*Disagreements*, project.rs:129). No property covers two.

What a property leaves out is in its comment, and is where the code does not keep
it. `NoFalseRefusal` leaves out writes without a checkpoint; `OverrunIsBounded`
a request that was paid for and never seen to open; `RunningIsKnown` and
`FailedCleanupHolds` leave out starts that may have been lost sight of (a death
before the note, a note that could not be written, one another Ryter wrote over
or removed); `NotesEndNobodyElse` the session that made the start; `RefsHold` the
sessions in `lost`, whose refs the code may really let go. Each is among the
disagreements below or a hazard of PROJECT.json with a note.

*Only model-checked:* the five liveness properties (liveness under fairness is
out of the prover's reach). Every other property of a passing run is a theorem.
Only by inspection: that the modules are the code; the line-by-line map is in
PROJECT.json.

## Findings

| Run | The code | The document |
|---|---|---|
| `undo_cut_short` | a turn that died, or a revert that failed, has no recorded end, and the undo takes the files as they are now for it, the user's edits included | "puts back what the last build turn changed, and only that" |
| `storage_capped` | past fifty checkpoints each takes the ref of the one before, which git may then prune while `/undo` counts on it | "keeps the last 50"; "a commit object kept under `refs/ryter/undo/`" |
| `first_key` | a Ryter started without a key drops its session, so no agent is built when a key is given, and every turn goes on answering "no API key" | "pick a connection, press `k`, paste the key" |

**Disagreements.** These were met while modelling, shown by a run each, and are
part of the models still; their runs are not kept, to leave the checks to what
should hold.

| The code | The document |
|---|---|
| agent.rs:3433: a turn that starts from the checkpoint already kept resets its record, and what was saved of a gitignored file is gone | guide.md:472, they "are saved before it writes them, so `/undo` puts them back too" |
| session.rs:911: after an append that failed half way, the next puts a newline behind the torn row, and the ledger does not open again | guide.md:802, "resume keeps the valid history" |
| agent.rs:932: at the third cut-off reply the chat says "stopped", but calls in that reply run and the turn goes on | v0.2.2.md:14, "After three cut-offs in a row the turn stops and says why" |
| agent.rs:799: Esc before a stream opens leaves a request no row accounts for, and the session is not marked incomplete | guide.md:544, "If the final accounting is missing, the session is marked incomplete" |
| worker.rs:428: Esc for a message the worker has not taken yet is wiped by the reset | guide.md:210 and 620, Esc "stops the in-flight turn" |
| worker.rs:673: the flag of a cancelled turn is still up when a commit message is drafted | guide.md:491, "The model drafts it"; cancel.rs:29, reset is to be called when a turn starts |
| project.rs:129: the total is read, and written later without a lock; another Ryter's write between drops a removed session's cost | guide.md:846, it "keeps what a removed session cost" |
| user_io.rs:466: a key pressed just before the limit, and not yet read, is dropped, and the model is told that nobody answered | guide.md:191, "If nobody answers for five minutes" |
| agent.rs:4112: what `a` allowed is not among what a new or resumed session forgets | guide.md:186 and tools/mod.rs:146, "for the rest of the session" |
| agent.rs:3173: where an earlier session's product had no stop command, the one since written in the run file is not looked at | guide.md:305, a corrected `stop` "is the one the retry uses" |
| agent.rs:3575: an undo pops a checkpoint the files already match and keeps no redo of it. With two checkpoints, undo, an undo that passes over the first, and a redo leave the second alone in the list, and the next turn takes that ref (agent.rs:3410) from it while it is kept. No crash is needed; a death between pop_redo (3716) and push_checkpoint leads to the same | session.rs:657, "keeps the last 50"; git.rs:92, "a commit object kept under `refs/ryter/undo/`" |
| agent.rs:3765: a revert that fails has pushed its checkpoint, whose ref may be the one an undo that can still be redone counts on | the same |
| agent.rs:3369: a call that only records a decision (decisions.rs:20) or saves a run file (run.rs:22) takes no checkpoint, and writes a file snapshots hold. An `/undo` of an earlier turn that wrote the file too is then refused | agent.rs:3607, "you changed {} since that turn, and undoing it would lose your edits": the user changed nothing |
| run.rs:787 and failed_start: the group of a start whose command was reaped is signalled by its number, with no more than a look at whether the number is in use; if the group is empty and the number given again, another process ends | run.rs:339, "it is the group this process started" |
| worker.rs:899: one piece of work is taken between two reads of the answers, so one that comes after the connections were sent and before they are taken is used for the connection that was removed | the comment there: connections "sent before a result arrived" are "applied first" |

## Not modelled

The map stays a small share of the code. Most of what is left is text: what the
policy reads in a command line (`tools/policy.rs`, 17 thousand lines), prompts,
configuration, verbs and their parts, drawing, providers' formats. Those are
functions of one input with nothing between two steps, and what they decide is an
input of the models.

- *TurnUndo*: that a snapshot and the restore that follows it are two steps (an
  editor may write between them); how git makes a tree. Ignored files a snapshot
  never holds are modelled.
- *SessionStore*: `events.jsonl`, titles, the list of sessions, file modes, older
  formats, the removal of a session.
- *TurnLoop*: what messages say; compaction between rounds (a rewrite of
  `SessionStore`); several models' prices at once (`Prices` is a set of costs).
  `DoneIsChecked` is of turns that keep their hat.
- *Inbound*: tokens, framing, the tools that only read; what runs inside a turn.
- *Storage*: recovery copies, sizes, pages, the audits' refs, sessions whose index
  cannot be read, the index's turn_checkpoint, the end given later to a turn that
  has none, what the files hold, and the git that collects.
- *ToolGate*: what `decide` reads in a call; the cards of hats, rules and audits, the
  password panel. A question's limit ends as a closed card's does, so the two are
  one in `last`.
- *Product*: a compose stack that is up already (a start that is refused), the run
  file's tests and checks, a stop command's own time limit, an approval given by
  flag. Nothing in Ryter removes the run file.
- *ModelLists*: what is in a list; a hat's own connection; the settings, servers and
  reviews that share the queue, which only make the worker late.

## Plan

Done: `TurnUndo` with `TurnHistory`, `SessionStore`, `TurnLoop`, `Inbound`,
`Storage` with its refs and the running total, `ToolGate`, `Product`,
`ModelLists`, and the theorems above. Left, in this order:

1. `undo_with` in two steps, the restore apart from what was decided, so that the
   user's editor may write between them.
2. `AuditRollback`: an audit's stages, the product it starts and the roll back,
   composed with `TurnUndo`'s redo of it.
3. `CompactPairs`: which messages a compaction keeps, as functions over sequences
   against a definition of a whole transcript.

Theorems to add: the same of `undo_with` in two steps (an undo loses an edit only
where it falls between them), and that what a cleanup deletes is all that is
neither needed nor of today. Every invariant and every action property that is
checked now is proved.
