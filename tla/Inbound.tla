------------------------------ MODULE Inbound ------------------------------
(***************************************************************************)
(* Who may cancel what.  One worker thread takes work off a queue: the     *)
(* user's messages, prompts sent over MCP, commit messages to draft.  All  *)
(* of them share one Cancel, a flag and the process groups to kill, and    *)
(* three kinds of thread call it while the worker runs: the screen's (Esc) *)
(* and each MCP connection's, when its client cancels or is gone.          *)
(*                                                                         *)
(* Cancel::cancel is several steps here, with the locks the code holds     *)
(* around them.  A turn is opaque (TurnLoop has its inside): it runs       *)
(* commands, and ends by itself, or because the flag is set.               *)
(***************************************************************************)
EXTENDS Integers, Sequences

CONSTANTS
    Sessions,     \* MCP connections
    Screen,       \* the thread that draws and reads keys
    None,
    MaxPrompts,   \* bound: prompts sent over MCP
    MaxWork,      \* bound: messages and drafts of the user's
    MaxCommands,  \* bound: commands started
    MaxCancels,   \* bound: ryter_cancel called
    MaxLag        \* bound: events the screen has not seen yet

ASSUME InboundAssumption ==
    /\ Screen \notin Sessions /\ None \notin Sessions \cup {Screen}
    /\ {MaxPrompts, MaxWork, MaxCommands, MaxCancels, MaxLag} \subseteq Nat

VARIABLES
    queue,       \* Work sent and not yet taken
    worker,      \* what the worker is at
    item,        \* the work it took last
    flag,        \* Cancel::flag
    groups,      \* Cancel::groups
    command,     \* the turn's command
    spawned,     \* commands started
    tickets,     \* InboundTurn of each prompt, and what came of it
    inbound,     \* TuiAttach::inbound: the newest ticket
    owner,       \* PROMPT_OWNERS: the connection whose prompt the host has
    connected,
    prompt,      \* each connection's prompt thread
    mine,        \* ... and the ticket it sent
    canceller,   \* how far each thread is with a cancel
    busy, cancelling,  \* View's
    events,      \* TurnStarted and TurnFinished on their way to the screen
    asked,       \* messages and drafts sent
    cancelCalls  \* cancels called over MCP

screenVars == <<busy, cancelling, events, asked, cancelCalls>>
sessionVars == <<inbound, owner, connected, prompt, mine>>
flagVars == <<flag, groups, command, spawned>>
workerVars == <<queue, worker, item>>
vars == <<screenVars, sessionVars, flagVars, workerVars, tickets, canceller>>

-----------------------------------------------------------------------------
Threads == Sessions \cup {Screen}
Tickets == 0..MaxPrompts      \* 0: the ticket the host begins with
Items == [kind : {"turn", "draft"}, ticket : Tickets]

Message == [kind |-> "turn", ticket |-> 0]
Prompt(t) == [kind |-> "turn", ticket |-> t]
Draft == [kind |-> "draft", ticket |-> 0]

NoCommand == [pid |-> 0, step |-> "none", alive |-> FALSE]
Free == [step |-> "no", holds |-> 0, then |-> FALSE]

\* The ticket's mutex is held by a thread that cancels its turn; so is the
\* host's, from which it took the ticket.
Held(t) == \E c \in Threads : canceller[c].holds = t
Locked == \E c \in Threads : canceller[c].holds # 0

-----------------------------------------------------------------------------
(* The screen.                                                             *)

Submit ==
    /\ canceller[Screen] = Free
    /\ ~busy /\ asked < MaxWork
    /\ busy' = TRUE /\ cancelling' = FALSE
    /\ queue' = Append(queue, Message)
    /\ asked' = asked + 1
    /\ UNCHANGED <<events, cancelCalls, sessionVars, flagVars, worker, item, tickets, canceller>>

DraftCommit ==
    /\ canceller[Screen] = Free
    /\ asked < MaxWork
    /\ queue' = Append(queue, Draft)
    /\ asked' = asked + 1
    /\ UNCHANGED <<busy, cancelling, events, cancelCalls, sessionVars, flagVars, worker, item,
                   tickets, canceller>>

Esc ==
    /\ canceller[Screen] = Free
    /\ busy /\ ~cancelling
    /\ cancelling' = TRUE
    /\ canceller' = [canceller EXCEPT ![Screen].step = "flag"]
    /\ UNCHANGED <<busy, events, asked, cancelCalls, sessionVars, flagVars, workerVars, tickets>>

SeeEvent ==
    /\ canceller[Screen] = Free
    /\ events # <<>>
    /\ busy' = (Head(events) = "started")
    /\ cancelling' = FALSE
    /\ events' = Tail(events)
    /\ UNCHANGED <<asked, cancelCalls, sessionVars, flagVars, workerVars, tickets, canceller>>

-----------------------------------------------------------------------------
(* An MCP connection.                                                      *)

\* (The operators named ...Wrong are bugs this code could have had, for the
\* checks to find; nothing uses them.)
HostFreeWrong == TRUE

\* PromptPermit::acquire.
HostFree == owner = None

\* ryter_prompt.  The host is reserved and the ticket made before the next
\* line of the connection is read.  A prompt with the host taken is refused.
SendPrompt(s) ==
    /\ connected[s] /\ canceller[s] = Free
    /\ prompt[s] = "none" /\ HostFree /\ ~Locked
    /\ inbound < MaxPrompts
    /\ owner' = s
    /\ inbound' = inbound + 1
    /\ tickets' = [tickets EXCEPT ![inbound + 1].of = s]
    /\ prompt' = [prompt EXCEPT ![s] = "spawned"]
    /\ UNCHANGED <<connected, mine, screenVars, flagVars, workerVars, canceller>>

QueuePrompt(s) ==
    /\ prompt[s] = "spawned" /\ ~Locked
    /\ mine' = [mine EXCEPT ![s] = inbound]
    /\ queue' = Append(queue, Prompt(inbound))
    /\ prompt' = [prompt EXCEPT ![s] = "waiting"]
    /\ UNCHANGED <<inbound, owner, connected, screenVars, flagVars, worker, item, tickets,
                   canceller>>

\* ... the worker's answer waited for.
SettledWrong(t) == tickets[t].answered

\* The turn's answer came, or the ticket is cancelled: the thread does not
\* wait for the worker then.
Settled(t) == tickets[t].cancelled \/ tickets[t].answered

PromptReturns(s) ==
    /\ prompt[s] = "waiting" /\ ~Held(mine[s])
    /\ Settled(mine[s])
    /\ prompt' = [prompt EXCEPT ![s] = "done"]
    /\ UNCHANGED <<inbound, owner, connected, mine, screenVars, flagVars, workerVars, tickets,
                   canceller>>

\* The connection's own thread hears of it, and only then is the host free.
PromptDone(s) ==
    /\ prompt[s] = "done" /\ canceller[s] = Free
    /\ prompt' = [prompt EXCEPT ![s] = "none"]
    /\ owner' = None
    /\ UNCHANGED <<inbound, connected, mine, screenVars, flagVars, workerVars, tickets, canceller>>

\* The client is gone, or its answer could not be written.  A prompt still
\* out is cancelled, and no one else's work.
Disconnect(s) ==
    /\ connected[s] /\ canceller[s] = Free
    /\ connected' = [connected EXCEPT ![s] = FALSE]
    /\ canceller' = [canceller EXCEPT ![s].step = IF prompt[s] # "none" THEN "ticket" ELSE "no"]
    /\ UNCHANGED <<inbound, owner, prompt, mine, screenVars, flagVars, workerVars, tickets>>

\* ryter_cancel and notifications/cancelled, from any connection: the prompt
\* the host has, and then whatever the worker runs.
CancelCall(s) ==
    /\ connected[s] /\ canceller[s] = Free
    /\ cancelCalls < MaxCancels
    /\ cancelCalls' = cancelCalls + 1
    /\ canceller' = [canceller EXCEPT ![s].step = "ticket", ![s].then = TRUE]
    /\ UNCHANGED <<busy, cancelling, events, asked, sessionVars, flagVars, workerVars, tickets>>

-----------------------------------------------------------------------------
(* A cancel, on the thread that calls it.                                  *)

\* InboundTurn::cancel: the mutex is kept while the turn is being cancelled.
CancelTicket(c) ==
    /\ canceller[c].step = "ticket" /\ ~Locked
    /\ tickets' = [tickets EXCEPT ![inbound].cancelled = TRUE]
    /\ canceller' = [canceller EXCEPT ![c] =
          IF tickets[inbound].running THEN [@ EXCEPT !.step = "flag", !.holds = inbound]
          ELSE IF @.then THEN [Free EXCEPT !.step = "flag"]
          ELSE Free]
    /\ UNCHANGED <<screenVars, sessionVars, flagVars, workerVars>>

SetFlag(c) ==
    /\ canceller[c].step = "flag"
    /\ flag' = TRUE
    /\ canceller' = [canceller EXCEPT ![c].step = "groups"]
    /\ UNCHANGED <<groups, command, spawned, screenVars, sessionVars, workerVars, tickets>>

\* The groups are read under their own mutex and killed one by one.
KillGroups(c) ==
    /\ canceller[c].step = "groups"
    /\ command' = [command EXCEPT !.alive = @ /\ command.pid \notin groups]
    /\ canceller' = [canceller EXCEPT ![c] =
          IF @.holds # 0 /\ @.then THEN [Free EXCEPT !.step = "flag"] ELSE Free]
    /\ UNCHANGED <<flag, groups, spawned, screenVars, sessionVars, workerVars, tickets>>

-----------------------------------------------------------------------------
(* The worker.                                                             *)

Take == /\ worker = "idle" /\ queue # <<>>
        /\ item' = Head(queue)
        /\ queue' = Tail(queue)

\* Cancel::reset, and the agent's TurnStarted.
Begin == /\ Len(events) < MaxLag
         /\ worker' = "turn"
         /\ flag' = FALSE /\ groups' = {}
         /\ events' = Append(events, "started")
         /\ UNCHANGED <<command, spawned>>

StartMessage ==
    /\ Take /\ item' = Message
    /\ Begin
    /\ UNCHANGED <<busy, cancelling, asked, cancelCalls, sessionVars, tickets, canceller>>

\* ... the ticket not looked at.
MayStartWrong(t) == ~Held(t)

\* InboundTurn::start, under the ticket's mutex.
MayStart(t) == ~Held(t) /\ ~tickets[t].cancelled

StartPrompt(t) ==
    /\ Take /\ item' = Prompt(t)
    /\ MayStart(t)
    /\ tickets' = [tickets EXCEPT ![t].running = TRUE]
    /\ Begin
    /\ UNCHANGED <<busy, cancelling, asked, cancelCalls, sessionVars, canceller>>

SkipPrompt(t) ==
    /\ Take /\ item' = Prompt(t)
    /\ ~Held(t) /\ tickets[t].cancelled
    /\ UNCHANGED <<worker, screenVars, sessionVars, flagVars, tickets, canceller>>

StartDraft ==
    /\ Take /\ item' = Draft
    /\ worker' = "draft"
    /\ UNCHANGED <<screenVars, sessionVars, flagVars, tickets, canceller>>

\* The model's answer, or its error.
DraftEnds ==
    /\ worker = "draft"
    /\ worker' = "idle"
    /\ UNCHANGED <<queue, item, screenVars, sessionVars, flagVars, tickets, canceller>>

\* run_command_with.  The group is registered once the command is there...
Spawn ==
    /\ worker = "turn" /\ command = NoCommand /\ ~flag
    /\ spawned < MaxCommands
    /\ spawned' = spawned + 1
    /\ command' = [pid |-> spawned + 1, step |-> "spawned", alive |-> TRUE]
    /\ UNCHANGED <<flag, groups, screenVars, sessionVars, workerVars, tickets, canceller>>

RegisterPgid ==
    /\ command.step = "spawned"
    /\ groups' = groups \cup {command.pid}
    /\ command' = [command EXCEPT !.step = "registered"]
    /\ UNCHANGED <<flag, spawned, screenVars, sessionVars, workerVars, tickets, canceller>>

\* ... the flag not looked at again.
LookAgainWrong == command' = [command EXCEPT !.step = "watched"]

\* ... and killed at once if a cancel came in between.
LookAgain == command' = [command EXCEPT !.step = "watched", !.alive = @ /\ ~flag]

Registered ==
    /\ command.step = "registered"
    /\ LookAgain
    /\ UNCHANGED <<flag, groups, spawned, screenVars, sessionVars, workerVars, tickets, canceller>>

\* ... the group left where it is.
UnregisterWrong == groups' = groups

Unregister == groups' = groups \ {command.pid}

\* It ends, was killed, or the poll that sees the flag kills it.
CommandEnds ==
    /\ command.step = "watched"
    /\ command' = NoCommand
    /\ Unregister
    /\ UNCHANGED <<flag, spawned, screenVars, sessionVars, workerVars, tickets, canceller>>

TurnEnds ==
    /\ worker = "turn" /\ command = NoCommand
    /\ Len(events) < MaxLag
    /\ worker' = "over"
    /\ events' = Append(events, "finished")
    /\ UNCHANGED <<queue, item, busy, cancelling, asked, cancelCalls, sessionVars, flagVars, tickets,
                   canceller>>

\* ... without the ticket's mutex.
MayFinishWrong == TRUE

\* InboundTurn::finish.  A message has no ticket to finish.
MayFinish == item.ticket # 0 => ~Held(item.ticket)

Finish ==
    /\ worker = "over" /\ MayFinish
    /\ worker' = "idle"
    /\ tickets' = IF item.ticket = 0 THEN tickets
                  ELSE [tickets EXCEPT ![item.ticket].running = FALSE,
                                       ![item.ticket].answered = TRUE]
    /\ UNCHANGED <<queue, item, screenVars, sessionVars, flagVars, canceller>>

-----------------------------------------------------------------------------
Init ==
    /\ queue = <<>> /\ worker = "idle" /\ item = Draft
    /\ flag = FALSE /\ groups = {} /\ command = NoCommand /\ spawned = 0
    /\ tickets = [t \in Tickets |-> [cancelled |-> FALSE, running |-> FALSE, answered |-> FALSE,
                                     of |-> None]]
    /\ inbound = 0 /\ owner = None
    /\ connected = [s \in Sessions |-> TRUE]
    /\ prompt = [s \in Sessions |-> "none"]
    /\ mine = [s \in Sessions |-> 0]
    /\ canceller = [c \in Threads |-> Free]
    /\ busy = FALSE /\ cancelling = FALSE /\ events = <<>>
    /\ asked = 0 /\ cancelCalls = 0

Cancels(c) == CancelTicket(c) \/ SetFlag(c) \/ KillGroups(c)

Next ==
    \/ Submit \/ DraftCommit \/ Esc \/ SeeEvent
    \/ \E s \in Sessions :
          \/ SendPrompt(s) \/ QueuePrompt(s) \/ PromptReturns(s) \/ PromptDone(s)
          \/ Disconnect(s) \/ CancelCall(s)
    \/ \E c \in Threads : Cancels(c)
    \/ StartMessage \/ \E t \in 1..MaxPrompts : StartPrompt(t) \/ SkipPrompt(t)
    \/ StartDraft \/ DraftEnds
    \/ Spawn \/ RegisterPgid \/ Registered \/ CommandEnds \/ TurnEnds \/ Finish

Spec == Init /\ [][Next]_vars

\* The threads take their steps; a mutex is waited for behind finitely many
\* others.  Of the agent nothing is assumed: a turn may run for ever.
FairSpec ==
    /\ Spec
    /\ \A s \in Sessions :
          /\ WF_vars(QueuePrompt(s) \/ PromptReturns(s))
          /\ WF_vars(PromptDone(s) \/ Cancels(s))

-----------------------------------------------------------------------------
Steps == {"no", "ticket", "flag", "groups"}

TypeOK ==
    /\ queue \in Seq(Items) /\ item \in Items
    /\ worker \in {"idle", "turn", "over", "draft"}
    /\ flag \in BOOLEAN /\ spawned \in 0..MaxCommands
    /\ command \in [pid : 0..MaxCommands, step : {"none", "spawned", "registered", "watched"},
                    alive : BOOLEAN]
    /\ groups \subseteq {command.pid} /\ 0 \notin groups
    /\ tickets \in [Tickets -> [cancelled : BOOLEAN, running : BOOLEAN, answered : BOOLEAN,
                               of : Sessions \cup {None}]]
    /\ inbound \in Tickets /\ owner \in Sessions \cup {None}
    /\ connected \in [Sessions -> BOOLEAN]
    /\ prompt \in [Sessions -> {"none", "spawned", "waiting", "done"}]
    /\ mine \in [Sessions -> Tickets]
    /\ canceller \in [Threads -> [step : Steps, holds : Tickets, then : BOOLEAN]]
    /\ busy \in BOOLEAN /\ cancelling \in BOOLEAN
    /\ events \in Seq({"started", "finished"})
    /\ asked \in 0..MaxWork /\ cancelCalls \in 0..MaxCancels

\* A prompt its client has cancelled is never left running: either it does
\* not start, or the flag is up while it runs, whatever the order of the
\* cancel, the worker's reset and the start.
CancelledPromptStops ==
    \A t \in 1..MaxPrompts :
        worker = "turn" /\ item = Prompt(t) /\ tickets[t].cancelled /\ ~Held(t) => flag

\* mcp/server.rs, "Cancel only this connection's reserved prompt": a cancel
\* of a ticket sets the flag and kills groups only while that ticket's turn
\* is the worker's; the user's work and another client's never see it.
CancelSparesOthers ==
    \A c \in Sessions :
        canceller[c].holds # 0 =>
            /\ worker \in {"turn", "over"}
            /\ item = Prompt(canceller[c].holds)

\* mcp/server.rs, "a rejected connection never owns (or cancels) somebody
\* else's turn": what a connection that ends cancels is its own prompt.
DisconnectCancelsItsOwn ==
    \A s \in Sessions :
        canceller[s].step = "ticket" /\ ~canceller[s].then => tickets[inbound].of = s

\* A command is never left running by a cancel that is through: it was in the
\* groups the cancel read, or saw the flag once it was registered.
CancelReachesTheCommand ==
    flag /\ command.step = "watched" /\ command.alive =>
        \E c \in Threads : canceller[c].step = "groups"

\* The host is free for another client's prompt once a client is gone, though
\* the turn it asked for may hang, and others cancel all the while.
DisconnectFreesTheHost ==
    \A s \in Sessions : ~connected[s] ~> owner # s
=============================================================================
