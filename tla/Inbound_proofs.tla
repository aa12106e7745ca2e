--------------------------- MODULE Inbound_proofs ---------------------------
(* Proofs about Inbound, for any number of connections, prompts, messages,  *)
(* commands and cancels.                                                    *)
EXTENDS Inbound, SequenceTheorems, TLAPS

LEMMA ConstantsType ==
    /\ Screen \notin Sessions /\ None \notin Sessions
    /\ MaxPrompts \in Nat /\ MaxWork \in Nat /\ MaxCommands \in Nat /\ MaxCancels \in Nat
    /\ MaxLag \in Nat
  BY InboundAssumption

-----------------------------------------------------------------------------
(* What the queues and the cancels are made of.                            *)

Cancellers == [step : Steps, holds : Tickets, then : BOOLEAN]
TicketStates == [cancelled : BOOLEAN, running : BOOLEAN, answered : BOOLEAN,
                 of : Sessions \cup {None}]

LEMMA TicketNumbers == 0 \in Tickets /\ \A t \in 1..MaxPrompts : t \in Tickets
  BY ConstantsType DEF Tickets

(* What `finish` makes of a ticket is a ticket.                              *)
LEMMA EndedTicket ==
    ASSUME NEW r \in TicketStates
    PROVE  [r EXCEPT !.running = FALSE, !.answered = TRUE] \in TicketStates
  BY DEF TicketStates

LEMMA ItemsAreItems ==
    Message \in Items /\ Draft \in Items /\ \A t \in Tickets : Prompt(t) \in Items
  BY TicketNumbers DEF Message, Draft, Prompt, Items

LEMMA QueueOf ==
    ASSUME NEW S, NEW q \in Seq(S)
    PROVE  /\ \A e \in S : Append(q, e) \in Seq(S)
           /\ q # <<>> => Head(q) \in S /\ Tail(q) \in Seq(S)
  OBVIOUS

LEMMA CancelStep ==
    ASSUME NEW k \in Cancellers, NEW n \in Steps, NEW t \in Tickets
    PROVE  /\ Free \in Cancellers
           /\ [k EXCEPT !.step = n] \in Cancellers
           /\ [k EXCEPT !.step = n, !.holds = t] \in Cancellers
           /\ [k EXCEPT !.step = n, !.then = TRUE] \in Cancellers
           /\ [Free EXCEPT !.step = n] \in Cancellers
  BY TicketNumbers DEF Cancellers, Free, Steps

-----------------------------------------------------------------------------
(* Types: the work, the command, the parties.                              *)

FlowTyped ==
    /\ queue \in Seq(Items) /\ item \in Items
    /\ worker \in {"idle", "turn", "over", "draft"}
    /\ busy \in BOOLEAN /\ cancelling \in BOOLEAN
    /\ events \in Seq({"started", "finished"})
    /\ asked \in 0..MaxWork /\ cancelCalls \in 0..MaxCancels

\* A command that has been started has a pid.
CommandTyped ==
    /\ flag \in BOOLEAN /\ spawned \in 0..MaxCommands
    /\ command \in [pid : 0..MaxCommands, step : {"none", "spawned", "registered", "watched"},
                    alive : BOOLEAN]
    /\ command.step # "none" => command.pid # 0
    /\ groups \subseteq {command.pid} /\ 0 \notin groups

PartiesTyped ==
    /\ tickets \in [Tickets -> TicketStates]
    /\ inbound \in Tickets /\ owner \in Sessions \cup {None}
    /\ connected \in [Sessions -> BOOLEAN]
    /\ prompt \in [Sessions -> {"none", "spawned", "waiting", "done"}]
    /\ mine \in [Sessions -> Tickets]
    /\ canceller \in [Threads -> Cancellers]

Typed == FlowTyped /\ CommandTyped /\ PartiesTyped

OthersF ==
    \/ (\E s \in Sessions : SendPrompt(s))
    \/ (\E s \in Sessions : PromptReturns(s))
    \/ (\E s \in Sessions : PromptDone(s))
    \/ (\E s \in Sessions : Disconnect(s))
    \/ (\E c \in Threads : CancelTicket(c))
    \/ (\E c \in Threads : SetFlag(c))
    \/ (\E c \in Threads : KillGroups(c))
    \/ Spawn
    \/ RegisterPgid
    \/ Registered
    \/ CommandEnds

LEMMA FlowStays == Typed /\ [Next]_vars => FlowTyped'
  <1> SUFFICES ASSUME Typed, [Next]_vars PROVE FlowTyped'
    OBVIOUS
  <1> USE ConstantsType DEF Typed, FlowTyped, screenVars, sessionVars, flagVars, workerVars
  <1>1. CASE Submit
    <2>1. queue' \in Seq(Items)
      BY <1>1, ItemsAreItems, QueueOf DEF Submit
    <2>2. busy' \in BOOLEAN /\ cancelling' \in BOOLEAN
      BY <1>1, Zenon DEF Submit
    <2>3. asked' \in 0..MaxWork /\ cancelCalls' \in 0..MaxCancels
      BY <1>1 DEF Submit
    <2>4. item' \in Items /\ worker' = worker /\ events' = events
      BY <1>1 DEF Submit
    <2> QED BY <2>1, <2>2, <2>3, <2>4
  <1>2. CASE DraftCommit
    BY <1>2, ItemsAreItems, QueueOf DEF DraftCommit
  <1>3. CASE Esc
    BY <1>3 DEF Esc
  <1>4. CASE SeeEvent
    BY <1>4, QueueOf DEF SeeEvent
  <1>5. ASSUME NEW s \in Sessions, QueuePrompt(s) PROVE FlowTyped'
    BY <1>5, ItemsAreItems, QueueOf DEF QueuePrompt, PartiesTyped
  <1>6. ASSUME NEW s \in Sessions, CancelCall(s) PROVE FlowTyped'
    BY <1>6 DEF CancelCall
  <1>7. CASE StartMessage
    BY <1>7, ItemsAreItems, QueueOf DEF StartMessage, Take, Begin
  <1>8. ASSUME NEW t \in 1..MaxPrompts, StartPrompt(t) PROVE FlowTyped'
    BY <1>8, ItemsAreItems, QueueOf DEF StartPrompt, Take, Begin
  <1>9. ASSUME NEW t \in 1..MaxPrompts, SkipPrompt(t) PROVE FlowTyped'
    BY <1>9, ItemsAreItems, QueueOf DEF SkipPrompt, Take
  <1>10. CASE StartDraft
    BY <1>10, ItemsAreItems, QueueOf DEF StartDraft, Take
  <1>11. CASE DraftEnds
    BY <1>11 DEF DraftEnds
  <1>12. CASE TurnEnds
    BY <1>12, QueueOf DEF TurnEnds
  <1>13. CASE Finish
    BY <1>13 DEF Finish
  <1>14. CASE UNCHANGED vars \/ OthersF
    BY <1>14 DEF vars, OthersF, CancelTicket, CommandEnds, Disconnect, KillGroups, LookAgain, PromptDone, PromptReturns, RegisterPgid, Registered, SendPrompt, SetFlag, Spawn, Unregister
  <1> QED
    BY <1>1, <1>2, <1>3, <1>4, <1>5, <1>6, <1>7, <1>8, <1>9, <1>10, <1>11, <1>12, <1>13, <1>14
    DEF Next, Cancels, OthersF

OthersC ==
    \/ Submit
    \/ DraftCommit
    \/ Esc
    \/ SeeEvent
    \/ (\E s \in Sessions : SendPrompt(s))
    \/ (\E s \in Sessions : QueuePrompt(s))
    \/ (\E s \in Sessions : PromptReturns(s))
    \/ (\E s \in Sessions : PromptDone(s))
    \/ (\E s \in Sessions : Disconnect(s))
    \/ (\E s \in Sessions : CancelCall(s))
    \/ (\E c \in Threads : CancelTicket(c))
    \/ (\E t \in 1..MaxPrompts : SkipPrompt(t))
    \/ StartDraft
    \/ DraftEnds
    \/ TurnEnds
    \/ Finish

LEMMA CommandStays == Typed /\ [Next]_vars => CommandTyped'
  <1> SUFFICES ASSUME Typed, [Next]_vars PROVE CommandTyped'
    OBVIOUS
  <1> USE ConstantsType DEF Typed, CommandTyped, screenVars, sessionVars, flagVars, workerVars, NoCommand
  <1>1. ASSUME NEW c \in Threads, SetFlag(c) PROVE CommandTyped'
    BY <1>1 DEF SetFlag
  <1>2. ASSUME NEW c \in Threads, KillGroups(c) PROVE CommandTyped'
    BY <1>2 DEF KillGroups
  <1>3. CASE StartMessage
    BY <1>3 DEF StartMessage, Take, Begin
  <1>4. ASSUME NEW t \in 1..MaxPrompts, StartPrompt(t) PROVE CommandTyped'
    BY <1>4 DEF StartPrompt, Take, Begin
  <1>5. CASE Spawn
    BY <1>5 DEF Spawn
  <1>6. CASE RegisterPgid
    BY <1>6 DEF RegisterPgid
  <1>7. CASE Registered
    BY <1>7 DEF Registered, LookAgain
  <1>8. CASE CommandEnds
    <2>1. groups' = {}
      BY <1>8 DEF CommandEnds, Unregister
    <2> QED BY <1>8, <2>1 DEF CommandEnds
  <1>9. CASE UNCHANGED vars \/ OthersC
    BY <1>9 DEF vars, OthersC, CancelCall, CancelTicket, Disconnect, DraftCommit, DraftEnds, Esc, Finish, PromptDone, PromptReturns, QueuePrompt, SeeEvent, SendPrompt, SkipPrompt, StartDraft, Submit, Take, TurnEnds
  <1> QED
    BY <1>1, <1>2, <1>3, <1>4, <1>5, <1>6, <1>7, <1>8, <1>9
    DEF Next, Cancels, OthersC

OthersP ==
    \/ Submit
    \/ DraftCommit
    \/ SeeEvent
    \/ StartMessage
    \/ (\E t \in 1..MaxPrompts : SkipPrompt(t))
    \/ StartDraft
    \/ DraftEnds
    \/ Spawn
    \/ RegisterPgid
    \/ Registered
    \/ CommandEnds
    \/ TurnEnds

LEMMA PartiesStay == Typed /\ [Next]_vars => PartiesTyped'
  <1> SUFFICES ASSUME Typed, [Next]_vars PROVE PartiesTyped'
    OBVIOUS
  <1> USE ConstantsType DEF Typed, PartiesTyped, screenVars, sessionVars, flagVars, workerVars
  <1>1. CASE Esc
    BY <1>1, CancelStep, TicketNumbers DEF Esc, Threads, Steps
  <1>2. ASSUME NEW s \in Sessions, SendPrompt(s) PROVE PartiesTyped'
    <2>1. inbound + 1 \in Tickets
      BY <1>2 DEF SendPrompt, Tickets
    <2>2. tickets' \in [Tickets -> TicketStates]
      <3>1. [tickets[inbound + 1] EXCEPT !.of = s] \in TicketStates
        BY <2>1 DEF TicketStates
      <3> QED BY <1>2, <2>1, <3>1 DEF SendPrompt
    <2> QED BY <1>2, <2>1, <2>2 DEF SendPrompt
  <1>3. ASSUME NEW s \in Sessions, QueuePrompt(s) PROVE PartiesTyped'
    BY <1>3 DEF QueuePrompt
  <1>4. ASSUME NEW s \in Sessions, PromptReturns(s) PROVE PartiesTyped'
    BY <1>4 DEF PromptReturns
  <1>5. ASSUME NEW s \in Sessions, PromptDone(s) PROVE PartiesTyped'
    BY <1>5 DEF PromptDone
  <1>6. ASSUME NEW s \in Sessions, Disconnect(s) PROVE PartiesTyped'
    BY <1>6, CancelStep, TicketNumbers DEF Disconnect, Threads, Steps
  <1>7. ASSUME NEW s \in Sessions, CancelCall(s) PROVE PartiesTyped'
    BY <1>7, CancelStep, TicketNumbers DEF CancelCall, Threads, Steps
  <1>8. ASSUME NEW c \in Threads, CancelTicket(c) PROVE PartiesTyped'
    <2>1. tickets' \in [Tickets -> TicketStates]
      <3>1. [tickets[inbound] EXCEPT !.cancelled = TRUE] \in TicketStates
        BY DEF TicketStates
      <3> QED BY <1>8, <3>1 DEF CancelTicket
    <2>2. canceller' \in [Threads -> Cancellers]
      <3>1. /\ [canceller[c] EXCEPT !.step = "flag", !.holds = inbound] \in Cancellers
            /\ [Free EXCEPT !.step = "flag"] \in Cancellers
            /\ Free \in Cancellers
        BY CancelStep DEF Steps
      <3> QED BY <1>8, <3>1 DEF CancelTicket
    <2> QED BY <1>8, <2>1, <2>2 DEF CancelTicket
  <1>9. ASSUME NEW c \in Threads, SetFlag(c) PROVE PartiesTyped'
    BY <1>9, CancelStep, TicketNumbers DEF SetFlag, Steps
  <1>10. ASSUME NEW c \in Threads, KillGroups(c) PROVE PartiesTyped'
    BY <1>10, CancelStep, TicketNumbers DEF KillGroups, Steps
  <1>11. ASSUME NEW t \in 1..MaxPrompts, StartPrompt(t) PROVE PartiesTyped'
    BY <1>11, TicketNumbers DEF StartPrompt, Take, Begin, TicketStates
  <1>12. CASE Finish
    <2> DEFINE t == item.ticket
    <2>1. t \in Tickets
      BY DEF FlowTyped, Items
    <2>2. [tickets[t] EXCEPT !.running = FALSE, !.answered = TRUE] \in TicketStates
      <3>1. tickets[t] \in TicketStates
        BY <2>1
      <3> QED BY <3>1, EndedTicket
    <2>3. tickets' \in [Tickets -> TicketStates]
      <3>1. [tickets EXCEPT ![t].running = FALSE, ![t].answered = TRUE]
              = [tickets EXCEPT ![t] = [tickets[t] EXCEPT !.running = FALSE, !.answered = TRUE]]
        BY <2>1 DEF TicketStates
      <3> QED BY <1>12, <2>1, <2>2, <3>1 DEF Finish
    <2> QED BY <1>12, <2>3 DEF Finish
  <1>13. CASE UNCHANGED vars \/ OthersP
    BY <1>13 DEF vars, OthersP, Begin, CommandEnds, DraftCommit, DraftEnds, LookAgain, RegisterPgid, Registered, SeeEvent, SkipPrompt, Spawn, StartDraft, StartMessage, Submit, Take, TurnEnds, Unregister
  <1> QED
    BY <1>1, <1>2, <1>3, <1>4, <1>5, <1>6, <1>7, <1>8, <1>9, <1>10, <1>11, <1>12, <1>13
    DEF Next, Cancels, OthersP

LEMMA InitTyped == Init => Typed
  <1> SUFFICES ASSUME Init PROVE Typed
    OBVIOUS
  <1>1. FlowTyped
    <2>1. queue \in Seq(Items) /\ events \in Seq({"started", "finished"})
      BY DEF Init
    <2>2. busy \in BOOLEAN /\ cancelling \in BOOLEAN
      BY Zenon DEF Init
    <2>3. asked \in 0..MaxWork /\ cancelCalls \in 0..MaxCancels
      BY ConstantsType DEF Init
    <2>4. item \in Items /\ worker = "idle"
      BY ItemsAreItems DEF Init
    <2> QED BY <2>1, <2>2, <2>3, <2>4 DEF FlowTyped
  <1>2. CommandTyped
    <2>1. flag \in BOOLEAN
      BY Zenon DEF Init
    <2>2. command = NoCommand /\ groups = {} /\ spawned \in 0..MaxCommands
      BY ConstantsType DEF Init
    <2> QED BY <2>1, <2>2, ConstantsType DEF CommandTyped, NoCommand
  <1>3. PartiesTyped
    <2>1. tickets \in [Tickets -> TicketStates]
      BY DEF Init, TicketStates
    <2>2. Free \in Cancellers
      BY TicketNumbers DEF Free, Cancellers, Steps
    <2> QED BY <2>1, <2>2, TicketNumbers DEF Init, PartiesTyped
  <1> QED BY <1>1, <1>2, <1>3 DEF Typed

LEMMA NextTyped == Typed /\ [Next]_vars => Typed'
  BY FlowStays, CommandStays, PartiesStay DEF Typed

\* Whatever clients, the user and the worker do, in whatever order: a cancel
\* is at one of its steps, a group is registered only while its command is
\* there, the counters keep to their bounds.
THEOREM TypeCorrect == Spec => []TypeOK
  <1>1. Spec => []Typed
    BY InitTyped, NextTyped, PTL DEF Spec
  <1>2. Typed => TypeOK
    BY DEF Typed, FlowTyped, CommandTyped, PartiesTyped, TicketStates, Cancellers, TypeOK
  <1> QED BY <1>1, <1>2, PTL

-----------------------------------------------------------------------------
(* Whose turn a cancel reaches.                                            *)

\* A ticket runs only while its prompt is the worker's, and then it does.
TicketsRun ==
    /\ \A t \in Tickets :
          tickets[t].running => t # 0 /\ worker \in {"turn", "over"} /\ item = Prompt(t)
    /\ worker \in {"turn", "over"} /\ item.ticket # 0 => tickets[item.ticket].running

\* A ticket's mutex is held only while it runs, and once its holder is at the
\* groups the flag is up.
HoldersHoldRunning ==
    \A c \in Threads :
        canceller[c].holds # 0 =>
            /\ tickets[canceller[c].holds].running
            /\ canceller[c].step \in {"flag", "groups"}
            /\ canceller[c].step = "groups" => flag

\* A running ticket that was cancelled is still being cancelled or has the
\* flag up.
CancelledSeesFlag ==
    \A t \in Tickets : tickets[t].running /\ tickets[t].cancelled /\ ~Held(t) => flag

CancelInv == TicketsRun /\ HoldersHoldRunning /\ CancelledSeesFlag

\* Between two turns no ticket runs, so no thread holds one.
LEMMA NothingRuns ==
    ASSUME Typed, CancelInv, worker \notin {"turn", "over"}
    PROVE  /\ \A t \in Tickets : ~tickets[t].running
           /\ \A c \in Threads : canceller[c].holds = 0
  <1>1. \A t \in Tickets : ~tickets[t].running
    BY DEF CancelInv, TicketsRun
  <1>2. \A c \in Threads : canceller[c].holds \in Tickets
    BY DEF Typed, PartiesTyped, Cancellers
  <1> QED BY <1>1, <1>2 DEF CancelInv, HoldersHoldRunning

\* What keeps the three parts when no ticket runs in the next state.
LEMMA QuietKeeps ==
    ASSUME \A t \in Tickets : ~tickets'[t].running,
           \A c \in Threads : canceller'[c].holds = 0,
           worker' \in {"turn", "over"} => item'.ticket = 0
    PROVE  CancelInv'
  BY DEF CancelInv, TicketsRun, HoldersHoldRunning, CancelledSeesFlag

\* A thread that begins a cancel holds nothing yet.
LEMMA BeginningKeeps ==
    ASSUME Typed, CancelInv, UNCHANGED <<tickets, worker, item, flag>>,
           NEW c \in Threads, canceller[c] = Free,
           \A d \in Threads \ {c} : canceller'[d] = canceller[d],
           canceller'[c].holds = 0
    PROVE  CancelInv'
  <1>1. TicketsRun'
    BY DEF CancelInv, TicketsRun
  <1>2. HoldersHoldRunning'
    BY DEF CancelInv, HoldersHoldRunning
  <1>3. CancelledSeesFlag'
    <2>1. \A t \in Tickets : t # 0 => (Held(t)' <=> Held(t))
      BY DEF Held, Free
    <2> QED BY <2>1 DEF CancelInv, CancelledSeesFlag, TicketsRun
  <1> QED BY <1>1, <1>2, <1>3 DEF CancelInv

CancelOthers ==
    \/ Submit \/ DraftCommit \/ SeeEvent
    \/ \E s \in Sessions : QueuePrompt(s) \/ PromptReturns(s) \/ PromptDone(s)
    \/ Spawn \/ RegisterPgid \/ Registered \/ CommandEnds

LEMMA CancelInvStays == Typed /\ CancelInv /\ [Next]_vars => CancelInv'
  <1> SUFFICES ASSUME Typed, CancelInv, [Next]_vars PROVE CancelInv'
    OBVIOUS
  <1> USE ConstantsType DEF screenVars, sessionVars, flagVars, workerVars
  <1>0. canceller \in [Threads -> Cancellers] /\ tickets \in [Tickets -> TicketStates]
    BY DEF Typed, PartiesTyped
  <1>1. CASE Esc
    <2>1. /\ \A d \in Threads \ {Screen} : canceller'[d] = canceller[d]
          /\ canceller'[Screen].holds = 0
      BY <1>0, <1>1 DEF Esc, Threads, Cancellers, Free
    <2> QED BY <1>1, <2>1, BeginningKeeps DEF Esc, Threads
  <1>2. ASSUME NEW s \in Sessions, SendPrompt(s) PROVE CancelInv'
    <2>1. \A t \in Tickets : /\ tickets'[t].running = tickets[t].running
                             /\ tickets'[t].cancelled = tickets[t].cancelled
      BY <1>0, <1>2 DEF SendPrompt, TicketStates
    <2>2. UNCHANGED <<worker, item, flag, canceller>>
      BY <1>2 DEF SendPrompt
    <2>3. item.ticket \in Tickets /\ \A c \in Threads : canceller[c].holds \in Tickets
      BY <1>0 DEF Typed, FlowTyped, Items, Cancellers
    <2>4. TicketsRun'
      BY <2>1, <2>2, <2>3 DEF CancelInv, TicketsRun
    <2>5. HoldersHoldRunning'
      BY <2>1, <2>2, <2>3 DEF CancelInv, HoldersHoldRunning
    <2>6. CancelledSeesFlag'
      BY <2>1, <2>2 DEF CancelInv, CancelledSeesFlag, Held
    <2> QED BY <2>4, <2>5, <2>6 DEF CancelInv
  <1>3. ASSUME NEW s \in Sessions, Disconnect(s) PROVE CancelInv'
    <2>1. /\ \A d \in Threads \ {s} : canceller'[d] = canceller[d]
          /\ canceller'[s].holds = 0
      BY <1>0, <1>3 DEF Disconnect, Threads, Cancellers, Free
    <2> QED BY <1>3, <2>1, BeginningKeeps DEF Disconnect, Threads
  <1>4. ASSUME NEW s \in Sessions, CancelCall(s) PROVE CancelInv'
    <2>1. /\ \A d \in Threads \ {s} : canceller'[d] = canceller[d]
          /\ canceller'[s].holds = 0
      BY <1>0, <1>4 DEF CancelCall, Threads, Cancellers, Free
    <2> QED BY <1>4, <2>1, BeginningKeeps DEF CancelCall, Threads
  <1>5. ASSUME NEW c \in Threads, CancelTicket(c) PROVE CancelInv'
    <2>1. \A d \in Threads : canceller[d].holds = 0
      BY <1>5 DEF CancelTicket, Locked
    <2>2. inbound \in Tickets /\ UNCHANGED <<worker, item, flag>>
      BY <1>5 DEF CancelTicket, Typed, PartiesTyped
    <2>3. /\ \A t \in Tickets : tickets'[t].running = tickets[t].running
          /\ \A t \in Tickets \ {inbound} : tickets'[t] = tickets[t]
      BY <1>0, <1>5, <2>2 DEF CancelTicket, TicketStates
    <2>4. \A d \in Threads \ {c} : canceller'[d] = canceller[d]
      BY <1>0, <1>5 DEF CancelTicket
    <2>5. /\ tickets[inbound].running => canceller'[c].holds = inbound /\ canceller'[c].step = "flag"
          /\ ~tickets[inbound].running => canceller'[c].holds = 0
      BY <1>0, <1>5 DEF CancelTicket, Cancellers, Free
    <2>6. item.ticket \in Tickets
      BY DEF Typed, FlowTyped, Items
    <2>7. TicketsRun'
      BY <2>2, <2>3, <2>6 DEF CancelInv, TicketsRun
    <2>8. HoldersHoldRunning'
      BY <2>1, <2>2, <2>3, <2>4, <2>5 DEF HoldersHoldRunning
    <2>9. CancelledSeesFlag'
      <3> SUFFICES ASSUME NEW t \in Tickets, tickets'[t].running, tickets'[t].cancelled, ~Held(t)'
                   PROVE  flag'
        BY DEF CancelledSeesFlag
      <3>1. t # inbound
        BY <2>3, <2>5 DEF Held
      <3>2. ~Held(t)
        BY <2>1, <2>3 DEF Held, CancelInv, TicketsRun
      <3> QED BY <2>2, <2>3, <3>1, <3>2 DEF CancelInv, CancelledSeesFlag
    <2> QED BY <2>7, <2>8, <2>9 DEF CancelInv
  <1>6. ASSUME NEW c \in Threads, SetFlag(c) PROVE CancelInv'
    <2>1. /\ flag' /\ UNCHANGED <<worker, item, tickets>>
          /\ canceller[c].step = "flag"
      BY <1>6 DEF SetFlag
    <2>2. \A d \in Threads : /\ canceller'[d].holds = canceller[d].holds
                             /\ canceller'[d].step \in {canceller[d].step, "groups"}
      BY <1>0, <1>6 DEF SetFlag, Cancellers
    <2>3. TicketsRun'
      BY <2>1 DEF CancelInv, TicketsRun
    <2>4. HoldersHoldRunning'
      BY <2>1, <2>2 DEF CancelInv, HoldersHoldRunning
    <2> QED BY <2>1, <2>3, <2>4 DEF CancelInv, CancelledSeesFlag
  <1>7. ASSUME NEW c \in Threads, KillGroups(c) PROVE CancelInv'
    <2>1. UNCHANGED <<worker, item, tickets, flag>> /\ canceller[c].step = "groups"
      BY <1>7 DEF KillGroups
    <2>2. /\ \A d \in Threads \ {c} : canceller'[d] = canceller[d]
          /\ canceller'[c].holds = 0
      BY <1>0, <1>7 DEF KillGroups, Cancellers, Free
    <2>3. TicketsRun'
      BY <2>1 DEF CancelInv, TicketsRun
    <2>4. HoldersHoldRunning'
      BY <2>1, <2>2 DEF CancelInv, HoldersHoldRunning
    <2>5. CancelledSeesFlag'
      <3> SUFFICES ASSUME NEW t \in Tickets, tickets[t].running, tickets[t].cancelled, ~Held(t)'
                   PROVE  flag
        BY <2>1 DEF CancelledSeesFlag
      <3>1. t # 0
        BY DEF CancelInv, TicketsRun
      <3>2. CASE canceller[c].holds = t
        BY <2>1, <3>1, <3>2 DEF CancelInv, HoldersHoldRunning
      <3>3. CASE canceller[c].holds # t
        <4>1. ~Held(t)
          BY <2>2, <3>3 DEF Held
        <4> QED BY <4>1 DEF CancelInv, CancelledSeesFlag
      <3> QED BY <3>2, <3>3
    <2> QED BY <2>3, <2>4, <2>5 DEF CancelInv
  <1>8. CASE StartMessage
    <2>1. worker = "idle" /\ UNCHANGED <<tickets, canceller>> /\ item'.ticket = 0
      BY <1>8 DEF StartMessage, Take, Message
    <2> QED BY <2>1, NothingRuns, QuietKeeps
  <1>9. ASSUME NEW t \in 1..MaxPrompts, StartPrompt(t) PROVE CancelInv'
    <2>1. /\ worker = "idle" /\ worker' = "turn" /\ item' = Prompt(t) /\ UNCHANGED canceller
          /\ ~tickets[t].cancelled
      BY <1>9 DEF StartPrompt, Take, Begin, MayStart
    <2>2. t # 0 /\ t \in Tickets /\ item'.ticket = t
      BY <2>1, TicketNumbers DEF Prompt
    <2>3. /\ \A c \in Threads : canceller'[c].holds = 0
          /\ \A u \in Tickets : ~tickets[u].running
      BY <2>1, NothingRuns
    <2>4. /\ tickets'[t].running /\ ~tickets'[t].cancelled
          /\ \A u \in Tickets \ {t} : ~tickets'[u].running
      BY <1>0, <1>9, <2>1, <2>2, <2>3 DEF StartPrompt, TicketStates
    <2>5. TicketsRun'
      BY <2>1, <2>2, <2>4 DEF TicketsRun
    <2>6. HoldersHoldRunning' /\ CancelledSeesFlag'
      BY <2>3, <2>4 DEF HoldersHoldRunning, CancelledSeesFlag
    <2> QED BY <2>5, <2>6 DEF CancelInv
  <1>10. CASE StartDraft \/ DraftEnds \/ \E t \in 1..MaxPrompts : SkipPrompt(t)
    <2>1. /\ worker \notin {"turn", "over"} /\ worker' \notin {"turn", "over"}
          /\ UNCHANGED <<tickets, canceller>>
      BY <1>10 DEF StartDraft, DraftEnds, SkipPrompt, Take
    <2> QED BY <2>1, NothingRuns, QuietKeeps
  <1>11. CASE TurnEnds
    <2>1. worker = "turn" /\ worker' = "over" /\ UNCHANGED <<item, tickets, canceller, flag>>
      BY <1>11 DEF TurnEnds
    <2> QED BY <2>1 DEF CancelInv, TicketsRun, HoldersHoldRunning, CancelledSeesFlag, Held
  <1>12. CASE Finish
    <2>1. /\ worker' = "idle" /\ UNCHANGED <<item, canceller>>
          /\ item.ticket # 0 => ~Held(item.ticket)
      BY <1>12 DEF Finish, MayFinish
    <2>2. item.ticket \in Tickets /\ \A c \in Threads : canceller[c].holds \in Tickets
      BY <1>0 DEF Typed, FlowTyped, Items, Cancellers
    <2>3. \A t \in Tickets : tickets[t].running => t = item.ticket /\ t # 0
      BY DEF CancelInv, TicketsRun, Prompt
    <2>4. \A t \in Tickets : ~tickets'[t].running
      BY <1>0, <1>12, <2>2, <2>3 DEF Finish, TicketStates
    <2>5. \A c \in Threads : canceller'[c].holds = 0
      BY <2>1, <2>2, <2>3 DEF CancelInv, HoldersHoldRunning, Held
    <2> QED BY <2>1, <2>4, <2>5, QuietKeeps
  <1>13. CASE UNCHANGED vars \/ CancelOthers
    <2>1. UNCHANGED <<worker, item, flag, tickets, canceller>>
      BY <1>13 DEF vars, CancelOthers, Submit, DraftCommit, SeeEvent, QueuePrompt, PromptReturns,
                   PromptDone, Spawn, RegisterPgid, Registered, CommandEnds
    <2> QED BY <2>1 DEF CancelInv, TicketsRun, HoldersHoldRunning, CancelledSeesFlag, Held
  <1> QED
    BY <1>1, <1>2, <1>3, <1>4, <1>5, <1>6, <1>7, <1>8, <1>9, <1>10, <1>11, <1>12, <1>13
    DEF Next, Cancels, CancelOthers

LEMMA CancelInvHolds == Spec => [](Typed /\ CancelInv)
  <1>1. Init => CancelInv
    <2> SUFFICES ASSUME Init PROVE CancelInv
      OBVIOUS
    <2>1. /\ worker = "idle" /\ \A t \in Tickets : ~tickets[t].running
          /\ \A c \in Threads : canceller[c].holds = 0
      BY DEF Init, Free
    <2> QED BY <2>1 DEF CancelInv, TicketsRun, HoldersHoldRunning, CancelledSeesFlag
  <1> QED BY InitTyped, NextTyped, CancelInvStays, <1>1, PTL DEF Spec

\* With any number of clients, prompts and commands: the flag a ticket's
\* cancel sets and the groups it kills are that ticket's turn's, never the
\* user's or another client's.
THEOREM CancelsStayTheirs == Spec => []CancelSparesOthers
  <1>1. Typed /\ CancelInv => CancelSparesOthers
    <2> SUFFICES ASSUME Typed, CancelInv, NEW c \in Sessions, canceller[c].holds # 0
                 PROVE  worker \in {"turn", "over"} /\ item = Prompt(canceller[c].holds)
      BY DEF CancelSparesOthers
    <2>1. c \in Threads /\ canceller[c].holds \in Tickets
      BY DEF Typed, PartiesTyped, Cancellers, Threads
    <2> QED BY <2>1 DEF CancelInv, HoldersHoldRunning, TicketsRun
  <1> QED BY CancelInvHolds, <1>1, PTL

\* However a cancel, the worker's reset of the flag and the start of a prompt
\* interleave: a cancelled prompt does not run on with the flag down.
THEOREM CancelledPromptsStop == Spec => []CancelledPromptStops
  <1>1. Typed /\ CancelInv => CancelledPromptStops
    <2> SUFFICES ASSUME Typed, CancelInv, NEW t \in 1..MaxPrompts, worker = "turn",
                        item = Prompt(t), tickets[t].cancelled, ~Held(t)
                 PROVE  flag
      BY DEF CancelledPromptStops
    <2>1. t \in Tickets /\ t # 0 /\ item.ticket = t
      BY ConstantsType, TicketNumbers DEF Prompt
    <2> QED BY <2>1 DEF CancelInv, TicketsRun, CancelledSeesFlag
  <1> QED BY CancelInvHolds, <1>1, PTL

-----------------------------------------------------------------------------
(* Which command a cancel reaches.                                         *)

\* A registered command is in the groups; between turns there is none; one
\* that runs on under the flag is about to be killed.
CommandInv ==
    /\ command.step \in {"registered", "watched"} => command.pid \in groups
    /\ worker # "turn" => command.step = "none"
    /\ CancelReachesTheCommand

\* Who may be killing commands: a thread leaves the groups only by KillGroups.
LEMMA KillersStay ==
    ASSUME Typed, [Next]_vars, \A c \in Threads : ~KillGroups(c)
    PROVE  \A c \in Threads : canceller[c].step = "groups" => canceller'[c].step = "groups"
  <1> SUFFICES ASSUME NEW c \in Threads, canceller[c].step = "groups"
               PROVE  canceller'[c].step = "groups"
    OBVIOUS
  <1>0. canceller \in [Threads -> Cancellers] /\ canceller[c] # Free
    BY DEF Typed, PartiesTyped, Free
  <1>1. CASE Esc
    BY <1>0, <1>1 DEF Esc
  <1>2. ASSUME NEW s \in Sessions, Disconnect(s) PROVE canceller'[c].step = "groups"
    BY <1>0, <1>2 DEF Disconnect
  <1>3. ASSUME NEW s \in Sessions, CancelCall(s) PROVE canceller'[c].step = "groups"
    BY <1>0, <1>3 DEF CancelCall
  <1>4. ASSUME NEW d \in Threads, CancelTicket(d) PROVE canceller'[c].step = "groups"
    BY <1>0, <1>4 DEF CancelTicket
  <1>5. ASSUME NEW d \in Threads, SetFlag(d) PROVE canceller'[c].step = "groups"
    BY <1>0, <1>5 DEF SetFlag, Cancellers
  <1>6. CASE UNCHANGED canceller
    BY <1>6
  <1> QED
    BY <1>1, <1>2, <1>3, <1>4, <1>5, <1>6
    DEF Next, Cancels, vars, Submit, DraftCommit, SeeEvent, SendPrompt, QueuePrompt,
        PromptReturns, PromptDone, StartMessage, StartPrompt, SkipPrompt, StartDraft, DraftEnds,
        Spawn, RegisterPgid, Registered, CommandEnds, TurnEnds, Finish

LEMMA CommandInvStays == Typed /\ CommandInv /\ [Next]_vars => CommandInv'
  <1> SUFFICES ASSUME Typed, CommandInv, [Next]_vars PROVE CommandInv'
    OBVIOUS
  <1> USE DEF screenVars, sessionVars, flagVars, workerVars
  <1>0. CommandTyped
    BY DEF Typed
  <1>1. ASSUME NEW c \in Threads, SetFlag(c) PROVE CommandInv'
    <2>1. canceller'[c].step = "groups" /\ UNCHANGED <<command, groups, worker>>
      BY <1>1 DEF SetFlag, Typed, PartiesTyped, Cancellers
    <2> QED BY <2>1 DEF CommandInv, CancelReachesTheCommand
  <1>2. ASSUME NEW c \in Threads, KillGroups(c) PROVE CommandInv'
    <2>1. /\ UNCHANGED <<groups, worker, flag>>
          /\ command'.pid = command.pid /\ command'.step = command.step
          /\ command'.alive <=> command.alive /\ command.pid \notin groups
      BY <1>0, <1>2 DEF KillGroups, CommandTyped
    <2> QED BY <2>1 DEF CommandInv, CancelReachesTheCommand
  <1>3. CASE StartMessage \/ \E t \in 1..MaxPrompts : StartPrompt(t)
    <2>1. worker # "turn" /\ worker' = "turn" /\ UNCHANGED command
      BY <1>3 DEF StartMessage, StartPrompt, Take, Begin
    <2> QED BY <2>1 DEF CommandInv, NoCommand, CancelReachesTheCommand
  <1>4. CASE Spawn
    BY <1>4 DEF Spawn, CommandInv, CancelReachesTheCommand
  <1>5. CASE RegisterPgid
    <2>1. /\ groups' = groups \cup {command.pid} /\ command'.pid = command.pid
          /\ command'.step = "registered" /\ UNCHANGED worker /\ worker = "turn"
      BY <1>0, <1>5 DEF RegisterPgid, CommandTyped, CommandInv
    <2> QED BY <2>1 DEF CommandInv, CancelReachesTheCommand
  <1>6. CASE Registered
    <2>1. /\ UNCHANGED <<groups, worker, flag>> /\ worker = "turn"
          /\ command'.pid = command.pid /\ command.pid \in groups
      BY <1>0, <1>6 DEF Registered, LookAgain, CommandTyped, CommandInv
    <2>2. command'.alive <=> command.alive /\ ~flag
      BY <1>0, <1>6 DEF Registered, LookAgain, CommandTyped
    <2> QED BY <2>1, <2>2 DEF CommandInv, CancelReachesTheCommand
  <1>7. CASE CommandEnds
    <2>1. command' = NoCommand
      BY <1>7 DEF CommandEnds
    <2> QED BY <2>1 DEF CommandInv, CancelReachesTheCommand, NoCommand
  <1>8. CASE UNCHANGED <<flag, groups, command>>
    <2>1. worker' # "turn" => command'.step = "none"
      <3>1. CASE TurnEnds
        BY <3>1 DEF TurnEnds, NoCommand
      <3>2. CASE UNCHANGED worker \/ worker # "turn"
        BY <1>8, <3>2 DEF CommandInv
      <3>3. UNCHANGED worker \/ worker # "turn" \/ TurnEnds
        <4>1. ASSUME NEW s \in Sessions,
                     \/ SendPrompt(s) \/ QueuePrompt(s) \/ PromptReturns(s) \/ PromptDone(s)
                     \/ Disconnect(s) \/ CancelCall(s)
              PROVE  UNCHANGED worker
          BY <4>1 DEF SendPrompt, QueuePrompt, PromptReturns, PromptDone, Disconnect, CancelCall
        <4>2. ASSUME NEW c \in Threads, Cancels(c) PROVE UNCHANGED worker
          BY <4>2 DEF Cancels, CancelTicket, SetFlag, KillGroups
        <4>3. ASSUME NEW t \in 1..MaxPrompts, StartPrompt(t) \/ SkipPrompt(t)
              PROVE  worker # "turn"
          BY <4>3 DEF StartPrompt, SkipPrompt, Take
        <4>4. CASE StartMessage \/ StartDraft \/ DraftEnds \/ Finish
          BY <4>4 DEF StartMessage, StartDraft, Take, DraftEnds, Finish
        <4>5. CASE \/ Submit \/ DraftCommit \/ Esc \/ SeeEvent
                   \/ Spawn \/ RegisterPgid \/ Registered \/ CommandEnds \/ UNCHANGED vars
          BY <4>5 DEF Submit, DraftCommit, Esc, SeeEvent, Spawn, RegisterPgid, Registered,
                      CommandEnds, vars
        <4> QED BY <4>1, <4>2, <4>3, <4>4, <4>5 DEF Next
      <3> QED BY <3>1, <3>2, <3>3
    <2>2. CASE \E c \in Threads : KillGroups(c)
      BY <1>2, <2>2
    <2>3. CASE \A c \in Threads : ~KillGroups(c)
      BY <1>8, <2>1, <2>3, KillersStay DEF CommandInv, CancelReachesTheCommand
    <2> QED BY <2>2, <2>3
  <1> QED
    BY <1>1, <1>2, <1>3, <1>4, <1>5, <1>6, <1>7, <1>8
    DEF Next, Cancels, vars, Submit, DraftCommit, Esc, SeeEvent, SendPrompt, QueuePrompt,
        PromptReturns, PromptDone, Disconnect, CancelCall, CancelTicket, SkipPrompt, StartDraft,
        DraftEnds, TurnEnds, Finish

\* A command that outlives a cancel is one some cancel is still about to
\* kill: none falls between the groups that were read and its registration.
THEOREM CancelsReachCommands == Spec => []CancelReachesTheCommand
  <1>1. Init => CommandInv
    BY DEF Init, CommandInv, CancelReachesTheCommand, NoCommand
  <1>2. CommandInv => CancelReachesTheCommand
    BY DEF CommandInv
  <1> QED BY InitTyped, NextTyped, CommandInvStays, <1>1, <1>2, PTL DEF Spec

-----------------------------------------------------------------------------
(* Whose prompt a connection that ends cancels.                            *)

\* The connection whose prompt is out owns the host, and the host's ticket is
\* its own; a connection that ends cancels only while it owns the host.
OwnerInv ==
    /\ \A s \in Sessions : owner = s <=> prompt[s] # "none"
    /\ owner # None => tickets[inbound].of = owner
    /\ \A s \in Sessions : canceller[s].step = "ticket" /\ ~canceller[s].then => owner = s

LEMMA OwnerInvStays == Typed /\ OwnerInv /\ [Next]_vars => OwnerInv'
  <1> SUFFICES ASSUME Typed, OwnerInv, [Next]_vars PROVE OwnerInv'
    OBVIOUS
  <1> USE ConstantsType DEF screenVars, sessionVars, flagVars, workerVars
  <1>0. /\ canceller \in [Threads -> Cancellers] /\ tickets \in [Tickets -> TicketStates]
        /\ prompt \in [Sessions -> {"none", "spawned", "waiting", "done"}]
        /\ inbound \in Tickets /\ Sessions \subseteq Threads /\ Screen \in Threads
    BY DEF Typed, PartiesTyped, Threads
  <1>1. ASSUME NEW s \in Sessions, SendPrompt(s) PROVE OwnerInv'
    <2>1. /\ owner = None /\ owner' = s /\ inbound' = inbound + 1 /\ inbound + 1 \in Tickets
          /\ UNCHANGED canceller /\ prompt' = [prompt EXCEPT ![s] = "spawned"]
      BY <1>0, <1>1 DEF SendPrompt, HostFree, Tickets
    <2>2. tickets'[inbound'].of = s
      BY <1>0, <1>1, <2>1 DEF SendPrompt, TicketStates
    <2>3. \A u \in Sessions : ~(canceller[u].step = "ticket" /\ ~canceller[u].then)
      BY <2>1 DEF OwnerInv
    <2>4. \A u \in Sessions : owner' = u <=> prompt'[u] # "none"
      BY <1>0, <2>1 DEF OwnerInv
    <2> QED BY <2>1, <2>2, <2>3, <2>4 DEF OwnerInv
  <1>2. ASSUME NEW s \in Sessions, QueuePrompt(s) \/ PromptReturns(s) PROVE OwnerInv'
    <2>1. /\ UNCHANGED <<owner, inbound, tickets, canceller>>
          /\ \A u \in Sessions : prompt'[u] # "none" <=> prompt[u] # "none"
      BY <1>0, <1>2 DEF QueuePrompt, PromptReturns
    <2> QED BY <2>1 DEF OwnerInv
  <1>3. ASSUME NEW s \in Sessions, PromptDone(s) PROVE OwnerInv'
    <2>1. /\ owner = s /\ owner' = None /\ UNCHANGED canceller /\ canceller[s] = Free
          /\ prompt' = [prompt EXCEPT ![s] = "none"]
      BY <1>3 DEF PromptDone, OwnerInv
    <2>2. \A u \in Sessions : owner' = u <=> prompt'[u] # "none"
      BY <1>0, <2>1 DEF OwnerInv
    <2>3. \A u \in Sessions : ~(canceller[u].step = "ticket" /\ ~canceller[u].then)
      BY <2>1 DEF OwnerInv, Free
    <2> QED BY <2>1, <2>2, <2>3 DEF OwnerInv
  <1>4. ASSUME NEW s \in Sessions, Disconnect(s) PROVE OwnerInv'
    <2>1. UNCHANGED <<owner, inbound, tickets, prompt>>
      BY <1>4 DEF Disconnect
    <2>2. canceller'[s].step = "ticket" => owner = s
      BY <1>0, <1>4 DEF Disconnect, OwnerInv, Cancellers
    <2>3. \A u \in Sessions \ {s} : canceller'[u] = canceller[u]
      BY <1>0, <1>4 DEF Disconnect
    <2> QED BY <2>1, <2>2, <2>3 DEF OwnerInv
  <1>5. ASSUME NEW s \in Sessions, CancelCall(s) PROVE OwnerInv'
    <2>1. /\ UNCHANGED <<owner, inbound, tickets, prompt>>
          /\ canceller'[s].then /\ \A u \in Sessions \ {s} : canceller'[u] = canceller[u]
      BY <1>0, <1>5 DEF CancelCall, Cancellers
    <2> QED BY <2>1 DEF OwnerInv
  <1>6. ASSUME NEW c \in Threads, Cancels(c) PROVE OwnerInv'
    <2>1. /\ UNCHANGED <<owner, inbound, prompt>> /\ tickets'[inbound].of = tickets[inbound].of
          /\ canceller'[c].step # "ticket"
          /\ \A d \in Threads \ {c} : canceller'[d] = canceller[d]
      <3>1. CASE CancelTicket(c)
        BY <1>0, <3>1 DEF CancelTicket, TicketStates, Cancellers, Free
      <3>2. CASE SetFlag(c)
        BY <1>0, <3>2 DEF SetFlag, Cancellers
      <3>3. CASE KillGroups(c)
        BY <1>0, <3>3 DEF KillGroups, Cancellers, Free
      <3> QED BY <1>6, <3>1, <3>2, <3>3 DEF Cancels
    <2> QED BY <1>0, <2>1 DEF OwnerInv
  <1>7. CASE Esc
    <2>1. /\ UNCHANGED <<owner, inbound, tickets, prompt>>
          /\ \A s \in Sessions : canceller'[s] = canceller[s]
      BY <1>0, <1>7 DEF Esc
    <2> QED BY <2>1 DEF OwnerInv
  <1>8. CASE (\E t \in 1..MaxPrompts : StartPrompt(t)) \/ Finish
    <2>1. UNCHANGED <<owner, inbound, prompt, canceller>>
      BY <1>8 DEF StartPrompt, Finish
    <2>2. tickets'[inbound].of = tickets[inbound].of
      <3>1. CASE Finish
        BY <1>0, <3>1 DEF Finish, TicketStates
      <3>2. ASSUME NEW t \in 1..MaxPrompts, StartPrompt(t)
            PROVE tickets'[inbound].of = tickets[inbound].of
        BY <1>0, <3>2 DEF StartPrompt, TicketStates
      <3> QED BY <1>8, <3>1, <3>2
    <2> QED BY <2>1, <2>2 DEF OwnerInv
  <1>9. CASE UNCHANGED <<owner, inbound, tickets, prompt, canceller>>
    BY <1>9 DEF OwnerInv
  <1> QED
    BY <1>1, <1>2, <1>3, <1>4, <1>5, <1>6, <1>7, <1>8, <1>9
    DEF Next, vars, Submit, DraftCommit, SeeEvent, StartMessage, SkipPrompt, Take, Begin, StartDraft,
        DraftEnds, Spawn, RegisterPgid, Registered, CommandEnds, TurnEnds

\* What a client that goes away cancels is the prompt it sent itself.
THEOREM DisconnectsStayTheirs == Spec => []DisconnectCancelsItsOwn
  <1>1. Init => OwnerInv
    BY ConstantsType DEF Init, OwnerInv, Free, Threads
  <1>2. OwnerInv => DisconnectCancelsItsOwn
    BY ConstantsType DEF OwnerInv, DisconnectCancelsItsOwn
  <1> QED BY InitTyped, NextTyped, OwnerInvStays, <1>1, <1>2, PTL DEF Spec
=============================================================================
