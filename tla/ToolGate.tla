------------------------------- MODULE ToolGate --------------------------------
(***************************************************************************)
(* How a tool call comes to run: the gate (tools/mod.rs, gated_execute)    *)
(* takes the policy's decision, the mode and what the user allowed for the *)
(* session, and asks where those do not settle it.  A request crosses a    *)
(* channel to the screen (user_io.rs), which shows one card at a time and  *)
(* sends the key pressed on it back through the request's own channel,     *)
(* while the asking thread waits, with a limit or without one.  Nobody     *)
(* takes a card down when its wait is over.                                *)
(*                                                                         *)
(* What the policy decides of a call's arguments is an input here.         *)
(* Requests are numbered in the order they are sent.  The cards of         *)
(* request_hat, update_rules and the audits, the password panel and MCP    *)
(* clients are left out; an Esc before its turn begins is Inbound's.       *)
(***************************************************************************)
EXTENDS Integers, Sequences

CONSTANTS
    Scopes,       \* what `a` can allow for the session: "edit", `cargo test`, ...
    None,
    Wait,         \* PERMISSION_WAIT, in ticks
    MaxRequests, MaxSessions   \* bounds

Answers == {"allow", "always", "deny", "text", "closed", "approve", "adjust", "reject"}

ASSUME ToolGateAssumption ==
    /\ "edit" \in Scopes /\ None \notin Scopes \cup Nat \cup Answers
    /\ Wait \in Nat \ {0}
    /\ MaxRequests \in Nat /\ MaxSessions \in Nat \ {0}

VARIABLES
    attended,  \* ctx.user_io is there
    mode,      \* ToolsMode
    allowed,   \* ctx.allowed
    session,   \* which session the agent works in
    phase,     \* where the turn is
    call,      \* the call it is at
    cancel,    \* the stop flag
    left,      \* what is left of the wait
    sent,      \* what each request sent so far is: "permission", "question", "plan"
    queue,     \* the channel to the screen
    card,      \* the request whose card is up, or None
    slot,      \* perm_reply, ask_reply, plan_reply: whose channel each holds, or None
    answer,    \* what is in the channel of the request waited on, or None
    pressed,   \* history: the key pressed on each request's card, or None
    granted,   \* history: each kind allowed for a session, where, and by which request
    last       \* history: the last call and how it ended

turn == <<phase, call, cancel, left>>
screen == <<queue, card, slot>>
vars == <<attended, mode, allowed, session, turn, sent, screen, answer, pressed, granted, last>>

-----------------------------------------------------------------------------
Requests == 1..MaxRequests
Kinds == {"permission", "question", "plan"}

\* A call as the policy sees it: decide() with what allow_scope() would offer.
Calls ==
    [tool : {"tool"}, decision : {"ask"}, scope : Scopes \cup {None}]
      \cup [tool : {"tool"}, decision : {"allow", "secret", "outside", "root", "deny"},
            scope : {None}]
      \cup [tool : {"question", "plan"}, decision : {"allow"}, scope : {None}]

\* With the mode that covers the project covering the rest of the machine.
SettledWrong(c) ==
    \/ c.decision = "allow"
    \/ c.decision \in {"ask", "secret", "outside"} /\ mode # "ask"
    \/ c.decision = "ask" /\ c.scope \in allowed

\* Runs without a question.
Settled(c) ==
    \/ c.decision = "allow"
    \/ c.decision \in {"ask", "secret", "outside"} /\ mode = "yolo"
    \/ c.decision = "ask" /\ (mode = "always" \/ c.scope \in allowed)

NoCall == [made |-> None, id |-> 0]
NothingYet == [made |-> None, id |-> 0, mode |-> None, ended |-> "none"]

Finish(how, next) ==
    /\ last' = [made |-> call.made, id |-> call.id, mode |-> mode, ended |-> how]
    /\ phase' = next
    /\ call' = NoCall

\* A request is sent, and the wait for its answer begins.
Send(kind, c) ==
    /\ Len(sent) < MaxRequests
    /\ sent' = Append(sent, kind)
    /\ queue' = Append(queue, Len(sent) + 1)
    /\ call' = [made |-> c, id |-> Len(sent) + 1]
    /\ left' = Wait
    /\ answer' = None
    /\ phase' = "waiting"
    /\ UNCHANGED <<attended, mode, allowed, session, cancel, card, slot, pressed, granted>>

-----------------------------------------------------------------------------
(* The turn.                                                               *)

Begin ==
    /\ phase = "idle"
    /\ phase' = "working" /\ cancel' = FALSE
    /\ last' = NothingYet
    /\ UNCHANGED <<attended, mode, allowed, session, call, left, sent, screen, answer, pressed,
                   granted>>

End ==
    /\ phase = "working"
    /\ phase' = "idle"
    /\ UNCHANGED <<attended, mode, allowed, session, call, cancel, left, sent, screen, answer,
                   pressed, granted, last>>

\* The policy refuses, or there is nobody to ask.
Refuse(c) ==
    /\ phase = "working" /\ ~cancel
    /\ c.decision = "deny" \/ (~Settled(c) /\ ~attended)
    /\ last' = [NothingYet EXCEPT !.ended = "refused"]
    /\ UNCHANGED <<attended, mode, allowed, session, turn, sent, screen, answer, pressed,
                   granted>>

Pass(c) ==
    /\ phase = "working" /\ ~cancel
    /\ Settled(c)
    /\ phase' = "hooks" /\ call' = [made |-> c, id |-> 0] /\ last' = NothingYet
    /\ UNCHANGED <<attended, mode, allowed, session, cancel, left, sent, screen, answer,
                   pressed, granted>>

AskPermission(c) ==
    /\ phase = "working" /\ ~cancel
    /\ c.decision # "deny" /\ ~Settled(c) /\ attended
    /\ Send("permission", c)
    /\ last' = NothingYet

\* A PreToolUse hook said no, or could not be run to its end.
HookDenies ==
    /\ phase = "hooks"
    /\ Finish("hook denied", "working")
    /\ UNCHANGED <<attended, mode, allowed, session, cancel, left, sent, screen, answer,
                   pressed, granted>>

Run ==
    /\ phase = "hooks" /\ call.made.tool = "tool"
    /\ \/ Finish("ran", "working")
       \/ cancel /\ Finish("cancelled", "idle")
    /\ UNCHANGED <<attended, mode, allowed, session, cancel, left, sent, screen, answer,
                   pressed, granted>>

\* ask_user and present_plan ask once the hooks have let them.
AskInCall ==
    /\ phase = "hooks" /\ call.made.tool # "tool" /\ attended
    /\ Send(call.made.tool, call.made)
    /\ UNCHANGED last

NobodyToAsk ==
    /\ phase = "hooks" /\ call.made.tool # "tool" /\ ~attended
    /\ Finish("refused", "working")
    /\ UNCHANGED <<attended, mode, allowed, session, cancel, left, sent, screen, answer,
                   pressed, granted>>

-----------------------------------------------------------------------------
(* The wait: user_io.rs, wait, and the loop of present_plan.               *)

Limited == call.made.tool # "plan"
Waits == phase = "waiting"

\* With the plan's own loop not looking at the flag.
WaitCancelledWrong ==
    /\ Waits /\ cancel /\ Limited
    /\ Finish("cancelled", "idle")
    /\ UNCHANGED <<attended, mode, allowed, session, cancel, left, sent, screen, answer,
                   pressed, granted>>

WaitCancelled ==
    /\ Waits /\ cancel
    /\ Finish("cancelled", "idle")
    /\ UNCHANGED <<attended, mode, allowed, session, cancel, left, sent, screen, answer,
                   pressed, granted>>

\* With a silence taken for a no.
WaitTimesOutWrong ==
    /\ Waits /\ ~cancel /\ Limited /\ left = 0
    /\ Finish(IF call.made.tool = "question" THEN "closed" ELSE "denied", "working")
    /\ UNCHANGED <<attended, mode, allowed, session, cancel, left, sent, screen, answer,
                   pressed, granted>>

\* The limit is looked at before the channel is: an answer that is there by
\* then is not taken.  A question nobody answers ends as one that was closed.
WaitTimesOut ==
    /\ Waits /\ ~cancel /\ Limited /\ left = 0
    /\ Finish(IF call.made.tool = "question" THEN "closed" ELSE "timed out", "working")
    /\ UNCHANGED <<attended, mode, allowed, session, cancel, left, sent, screen, answer,
                   pressed, granted>>

Taken == Waits /\ answer # None /\ (Limited => left > 0)

\* `a` allows the kind of action the card named for the session.
Grant(scope) ==
    /\ allowed' = allowed \cup {scope}
    /\ granted' = granted \cup {[scope |-> scope, id |-> call.id]}

PermissionTaken ==
    /\ Taken /\ call.made.tool = "tool"
    /\ \/ /\ answer \in {"allow", "always"}
          /\ IF answer = "always" /\ call.made.scope # None
             THEN Grant(call.made.scope) ELSE UNCHANGED <<allowed, granted>>
          /\ phase' = "hooks"
          /\ UNCHANGED <<call, last>>
       \/ /\ answer = "deny"
          /\ IF cancel THEN Finish("cancelled", "idle") ELSE Finish("denied", "working")
          /\ UNCHANGED <<allowed, granted>>
    /\ UNCHANGED <<attended, mode, session, cancel, left, sent, screen, answer, pressed>>

QuestionTaken ==
    /\ Taken /\ call.made.tool = "question"
    /\ IF cancel THEN Finish("cancelled", "idle")
       ELSE Finish(IF answer = "text" THEN "ran" ELSE "closed", "working")
    /\ UNCHANGED <<attended, mode, allowed, session, cancel, left, sent, screen, answer,
                   pressed, granted>>

\* An approved plan's edits are not asked about one by one.
PlanTaken ==
    /\ Taken /\ call.made.tool = "plan"
    /\ IF cancel THEN Finish("cancelled", "idle") /\ UNCHANGED <<allowed, granted>>
       ELSE \/ answer = "approve" /\ Grant("edit") /\ Finish("ran", "working")
            \/ /\ answer = "approve" /\ Finish("not saved", "working")
               /\ UNCHANGED <<allowed, granted>>
            \/ /\ answer = "adjust" /\ Finish("ran", "working")
               /\ UNCHANGED <<allowed, granted>>
            \/ /\ answer = "reject" /\ Finish("denied", "working")
               /\ UNCHANGED <<allowed, granted>>
    /\ UNCHANGED <<attended, mode, session, cancel, left, sent, screen, answer, pressed>>

\* With the limit counted only while the card is up.
TickWrong ==
    /\ Waits /\ Limited /\ left > 0
    /\ card = call.id
    /\ left' = left - 1
    /\ UNCHANGED <<attended, mode, allowed, session, phase, call, cancel, sent, screen, answer,
                   pressed, granted, last>>

\* With what is left not stopping at nothing.
TickPastWrong ==
    /\ Waits /\ Limited /\ left > -2
    /\ card # None \/ queue = <<>>
    /\ left' = left - 1
    /\ UNCHANGED <<attended, mode, allowed, session, phase, call, cancel, sent, screen, answer,
                   pressed, granted, last>>

\* Time passes.  The screen takes a request within a frame when no card is up.
Tick ==
    /\ Waits /\ Limited /\ left > 0
    /\ card # None \/ queue = <<>>
    /\ left' = left - 1
    /\ UNCHANGED <<attended, mode, allowed, session, phase, call, cancel, sent, screen, answer,
                   pressed, granted, last>>

-----------------------------------------------------------------------------
(* The screen.                                                             *)

\* drain_user_prompts: one card at a time.
Show ==
    /\ card = None /\ queue # <<>>
    /\ card' = Head(queue)
    /\ queue' = Tail(queue)
    /\ slot' = [slot EXCEPT ![sent[Head(queue)]] = Head(queue)]
    /\ UNCHANGED <<attended, mode, allowed, session, turn, sent, answer, pressed, granted, last>>

Keys(kind) ==
    CASE kind = "permission" -> {"allow", "always", "deny"}
      [] kind = "question" -> {"text", "closed"}
      [] kind = "plan" -> {"approve", "adjust", "reject"}

\* What a press puts in the channel waited on, from the reply it goes to.  A
\* channel whose request is given up takes nothing.
Through(reply, key) == IF phase = "waiting" /\ reply = call.id THEN key ELSE answer

\* The card closes and its answer goes where the reply of its kind points.
\* `a` is offered only where it allows something.
Press(key) ==
    /\ card # None
    /\ LET kind == sent[card]
       IN /\ key \in Keys(kind)
          /\ key = "always" /\ call.id = card => call.made.scope # None
          /\ answer' = Through(slot[kind], key)
          /\ slot' = [slot EXCEPT ![kind] = None]
    /\ pressed' = [pressed EXCEPT ![card] = key]
    /\ card' = None
    /\ UNCHANGED <<attended, mode, allowed, session, turn, sent, queue, granted, last>>

\* Ctrl+C, or Esc with no card up: the flag is set, then the open prompt is
\* answered so that nothing waits on it.
Stop ==
    /\ phase # "idle"
    /\ cancel' = TRUE
    /\ answer' = Through(slot["permission"], "deny")
    /\ slot' = [k \in Kinds |-> None]
    /\ card' = None
    /\ UNCHANGED <<attended, mode, allowed, session, phase, call, left, sent, queue,
                   pressed, granted, last>>

\* Ctrl+C on a card that outlived its turn closes it and no more.
CloseCard ==
    /\ phase = "idle" /\ card # None
    /\ card' = None
    /\ UNCHANGED <<attended, mode, allowed, session, turn, sent, queue, slot, answer,
                   pressed, granted, last>>

\* /tools: the worker applies it between turns.
SetTools(m) ==
    /\ phase = "idle" /\ mode # m
    /\ mode' = m
    /\ UNCHANGED <<attended, allowed, session, turn, sent, screen, answer, pressed, granted, last>>

\* /new and /resume: swap_session.
SwapSession ==
    /\ phase = "idle" /\ session < MaxSessions
    /\ session' = session + 1
    /\ UNCHANGED <<attended, mode, allowed, turn, sent, screen, answer, pressed, granted, last>>

-----------------------------------------------------------------------------
Init ==
    /\ attended \in BOOLEAN /\ mode \in {"ask", "always", "yolo"}
    /\ allowed = {} /\ session = 1
    /\ phase = "idle" /\ call = NoCall /\ cancel = FALSE /\ left = 0
    /\ sent = <<>> /\ queue = <<>> /\ card = None
    /\ slot = [k \in Kinds |-> None]
    /\ answer = None
    /\ pressed = [r \in Requests |-> None]
    /\ granted = {}
    /\ last = NothingYet

Turn ==
    \/ Begin \/ End
    \/ \E c \in Calls : Refuse(c) \/ Pass(c) \/ AskPermission(c)
    \/ HookDenies \/ Run \/ AskInCall \/ NobodyToAsk
    \/ WaitCancelled \/ WaitTimesOut \/ PermissionTaken \/ QuestionTaken \/ PlanTaken

Screen ==
    \/ Show \/ Stop \/ CloseCard \/ SwapSession
    \/ \E key \in UNION {Keys(k) : k \in Kinds} : Press(key)
    \/ \E m \in {"ask", "always", "yolo"} : SetTools(m)

Next == Turn \/ Screen \/ Tick

Spec == Init /\ [][Next]_vars

\* The tool thread goes on, its clock runs, and the screen draws its frames.
\* The user owes nobody an answer.
FairSpec == Spec /\ WF_vars(Turn) /\ WF_vars(Tick) /\ WF_vars(Show)

-----------------------------------------------------------------------------
TypeOK ==
    /\ attended \in BOOLEAN /\ mode \in {"ask", "always", "yolo"}
    /\ allowed \subseteq Scopes /\ session \in 1..MaxSessions
    /\ phase \in {"idle", "working", "hooks", "waiting"}
    /\ call \in [made : Calls \cup {None}, id : 0..Len(sent)]
    /\ phase \in {"hooks", "waiting"} => call.made \in Calls
    /\ cancel \in BOOLEAN /\ left \in 0..Wait
    /\ sent \in Seq(Kinds) /\ Len(sent) <= MaxRequests
    /\ queue \in Seq(1..Len(sent))
    /\ card \in 1..Len(sent) \cup {None}
    /\ slot \in [Kinds -> Requests \cup {None}]
    /\ answer \in Answers \cup {None}
    /\ pressed \in [Requests -> Answers \cup {None}]
    /\ granted \subseteq [scope : Scopes, id : Requests]

\* The user's answer allows it, on the call's own card.
SaidYes(id) == id # 0 /\ pressed[id] \in {"allow", "always"}

\* A call that ran was free to, or the user said yes to it on its own card,
\* or the mode covers it, or an earlier card allowed its kind.  The mode and
\* an earlier card cover what the gate asks inside the project; outside it
\* and a secret file take yolo, and root takes the user's own yes every time.
\* However many cards a wait has left behind and in whatever order answers,
\* limits, stops and cards come, no answer to one card lets another call run.
NothingRunsUnasked ==
    last.ended = "ran" /\ last.made.tool = "tool" =>
        \/ last.made.decision = "allow"
        \/ SaidYes(last.id)
        \/ last.mode = "yolo" /\ last.made.decision \in {"ask", "secret", "outside"}
        \/ last.mode = "always" /\ last.made.decision = "ask"
        \/ /\ last.made.decision = "ask"
           /\ \E g \in granted : /\ g.scope = last.made.scope
                               /\ pressed[g.id] \in {"always", "approve"}

\* "denied by user", or a plan rejected, is said to the model only of a call
\* whose own card the user answered so: never of a silence, a stopped turn or
\* an answer to another card.
DeniedMeansNo ==
    last.ended = "denied" => last.id # 0 /\ pressed[last.id] \in {"deny", "reject"}

\* A turn that is stopped ends, also where it waits for an answer that cannot
\* come any more: the cards are closed, and a plan has no limit.
StopEndsTheTurn == (cancel /\ phase # "idle") ~> phase = "idle"

\* A card nobody answers, or that is never put up since a dead one is in its
\* way, does not keep the turn: the wait ends.  A plan waits for its reader.
SilenceEnds == (phase = "waiting" /\ call.made.tool # "plan") ~> phase # "waiting"
=============================================================================
