------------------------------ MODULE TurnLoop ------------------------------
(***************************************************************************)
(* One user message, run to its end: the agent's rounds of request, reply  *)
(* and tool calls (agent.rs, turn_inner), with what stops them: the user's *)
(* Esc, the budget, the cap on rounds, replies cut off, calls repeated,    *)
(* errors; and with what makes them go on: a failing check.                *)
(*                                                                         *)
(* Of the transcript only what a provider rejects is kept: how many calls  *)
(* of the last reply have no answer yet, and whether an earlier reply was  *)
(* left with one.  A hat stands for the model it runs on.                  *)
(***************************************************************************)
EXTENDS Integers, FiniteSets

CONSTANTS
    Hats,         \* "build" and hats that may only look
    MaxRounds,    \* rounds one message may use (150 by default)
    MaxCutoffs,   \* cut-off replies in a row (3)
    RepeatStop,   \* the same call with the same result (5)
    CheckRounds,  \* rounds past "done" while the check fails (3 by default)
    Budget,       \* the session's budget, 0 for none
    Prices,       \* what a request may cost
    MaxCalls,     \* bound: calls in one reply
    MaxTurns,     \* bound: messages sent
    MaxFaults     \* bound: turns that die or fail on an I/O error

ASSUME TurnLoopAssumption ==
    /\ "build" \in Hats /\ IsFiniteSet(Hats)
    /\ {MaxRounds, MaxCutoffs, RepeatStop, MaxCalls} \subseteq Nat \ {0}
    /\ {CheckRounds, Budget, MaxTurns, MaxFaults} \subseteq Nat
    /\ Prices \subseteq Nat /\ IsFiniteSet(Prices) /\ Prices # {}

VARIABLES
    at,          \* where the turn is
    hat,         \* Agent::role
    cancel,      \* Cancel::flag
    round,       \* rounds begun
    unanswered,  \* calls of the newest reply that have no answer in the transcript
    gap,         \* an earlier reply has such a call
    left,        \* calls of this round still to run
    call,        \* the call that is running
    cut,         \* the reply hit the output limit
    cutoffs,     \* how many in a row did
    repeats,     \* how often the same call came to the same result
    edited,      \* `edited`: this round's edits landed somewhere
    last_check,  \* `last_check`: what the check after edits came to
    continued,   \* `continued`: rounds past "done"
    broken,      \* the check would fail on the files as they are
    bill,        \* Meta: spend_usd_total, spend_incomplete, unpriced_models
    turns, faults,
    paid,        \* history: what the requests cost
    seen         \* history: what the turn did and said

loop == <<round, cut, cutoffs, repeats, last_check, continued>>
transcript == <<unanswered, gap>>
vars == <<at, hat, cancel, round, unanswered, gap, left, call, cut, cutoffs, repeats, edited,
          last_check, continued, broken, bill, turns, faults, paid, seen>>

-----------------------------------------------------------------------------
Calls == {"look", "edit", "command", "hat", "scout"}
Ends == {"completed", "truncated", "cancelled", "rounds", "stuck", "budget", "failed"}

\* A message goes to the transcript: a reply with `calls`, or the user's.
Push(calls) ==
    /\ gap' = (gap \/ unanswered > 0)
    /\ unanswered' = calls

\* (The operators named ...Wrong are bugs this code could have had, for the
\* checks to find; nothing uses them.)
AnswerUnrunWrong(n) == unanswered' = unanswered - n - 1 /\ UNCHANGED gap

\* Agent::answer_unrun: each of the `n` calls that will not run is answered.
AnswerUnrun(n) == unanswered' = unanswered - n /\ UNCHANGED gap

End(how) == /\ at' = "idle"
            /\ seen' = [seen EXCEPT !.end = how]

\* admit_request, and over_budget alone.
OverBudget(b) == Budget > 0 /\ b.spent >= Budget
AdmittedWrong == ~OverBudget(bill)
Admitted == /\ ~OverBudget(bill)
            /\ Budget > 0 => ~bill.incomplete /\ hat \notin bill.unpriced

\* record_call: the cost is reported, or worked out from the usage; or the
\* model has no price; or the stream ended without its last word, with some
\* usage or with none.
Priced(p) == [bill EXCEPT !.spent = @ + p, !.unpriced = @ \ {hat}]
Unpriced == [bill EXCEPT !.unpriced = @ \cup {hat}]
LowerBound(p) == [Priced(p) EXCEPT !.incomplete = TRUE]
Missing == [Unpriced EXCEPT !.incomplete = TRUE]
CutShort(p) == {Priced(p), LowerBound(p), Missing}
Recorded(p) == CutShort(p) \cup {Unpriced}

Cost(p) == paid' = [paid EXCEPT !.all = @ + p]
CostUnseen(p) == paid' = [paid EXCEPT !.all = @ + p, !.unseen = @ + p]

-----------------------------------------------------------------------------
\* ... the transcript taken as it was left.
BeginTurnWrong(h) ==
    /\ at = "idle"
    /\ turns < MaxTurns
    /\ at' = "round" /\ hat' = h /\ cancel' = FALSE
    /\ round' = 0 /\ cutoffs' = 0 /\ repeats' = 0 /\ continued' = 0
    /\ last_check' = "none" /\ cut' = FALSE /\ edited' = FALSE
    /\ Push(0)
    /\ left' = 0 /\ call' = "none"
    /\ turns' = turns + 1
    /\ seen' = [end |-> "none", unchecked |-> FALSE, switched |-> FALSE]
    /\ UNCHANGED <<broken, bill, faults, paid>>

BeginTurn(h) ==
    /\ at = "idle"
    /\ turns < MaxTurns
    /\ at' = "round" /\ hat' = h /\ cancel' = FALSE
    /\ round' = 0 /\ cutoffs' = 0 /\ repeats' = 0 /\ continued' = 0
    /\ last_check' = "none" /\ cut' = FALSE /\ edited' = FALSE
    /\ unanswered' = 0 /\ gap' = FALSE      \* repair_unanswered, then the message
    /\ left' = 0 /\ call' = "none"
    /\ turns' = turns + 1
    /\ seen' = [end |-> "none", unchecked |-> FALSE, switched |-> FALSE]
    /\ UNCHANGED <<broken, bill, faults, paid>>

RoundsUsedUp ==
    /\ at = "round" /\ round = MaxRounds
    /\ End("rounds")
    /\ UNCHANGED <<hat, cancel, loop, transcript, left, call, edited, broken, bill,
                   turns, faults, paid>>

CancelledBeforeRequest ==
    /\ at = "round" /\ round < MaxRounds /\ cancel
    /\ End("cancelled")
    /\ UNCHANGED <<hat, cancel, loop, transcript, left, call, edited, broken, bill,
                   turns, faults, paid>>

NotAdmitted ==
    /\ at = "round" /\ round < MaxRounds /\ ~cancel
    /\ ~Admitted
    /\ End("budget")
    /\ UNCHANGED <<hat, cancel, loop, transcript, left, call, edited, broken, bill,
                   turns, faults, paid>>

SendRequest ==
    /\ at = "round" /\ round < MaxRounds /\ ~cancel
    /\ Admitted
    /\ at' = "sent"
    /\ round' = round + 1
    /\ edited' = FALSE
    /\ UNCHANGED <<hat, cancel, transcript, left, call, cut, cutoffs, repeats, last_check,
                   continued, broken, bill, turns, faults, paid, seen>>

-----------------------------------------------------------------------------
(* The reply.  The provider has the request from "sent" on; "streaming"    *)
(* begins with its answer's first byte.                                    *)

StreamOpens ==
    /\ at = "sent" /\ ~cancel
    /\ at' = "streaming"
    /\ UNCHANGED <<hat, cancel, loop, transcript, left, call, edited, broken, bill,
                   turns, faults, paid, seen>>

\* The request is refused: no connection, or an error status.
StreamRefused ==
    /\ at = "sent" /\ ~cancel
    /\ End("failed")
    /\ UNCHANGED <<hat, cancel, loop, transcript, left, call, edited, broken, bill,
                   turns, faults, paid>>

CancelledBeforeStream(p) ==
    /\ at = "sent" /\ cancel
    /\ CostUnseen(p)
    /\ End("cancelled")
    /\ UNCHANGED <<hat, cancel, loop, transcript, left, call, edited, broken, bill,
                   turns, faults>>

\* What came is recorded before the turn fails or is cancelled.
StreamCutShort(p) ==
    /\ at = "streaming"
    /\ bill' \in CutShort(p)
    /\ Cost(p)
    /\ End(IF cancel THEN "cancelled" ELSE "failed")
    /\ UNCHANGED <<hat, cancel, loop, transcript, left, call, edited, broken, turns,
                   faults>>

\* The whole reply came, and it took the session over its budget.
ReplyOverBudget(p) ==
    /\ at = "streaming" /\ ~cancel
    /\ bill' \in Recorded(p) /\ OverBudget(bill')
    /\ Cost(p)
    /\ End("budget")
    /\ UNCHANGED <<hat, cancel, loop, transcript, left, call, edited, broken, turns,
                   faults>>

\* The whole reply, with `n` calls whose arguments arrived whole.
Reply(p, n, limit) ==
    /\ at = "streaming" /\ ~cancel
    /\ bill' \in Recorded(p) /\ ~OverBudget(bill')
    /\ Cost(p)
    /\ cut' = limit
    /\ cutoffs' = IF limit THEN cutoffs + 1 ELSE 0
    /\ Push(n)
    /\ left' = n
    /\ at' = IF n = 0 THEN "answer" ELSE "calls"
    /\ UNCHANGED <<seen, hat, cancel, round, repeats, last_check, continued, call, edited,
                   broken, turns, faults>>

-----------------------------------------------------------------------------
(* A reply without calls.                                                  *)

Nudged == cut /\ cutoffs < MaxCutoffs

SmallerSteps ==
    /\ at = "answer" /\ Nudged
    /\ Push(0)
    /\ at' = "round"
    /\ UNCHANGED <<hat, cancel, loop, left, call, edited, broken, bill, turns, faults,
                   paid, seen>>

CancelledAtAnswer ==
    /\ at = "answer" /\ ~Nudged /\ cancel
    /\ End("cancelled")
    /\ UNCHANGED <<hat, cancel, loop, transcript, left, call, edited, broken, bill,
                   turns, faults, paid>>

\* "Done" in the build hat with the check failing.
StillFails == ~cut /\ hat = "build" /\ last_check = "failed"

NotDone ==
    /\ at = "answer" /\ ~Nudged /\ ~cancel
    /\ StillFails
    /\ continued < CheckRounds
    /\ continued' = continued + 1
    /\ Push(0)
    /\ at' = "round"
    /\ UNCHANGED <<hat, cancel, round, cut, cutoffs, repeats, last_check, left, call, edited,
                   broken, bill, turns, faults, paid, seen>>

\* `blocked`: the model says in a line of its own what is in the way.
Finish(blocked) ==
    /\ at = "answer" /\ ~Nudged /\ ~cancel
    /\ StillFails => blocked \/ continued >= CheckRounds
    /\ at' = "idle"
    /\ seen' = [seen EXCEPT !.end = IF cut THEN "truncated"
                                    ELSE IF StillFails /\ blocked THEN "blocked" ELSE "completed"]
    /\ UNCHANGED <<hat, cancel, loop, transcript, left, call, edited, broken, bill,
                   turns, faults, paid>>

-----------------------------------------------------------------------------
(* The calls of a reply, one after the other.  Each gets its answer.       *)

CancelledBetweenCalls ==
    /\ at = "calls" /\ left > 0 /\ cancel
    /\ AnswerUnrun(left)
    /\ End("cancelled")
    /\ UNCHANGED <<hat, cancel, loop, left, call, edited, broken, bill, turns, faults,
                   paid>>

\* Only the build hat's calls may change files; a scout is another hat's.
StartCall(c) ==
    /\ at = "calls" /\ left > 0 /\ ~cancel
    /\ c = "edit" => hat = "build"
    /\ c = "scout" => hat # "build"
    /\ at' = "running"
    /\ call' = c
    /\ UNCHANGED <<hat, cancel, loop, transcript, left, edited, broken, bill, turns,
                   faults, paid, seen>>

\* The scout's own requests are admitted and recorded like the hat's.
ScoutRequest(p) ==
    /\ at = "running" /\ call = "scout" /\ ~cancel
    /\ Admitted
    /\ bill' \in Recorded(p)
    /\ Cost(p)
    /\ UNCHANGED <<at, hat, cancel, loop, transcript, left, call, edited, broken, turns,
                   faults, seen>>

\* Esc comes after one is sent, and before its answer begins.
ScoutCancelled(p) ==
    /\ at = "running" /\ call = "scout" /\ ~cancel
    /\ Admitted
    /\ cancel' = TRUE
    /\ CostUnseen(p)
    /\ UNCHANGED <<at, hat, loop, transcript, left, call, edited, broken, bill, turns,
                   faults, seen>>

\* ... the calls after it forgotten.
AnsweredWrong(n) ==
    /\ repeats' = IF call = "edit" \/ n > repeats THEN n ELSE repeats
    /\ AnswerUnrun(1)
    /\ left' = left - 1
    /\ at' = IF n >= RepeatStop THEN "idle" ELSE "calls"

\* The call's answer.  It is the `n`th time this call came to this result; an
\* edit makes every other call worth making again.  Repeated too often, it
\* ends the turn, and the calls after it are answered too.
Answered(n) ==
    /\ repeats' = IF call = "edit" \/ n > repeats THEN n ELSE repeats
    /\ AnswerUnrun(IF n >= RepeatStop THEN left ELSE 1)
    /\ left' = left - 1
    /\ at' = IF n >= RepeatStop THEN "idle" ELSE "calls"

\* What the calls leave: an edit or a command leaves the files passing or
\* failing the check, the check says which, the user lets the hat change.
CallDone(n, fails, h) ==
    /\ at = "running"
    /\ call = "scout" => ~OverBudget(bill)
    /\ n <= repeats + 1
    /\ Answered(n)
    /\ fails # broken => call \in {"edit", "command"} /\ hat = "build"
    /\ h # hat => call = "hat"
    /\ broken' = fails
    /\ hat' = h
    /\ edited' = (edited \/ call = "edit")
    /\ call' = "none"
    /\ seen' = [seen EXCEPT !.unchecked = @ \/ call = "edit",
                            !.switched = @ \/ h # hat,
                            !.end = IF at' = "idle" THEN "stuck" ELSE @]
    /\ UNCHANGED <<cancel, round, cut, cutoffs, last_check, continued, bill, turns, faults, paid>>

\* ... a question about changing hats waited for to its end.
CancelledInCallWrong ==
    /\ at = "running" /\ cancel
    /\ call # "hat"
    /\ AnswerUnrun(left)
    /\ End("cancelled")
    /\ UNCHANGED <<hat, cancel, loop, left, call, edited, broken, bill, turns, faults,
                   paid>>

\* Esc while it ran: the process group is killed, the question closed, the
\* scout's stream dropped.
CancelledInCall ==
    /\ at = "running" /\ cancel
    /\ AnswerUnrun(left)
    /\ End("cancelled")
    /\ UNCHANGED <<hat, cancel, loop, left, call, edited, broken, bill, turns, faults,
                   paid>>

\* An error of the call itself: a scout's budget or its accounting.
CallFails ==
    /\ at = "running" /\ call = "scout"
    /\ ~Admitted
    /\ AnswerUnrun(left)
    /\ End("budget")
    /\ UNCHANGED <<hat, cancel, loop, left, call, edited, broken, bill, turns, faults,
                   paid>>

\* ... the next request sent at once after a reply cut off.
CallsDoneWrong ==
    /\ at = "calls" /\ left = 0
    /\ IF Nudged THEN Push(0) ELSE UNCHANGED transcript
    /\ at' = IF hat = "build" /\ edited /\ ~Nudged THEN "check" ELSE "round"
    /\ UNCHANGED <<hat, cancel, loop, left, call, edited, broken, bill, turns, faults,
                   paid, seen>>

CallsDone ==
    /\ at = "calls" /\ left = 0
    /\ IF Nudged THEN Push(0) ELSE UNCHANGED transcript
    /\ at' = IF hat = "build" /\ edited THEN "check" ELSE "round"
    /\ UNCHANGED <<hat, cancel, loop, left, call, edited, broken, bill, turns, faults,
                   paid, seen>>

-----------------------------------------------------------------------------
(* check_after_edits: the project's approved check after a round of edits. *)

CheckRan ==
    /\ at = "check" /\ ~cancel
    /\ last_check' = IF broken THEN "failed" ELSE "passed"
    /\ Push(0)
    /\ at' = "round"
    /\ seen' = [seen EXCEPT !.unchecked = FALSE]
    /\ UNCHANGED <<hat, cancel, round, cut, cutoffs, repeats, continued, left, call, edited,
                   broken, bill, turns, faults, paid>>

\* A hook denies it, or its program is not on this machine.
CheckDidNotRun ==
    /\ at = "check" /\ ~cancel
    /\ last_check' = "none"
    /\ Push(0)
    /\ at' = "round"
    /\ seen' = [seen EXCEPT !.unchecked = FALSE]
    /\ UNCHANGED <<hat, cancel, round, cut, cutoffs, repeats, continued, left, call, edited,
                   broken, bill, turns, faults, paid>>

CheckCancelled ==
    /\ at = "check" /\ cancel
    /\ End("cancelled")
    /\ UNCHANGED <<hat, cancel, loop, transcript, left, call, edited, broken, bill,
                   turns, faults, paid>>

-----------------------------------------------------------------------------
(* From outside.                                                           *)

\* The process dies and the session is resumed, or a write fails and the
\* error ends the turn on the spot.
CutOff(p) ==
    /\ at # "idle"
    /\ faults < MaxFaults
    /\ faults' = faults + 1
    /\ IF at \in {"sent", "streaming"} THEN CostUnseen(p) ELSE UNCHANGED paid
    /\ End("failed")
    /\ UNCHANGED <<hat, cancel, loop, transcript, left, call, edited, broken, bill, turns>>

Esc == /\ at # "idle" /\ ~cancel
       /\ cancel' = TRUE
       /\ UNCHANGED <<at, hat, loop, transcript, left, call, edited, broken, bill, turns,
                      faults, paid, seen>>

\* The user's editor makes the check pass, or fail.
UserEdit ==
    /\ broken' = ~broken
    /\ UNCHANGED <<at, hat, cancel, loop, transcript, left, call, edited, bill, turns,
                   faults, paid, seen>>

Init ==
    /\ at = "idle" /\ hat = "build" /\ cancel = FALSE
    /\ round = 0 /\ unanswered = 0 /\ gap = FALSE /\ left = 0 /\ call = "none"
    /\ cut = FALSE /\ cutoffs = 0 /\ repeats = 0 /\ edited = FALSE
    /\ last_check = "none" /\ continued = 0 /\ broken = FALSE
    /\ bill = [spent |-> 0, incomplete |-> FALSE, unpriced |-> {}]
    /\ turns = 0 /\ faults = 0
    /\ paid = [all |-> 0, unseen |-> 0]
    /\ seen = [end |-> "none", unchecked |-> FALSE, switched |-> FALSE]

\* The steps the agent takes by itself, with nothing to wait for.
Own ==
    \/ RoundsUsedUp \/ CancelledBeforeRequest \/ NotAdmitted \/ SendRequest
    \/ SmallerSteps \/ CancelledAtAnswer \/ NotDone \/ Finish(FALSE)
    \/ CancelledBetweenCalls \/ \E c \in Calls : StartCall(c)
    \/ CallsDone

\* ... and those by which it notices Esc while it waits.
Notices ==
    \/ \E p \in Prices : CancelledBeforeStream(p)
    \/ at = "streaming" /\ cancel /\ \E p \in Prices : StreamCutShort(p)
    \/ CancelledInCall
    \/ CheckCancelled

Next ==
    \/ Own
    \/ Notices
    \/ \E h \in Hats : BeginTurn(h)
    \/ StreamOpens
    \/ StreamRefused
    \/ \E p \in Prices : StreamCutShort(p)
    \/ \E p \in Prices : ReplyOverBudget(p)
    \/ \E p \in Prices, n \in 0..MaxCalls, limit \in BOOLEAN : Reply(p, n, limit)
    \/ Finish(TRUE)
    \/ \E p \in Prices : ScoutRequest(p)
    \/ \E p \in Prices : ScoutCancelled(p)
    \/ \E n \in 1..RepeatStop, fails \in BOOLEAN, h \in Hats : CallDone(n, fails, h)
    \/ CallFails
    \/ CheckRan
    \/ CheckDidNotRun
    \/ \E p \in Prices : CutOff(p)
    \/ Esc
    \/ UserEdit

Spec == Init /\ [][Next]_vars

\* The agent's own steps are taken.  Nothing is assumed of the provider, of
\* a command or of the user, who may leave it waiting for ever.
FairSpec == Spec /\ WF_vars(Own) /\ WF_vars(Notices)

-----------------------------------------------------------------------------
TypeOK ==
    /\ at \in {"idle", "round", "sent", "streaming", "answer", "calls", "running", "check"}
    /\ hat \in Hats /\ cancel \in BOOLEAN /\ cut \in BOOLEAN /\ edited \in BOOLEAN
    /\ round \in 0..MaxRounds /\ cutoffs \in 0..MaxRounds /\ repeats \in 0..RepeatStop
    /\ continued \in 0..CheckRounds
    /\ left \in 0..MaxCalls /\ unanswered \in 0..MaxCalls /\ gap \in BOOLEAN
    /\ call \in Calls \cup {"none"}
    /\ last_check \in {"none", "passed", "failed"} /\ broken \in BOOLEAN
    /\ bill \in [spent : Nat, incomplete : BOOLEAN, unpriced : SUBSET Hats]
    /\ turns \in 0..MaxTurns /\ faults \in 0..MaxFaults
    /\ paid \in [all : Nat, unseen : Nat]
    /\ seen \in [end : Ends \cup {"none", "blocked"}, unchecked : BOOLEAN,
                 switched : BOOLEAN]

\* Every request a provider gets has an answer, in its place, to each call of
\* each reply before it ("or the provider rejects the transcript"), however
\* the turns before it ended: cancelled between calls or in one, stuck, out
\* of budget, failed or cut off by the end of the process.
RequestsAreAnswered == at \in {"sent", "streaming"} => unanswered = 0 /\ ~gap

\* A turn that ends by itself leaves no call open: only an I/O error and the
\* end of the process do, and the next turn repairs those.
TurnsCloseTheirCalls ==
    at = "idle" /\ seen.end \notin {"none", "failed"} => unanswered = 0 /\ ~gap

\* docs/guide.md, "the call that crosses the cap finishes and can pass it by
\* its own cost": beyond that, a session pays only for what it could not
\* see, one reply for each model without a price and the requests whose cost
\* never arrived.
OverrunIsBounded ==
    Budget > 0 =>
        \E p \in Prices :
            paid.all - paid.unseen < Budget + p * (1 + Cardinality(bill.unpriced))

\* Done means checked: a build turn that ends as completed has had the
\* check look at its files since its last edit, unless it changed hats.
DoneIsChecked ==
    at = "idle" /\ seen.end = "completed" /\ ~seen.switched => ~seen.unchecked

\* Esc ends the turn, whatever it is waiting for: a provider that never
\* answers, a command that never ends, a question nobody answers.
CancelEndsTheTurn == cancel ~> at = "idle"
=============================================================================
