--------------------------- MODULE TurnLoop_proofs ---------------------------
(* Proofs about TurnLoop, for any hats, caps, prices, budget and number of  *)
(* messages.                                                                *)
EXTENDS TurnLoop, FiniteSetTheorems, TLAPS

LEMMA ConstantsType ==
    /\ "build" \in Hats
    /\ MaxRounds \in Nat \ {0} /\ MaxCutoffs \in Nat \ {0} /\ RepeatStop \in Nat \ {0}
    /\ MaxCalls \in Nat \ {0}
    /\ CheckRounds \in Nat /\ Budget \in Nat /\ MaxTurns \in Nat /\ MaxFaults \in Nat
    /\ Prices \subseteq Nat
  BY TurnLoopAssumption

-----------------------------------------------------------------------------
(* Types: the counters, the bill, and what the turn did.                   *)

\* A request that is out has a round to itself, so that cut-off replies are
\* never more than rounds.
Counters ==
    /\ round \in 0..MaxRounds
    /\ cutoffs \in Nat /\ cutoffs <= round
    /\ at \in {"sent", "streaming"} => cutoffs < round
    /\ repeats \in 0..RepeatStop /\ continued \in 0..CheckRounds
    /\ turns \in 0..MaxTurns /\ faults \in 0..MaxFaults

Bills == [spent : Nat, incomplete : BOOLEAN, unpriced : SUBSET Hats]

Money ==
    /\ hat \in Hats
    /\ bill \in Bills
    /\ paid \in [all : Nat, unseen : Nat]

Flags ==
    /\ at \in {"idle", "round", "sent", "streaming", "answer", "calls", "running", "check"}
    /\ cancel \in BOOLEAN /\ cut \in BOOLEAN /\ edited \in BOOLEAN /\ broken \in BOOLEAN
    /\ call \in Calls \cup {"none"}
    /\ last_check \in {"none", "passed", "failed"}

Seen == [end : Ends \cup {"none", "blocked"}, unchecked : BOOLEAN,
         switched : BOOLEAN]

SeenTyped == seen \in Seen

LEMMA EndType ==
    ASSUME NEW s \in Seen, NEW how \in Ends \cup {"none", "blocked"}
    PROVE  /\ [s EXCEPT !.end = how] \in Seen
           /\ [s EXCEPT !.end = how].end = how
           /\ [s EXCEPT !.end = how].unchecked = s.unchecked
           /\ [s EXCEPT !.end = how].switched = s.switched
  BY DEF Seen

LEMMA CountersStay == Counters /\ [Next]_vars => Counters'
  <1> SUFFICES ASSUME Counters, [Next]_vars PROVE Counters'
    OBVIOUS
  <1> USE ConstantsType DEF Counters, loop, transcript
  <1>1. ASSUME NEW h \in Hats, BeginTurn(h) PROVE Counters'
    BY <1>1 DEF BeginTurn
  <1>2. CASE SendRequest
    BY <1>2 DEF SendRequest
  <1>3. CASE StreamOpens
    BY <1>3 DEF StreamOpens
  <1>4. ASSUME NEW p \in Prices, NEW n \in 0..MaxCalls, NEW limit \in BOOLEAN, Reply(p, n, limit)
        PROVE  Counters'
    BY <1>4 DEF Reply
  <1>5. CASE NotDone
    BY <1>5 DEF NotDone
  <1>6. ASSUME NEW n \in 1..RepeatStop, NEW fails \in BOOLEAN, NEW h \in Hats, CallDone(n, fails, h)
        PROVE  Counters'
    BY <1>6 DEF CallDone, Answered
  <1>7. ASSUME NEW p \in Prices, CutOff(p) PROVE Counters'
    BY <1>7 DEF CutOff, End
  <1>8. CASE CheckRan \/ CheckDidNotRun
    BY <1>8 DEF CheckRan, CheckDidNotRun
  <1>9. CASE Esc \/ UserEdit \/ UNCHANGED vars
    BY <1>9 DEF Esc, UserEdit, vars
  <1>10. ASSUME NEW p \in Prices,
                StreamCutShort(p) \/ ReplyOverBudget(p) \/ CancelledBeforeStream(p)
                  \/ ScoutRequest(p) \/ ScoutCancelled(p)
         PROVE  Counters'
    BY <1>10 DEF StreamCutShort, ReplyOverBudget, CancelledBeforeStream, ScoutRequest,
                 ScoutCancelled, End
  <1>11. CASE \/ RoundsUsedUp \/ CancelledBeforeRequest \/ NotAdmitted \/ SmallerSteps
              \/ CancelledAtAnswer \/ (\E b \in BOOLEAN : Finish(b)) \/ CancelledBetweenCalls
              \/ CallsDone \/ CancelledInCall \/ CheckCancelled \/ StreamRefused \/ CallFails
    BY <1>11 DEF RoundsUsedUp, CancelledBeforeRequest, NotAdmitted, SmallerSteps,
                 CancelledAtAnswer, Finish, CancelledBetweenCalls, CallsDone, CancelledInCall,
                 CheckCancelled, StreamRefused, CallFails, End
  <1>12. CASE \E c \in Calls : StartCall(c)
    BY <1>12 DEF StartCall
  <1> QED
    BY <1>1, <1>2, <1>3, <1>4, <1>5, <1>6, <1>7, <1>8, <1>9, <1>10, <1>11, <1>12
    DEF Next, Own, Notices

LEMMA MoneyStays == Money /\ [Next]_vars => Money'
  <1> SUFFICES ASSUME Money, [Next]_vars PROVE Money'
    OBVIOUS
  <1> USE ConstantsType DEF loop, transcript
  <1>0. ASSUME NEW p \in Prices PROVE Recorded(p) \subseteq Bills /\ CutShort(p) \subseteq Bills
    <2>1. Priced(p) \in Bills /\ Unpriced \in Bills
      <3>1. /\ bill.spent + p \in Nat
            /\ bill.unpriced \ {hat} \in SUBSET Hats /\ bill.unpriced \cup {hat} \in SUBSET Hats
        BY DEF Money, Bills
      <3> QED BY <3>1 DEF Money, Bills, Priced, Unpriced
    <2>2. \A b \in Bills : [b EXCEPT !.incomplete = TRUE] \in Bills
      BY DEF Bills
    <2> QED BY <2>1, <2>2 DEF Recorded, CutShort, LowerBound, Missing
  <1>1. ASSUME NEW p \in Prices
        PROVE  /\ [paid EXCEPT !.all = @ + p] \in [all : Nat, unseen : Nat]
               /\ [paid EXCEPT !.all = @ + p, !.unseen = @ + p] \in [all : Nat, unseen : Nat]
    <2>1. paid.all + p \in Nat /\ paid.unseen + p \in Nat
      BY DEF Money
    <2> QED BY <2>1 DEF Money
  <1>2. hat' \in Hats
    <2>1. CASE \E h \in Hats : BeginTurn(h)
      BY <2>1 DEF BeginTurn
    <2>2. CASE \E n \in 1..RepeatStop, fails \in BOOLEAN, h \in Hats : CallDone(n, fails, h)
      BY <2>2 DEF CallDone
    <2>3. CASE UNCHANGED hat
      BY <2>3 DEF Money
    <2> QED
      BY <2>1, <2>2, <2>3 DEF Next, Own, Notices, vars, RoundsUsedUp,
           CancelledBeforeRequest, NotAdmitted, SendRequest, SmallerSteps, CancelledAtAnswer,
           NotDone, Finish, CancelledBetweenCalls, StartCall, CallsDone, CancelledBeforeStream,
           StreamCutShort, CancelledInCall, CheckCancelled, StreamOpens, StreamRefused,
           ReplyOverBudget, Reply, ScoutRequest, ScoutCancelled, CallFails, CheckRan,
           CheckDidNotRun, CutOff, Esc, UserEdit
  <1>3. bill' \in Bills
    BY <1>0 DEF Money, Next, Own, Notices, vars, BeginTurn, CallDone, RoundsUsedUp,
           CancelledBeforeRequest, NotAdmitted, SendRequest, SmallerSteps, CancelledAtAnswer,
           NotDone, Finish, CancelledBetweenCalls, StartCall, CallsDone, CancelledBeforeStream,
           StreamCutShort, CancelledInCall, CheckCancelled, StreamOpens, StreamRefused,
           ReplyOverBudget, Reply, ScoutRequest, ScoutCancelled, CallFails, CheckRan,
           CheckDidNotRun, CutOff, Esc, UserEdit
  <1>4. paid' \in [all : Nat, unseen : Nat]
    BY <1>1 DEF Money, Next, Own, Notices, vars, BeginTurn, CallDone, RoundsUsedUp,
           CancelledBeforeRequest, NotAdmitted, SendRequest, SmallerSteps, CancelledAtAnswer,
           NotDone, Finish, CancelledBetweenCalls, StartCall, CallsDone, CancelledBeforeStream,
           StreamCutShort, CancelledInCall, CheckCancelled, StreamOpens, StreamRefused,
           ReplyOverBudget, Reply, ScoutRequest, ScoutCancelled, CallFails, CheckRan,
           CheckDidNotRun, CutOff, Esc, UserEdit, Cost, CostUnseen
  <1> QED BY <1>2, <1>3, <1>4 DEF Money

\* What the turn did so far, and how it ended: a step ends it, adds to what it
\* did, or leaves it.
LEMMA SeenStays == SeenTyped /\ [Next]_vars => SeenTyped'
  <1> SUFFICES ASSUME seen \in Seen, [Next]_vars PROVE seen' \in Seen
    BY DEF SeenTyped
  <1>1. CASE \E h \in Hats : BeginTurn(h)
    BY <1>1 DEF BeginTurn, Seen
  <1>2. ASSUME NEW p \in Prices, NEW n \in 0..MaxCalls, NEW limit \in BOOLEAN, Reply(p, n, limit)
        PROVE  seen' \in Seen
    BY <1>2 DEF Reply
  <1>3. ASSUME NEW b \in BOOLEAN, Finish(b) PROVE seen' \in Seen
    <2>1. PICK how \in {"truncated", "blocked", "completed"} : seen' = [seen EXCEPT !.end = how]
      BY <1>3 DEF Finish
    <2> QED BY <2>1, EndType DEF Ends
  <1>4. ASSUME NEW n \in 1..RepeatStop, NEW fails \in BOOLEAN, NEW h \in Hats, CallDone(n, fails, h)
        PROVE  seen' \in Seen
    <2>1. /\ (seen.unchecked \/ call = "edit") \in BOOLEAN
          /\ (seen.switched \/ h # hat) \in BOOLEAN
          /\ (IF at' = "idle" THEN "stuck" ELSE seen.end) \in Ends \cup {"none", "blocked"}
      BY DEF Seen, Ends
    <2> QED BY <1>4, <2>1 DEF CallDone, Seen
  <1>5. CASE CheckRan \/ CheckDidNotRun
    BY <1>5 DEF CheckRan, CheckDidNotRun, Seen
  <1>6. CASE \E how \in Ends : End(how)
    BY <1>6, EndType DEF End
  <1>7. CASE UNCHANGED seen
    BY <1>7
  <1> QED
    BY <1>1, <1>2, <1>3, <1>4, <1>5, <1>6, <1>7
    DEF Ends, Next, Own, Notices, vars, RoundsUsedUp, CancelledBeforeRequest, NotAdmitted,
        SendRequest, SmallerSteps, CancelledAtAnswer, NotDone, CancelledBetweenCalls, StartCall,
        CallsDone, CancelledBeforeStream, StreamCutShort, CancelledInCall, CheckCancelled,
        StreamOpens, StreamRefused, ReplyOverBudget, ScoutRequest, ScoutCancelled, CallFails,
        CutOff, Esc, UserEdit

LEMMA FlagsStay == Flags /\ [Next]_vars => Flags'
  <1> SUFFICES ASSUME Flags, [Next]_vars PROVE Flags'
    OBVIOUS
  <1> USE DEF Flags, loop, transcript
  <1>1. ASSUME NEW h \in Hats, BeginTurn(h) PROVE Flags'
    BY <1>1 DEF BeginTurn
  <1>2. ASSUME NEW p \in Prices, NEW n \in 0..MaxCalls, NEW limit \in BOOLEAN, Reply(p, n, limit)
        PROVE  Flags'
    BY <1>2 DEF Reply
  <1>3. ASSUME NEW n \in 1..RepeatStop, NEW fails \in BOOLEAN, NEW h \in Hats, CallDone(n, fails, h)
        PROVE  Flags'
    <2>1. edited' \in BOOLEAN
      BY <1>3 DEF CallDone
    <2> QED BY <1>3, <2>1 DEF CallDone, Answered
  <1>4. CASE \E c \in Calls : StartCall(c)
    BY <1>4 DEF StartCall
  <1>5. CASE UserEdit
    BY <1>5 DEF UserEdit
  <1>6. CASE Esc \/ \E p \in Prices : ScoutCancelled(p)
    BY <1>6 DEF Esc, ScoutCancelled
  <1>7. CASE SendRequest \/ StreamOpens \/ CheckRan \/ CheckDidNotRun \/ CallsDone
    BY <1>7 DEF SendRequest, StreamOpens, CheckRan, CheckDidNotRun, CallsDone
  <1>8. CASE \/ RoundsUsedUp \/ CancelledBeforeRequest \/ NotAdmitted \/ SmallerSteps \/ NotDone
             \/ CancelledAtAnswer \/ (\E b \in BOOLEAN : Finish(b)) \/ CancelledBetweenCalls
             \/ CancelledInCall \/ CheckCancelled \/ StreamRefused \/ CallFails \/ UNCHANGED vars
    BY <1>8 DEF RoundsUsedUp, CancelledBeforeRequest, NotAdmitted, SmallerSteps, NotDone,
                CancelledAtAnswer, Finish, CancelledBetweenCalls, CancelledInCall, CheckCancelled,
                StreamRefused, CallFails, End, vars
  <1>9. CASE \E p \in Prices : \/ StreamCutShort(p) \/ ReplyOverBudget(p)
                               \/ CancelledBeforeStream(p) \/ ScoutRequest(p) \/ CutOff(p)
    BY <1>9 DEF StreamCutShort, ReplyOverBudget, CancelledBeforeStream, ScoutRequest, CutOff, End
  <1> QED
    BY <1>1, <1>2, <1>3, <1>4, <1>5, <1>6, <1>7, <1>8, <1>9 DEF Next, Own, Notices

-----------------------------------------------------------------------------
(* The transcript: whose calls have no answer yet, at each place.          *)

\* While calls are being run, the newest reply lacks the answers of those
\* left; everywhere else, and after every end but an error's, nothing lacks.
Paired ==
    /\ left \in 0..MaxCalls /\ unanswered \in 0..MaxCalls /\ gap \in BOOLEAN
    /\ at \in {"round", "sent", "streaming", "answer", "check"} => unanswered = 0 /\ ~gap
    /\ at \in {"calls", "running"} => unanswered = left /\ ~gap
    /\ at = "running" => left > 0
    /\ TurnsCloseTheirCalls

LEMMA PairedStays == SeenTyped /\ Paired /\ [Next]_vars => Paired'
  <1> SUFFICES ASSUME seen \in Seen, Paired, [Next]_vars PROVE Paired'
    BY DEF SeenTyped
  <1> USE ConstantsType DEF Paired, TurnsCloseTheirCalls, loop, transcript
  <1>1. ASSUME NEW h \in Hats, BeginTurn(h) PROVE Paired'
    <2>1. gap' \in BOOLEAN /\ ~gap'
      BY <1>1, Zenon DEF BeginTurn
    <2> QED BY <1>1, <2>1 DEF BeginTurn
  <1>2. ASSUME NEW p \in Prices, NEW n \in 0..MaxCalls, NEW limit \in BOOLEAN, Reply(p, n, limit)
        PROVE  Paired'
    BY <1>2 DEF Reply, Push
  <1>3. CASE SendRequest \/ StreamOpens \/ UNCHANGED vars \/ UserEdit
    BY <1>3 DEF SendRequest, StreamOpens, vars, UserEdit
  <1>4. CASE SmallerSteps \/ NotDone \/ CheckRan \/ CheckDidNotRun
    BY <1>4 DEF SmallerSteps, NotDone, CheckRan, CheckDidNotRun, Push
  <1>5. CASE \E c \in Calls : StartCall(c)
    BY <1>5 DEF StartCall
  <1>6. CASE CallsDone
    BY <1>6 DEF CallsDone, Push
  <1>7. ASSUME NEW n \in 1..RepeatStop, NEW fails \in BOOLEAN, NEW h \in Hats, CallDone(n, fails, h)
        PROVE  Paired'
    BY <1>7 DEF CallDone, Answered, AnswerUnrun
  <1>8. CASE CancelledBetweenCalls \/ CancelledInCall \/ CallFails
    BY <1>8 DEF CancelledBetweenCalls, CancelledInCall, CallFails, AnswerUnrun, End
  <1>9. CASE \/ RoundsUsedUp \/ CancelledBeforeRequest \/ NotAdmitted \/ CancelledAtAnswer
             \/ (\E b \in BOOLEAN : Finish(b)) \/ CheckCancelled \/ StreamRefused
    BY <1>9 DEF RoundsUsedUp, CancelledBeforeRequest, NotAdmitted, CancelledAtAnswer, Finish,
                CheckCancelled, StreamRefused, End
  <1>10. CASE \E p \in Prices : StreamCutShort(p) \/ ReplyOverBudget(p) \/ CancelledBeforeStream(p)
    BY <1>10 DEF StreamCutShort, ReplyOverBudget, CancelledBeforeStream, End
  <1>11. ASSUME NEW p \in Prices, CutOff(p) PROVE Paired'
    <2>1. seen'.end = "failed"
      BY <1>11 DEF CutOff, End, Seen
    <2> QED BY <1>11, <2>1 DEF CutOff, End
  <1>12. CASE Esc \/ \E p \in Prices : ScoutRequest(p) \/ ScoutCancelled(p)
    BY <1>12 DEF Esc, ScoutRequest, ScoutCancelled
  <1> QED
    BY <1>1, <1>2, <1>3, <1>4, <1>5, <1>6, <1>7, <1>8, <1>9, <1>10, <1>11, <1>12
    DEF Next, Own, Notices

-----------------------------------------------------------------------------
(* What the check has not seen.                                            *)

\* An edit no check has looked at belongs to the round that is on, in the
\* build hat, on its way to the check; a turn that kept its hat does not
\* complete over it.
Unchecked ==
    /\ at = "running" /\ call = "edit" => hat = "build"
    /\ seen.unchecked /\ ~seen.switched =>
          /\ hat = "build" /\ edited
          /\ at \in {"calls", "running", "check", "idle"}
          /\ at = "idle" => seen.end # "completed"

LEMMA UncheckedStays == SeenTyped /\ Unchecked /\ [Next]_vars => Unchecked'
  <1> SUFFICES ASSUME seen \in Seen, Unchecked, [Next]_vars PROVE Unchecked'
    BY DEF SeenTyped
  <1> USE DEF Unchecked, loop, transcript
  <1>1. ASSUME NEW h \in Hats, BeginTurn(h) PROVE Unchecked'
    BY <1>1 DEF BeginTurn
  <1>2. ASSUME NEW p \in Prices, NEW n \in 0..MaxCalls, NEW limit \in BOOLEAN, Reply(p, n, limit)
        PROVE  Unchecked'
    BY <1>2 DEF Reply, Seen
  <1>3. CASE SendRequest \/ StreamOpens \/ UNCHANGED vars \/ UserEdit \/ SmallerSteps \/ NotDone
    BY <1>3 DEF SendRequest, StreamOpens, vars, UserEdit, SmallerSteps, NotDone
  <1>4. CASE CheckRan \/ CheckDidNotRun
    BY <1>4 DEF CheckRan, CheckDidNotRun, Seen
  <1>5. CASE \E c \in Calls : StartCall(c)
    BY <1>5 DEF StartCall
  <1>6. CASE CallsDone
    BY <1>6 DEF CallsDone
  <1>7. ASSUME NEW n \in 1..RepeatStop, NEW fails \in BOOLEAN, NEW h \in Hats, CallDone(n, fails, h)
        PROVE  Unchecked'
    <2>1. /\ at = "running" /\ at' \in {"idle", "calls"} /\ hat' = h
          /\ h # hat => call = "hat"
      BY <1>7 DEF CallDone, Answered
    <2>2. edited' <=> edited \/ call = "edit"
      BY <1>7 DEF CallDone
    <2>3. /\ seen'.unchecked <=> seen.unchecked \/ call = "edit"
          /\ seen'.switched <=> seen.switched \/ h # hat
          /\ at' = "idle" => seen'.end = "stuck"
      BY <1>7 DEF CallDone, Seen
    <2> QED BY <2>1, <2>2, <2>3
  <1>8. ASSUME NEW b \in BOOLEAN, Finish(b) PROVE Unchecked'
    BY <1>8 DEF Finish, Seen
  <1>9. ASSUME NEW how \in Ends \ {"completed"}, End(how), UNCHANGED <<hat, edited>>
        PROVE  Unchecked'
    BY <1>9 DEF End, Seen
  <1>10. CASE Esc \/ \E p \in Prices : ScoutRequest(p) \/ ScoutCancelled(p)
    BY <1>10 DEF Esc, ScoutRequest, ScoutCancelled
  <1>11. CASE \/ RoundsUsedUp \/ CancelledBeforeRequest \/ NotAdmitted \/ CancelledAtAnswer
              \/ CheckCancelled \/ StreamRefused \/ CancelledBetweenCalls \/ CancelledInCall
              \/ CallFails
              \/ \E p \in Prices : \/ StreamCutShort(p) \/ ReplyOverBudget(p)
                                   \/ CancelledBeforeStream(p) \/ CutOff(p)
    <2>1. \E how \in Ends \ {"completed"} : End(how) /\ UNCHANGED <<hat, edited>>
      BY <1>11 DEF Ends, RoundsUsedUp, CancelledBeforeRequest, NotAdmitted, CancelledAtAnswer,
           CheckCancelled, StreamRefused, CancelledBetweenCalls, CancelledInCall, CallFails,
           StreamCutShort, ReplyOverBudget, CancelledBeforeStream, CutOff
    <2> QED BY <1>9, <2>1
  <1> QED
    BY <1>1, <1>2, <1>3, <1>4, <1>5, <1>6, <1>7, <1>8, <1>10, <1>11 DEF Next, Own, Notices

-----------------------------------------------------------------------------
LEMMA InitHolds == Init => Counters /\ Money /\ Flags /\ SeenTyped /\ Paired /\ Unchecked
  <1> SUFFICES ASSUME Init
               PROVE  Counters /\ Money /\ Flags /\ SeenTyped /\ Paired /\ Unchecked
    OBVIOUS
  <1> USE ConstantsType DEF Init
  <1>1. Counters
    BY DEF Counters
  <1>2. Money
    BY DEF Money, Bills
  <1>3. Flags
    BY DEF Flags
  <1>4. SeenTyped
    BY DEF SeenTyped, Seen
  <1>5. Paired
    <2>1. gap \in BOOLEAN /\ ~gap
      BY Zenon
    <2> QED BY <2>1 DEF Paired, TurnsCloseTheirCalls
  <1>6. Unchecked
    BY DEF Unchecked
  <1> QED BY <1>1, <1>2, <1>3, <1>4, <1>5, <1>6

\* However a turn goes: it is at one place, its counters keep to their caps,
\* and replies cut off are never more than rounds.
THEOREM TypeCorrect == Spec => []TypeOK
  <1>1. Counters /\ Money /\ Flags /\ SeenTyped /\ Paired => TypeOK
    BY ConstantsType DEF SeenTyped, Counters, Money, Bills, Flags, Seen, Paired, TypeOK
  <1> QED
    BY InitHolds, CountersStay, MoneyStays, FlagsStay, SeenStays, PairedStays, <1>1, PTL DEF Spec

\* A provider never gets a transcript with a call that has no answer, with
\* any caps and however many turns ended in whatever way before.
THEOREM ProvidersGetAnswers == Spec => []RequestsAreAnswered
  <1>1. Paired => RequestsAreAnswered
    BY DEF Paired, RequestsAreAnswered
  <1> QED BY InitHolds, SeenStays, PairedStays, <1>1, PTL DEF Spec

\* Only an error or the end of the process leaves a call open.
THEOREM TurnsClose == Spec => []TurnsCloseTheirCalls
  <1>1. Paired => TurnsCloseTheirCalls
    BY DEF Paired
  <1> QED BY InitHolds, SeenStays, PairedStays, <1>1, PTL DEF Spec

\* A turn that kept its hat never completes over an edit no check looked at.
THEOREM DoneMeansChecked == Spec => []DoneIsChecked
  <1>1. Unchecked => DoneIsChecked
    BY DEF Unchecked, DoneIsChecked
  <1> QED BY InitHolds, SeenStays, UncheckedStays, <1>1, PTL DEF Spec

-----------------------------------------------------------------------------
(* The budget.  What was paid and seen is what is on the bill, but for one *)
(* reply for each model the bill knows no price of; and a request is only  *)
(* sent while the bill is under the budget and knows its model's price.    *)

Visible == paid.all - paid.unseen
UnpricedCount == Cardinality(bill.unpriced)

\* `p` is the highest price met so far.
OnTheBill(p) ==
    /\ Visible <= bill.spent + p * UnpricedCount
    /\ bill.spent < Budget + p

Accounted ==
    Budget > 0 =>
        /\ \E p \in Prices : OnTheBill(p)
        /\ at \in {"sent", "streaming"} => bill.spent < Budget /\ hat \notin bill.unpriced

LEMMA TimesMonotone ==
    ASSUME NEW p \in Nat, NEW q \in Nat, p <= q, NEW n \in Nat
    PROVE  p * n \in Nat /\ p * n <= q * n
  <1>1. PICK d \in Nat : q = p + d
    <2>1. q - p \in Nat /\ q = p + (q - p)
      OBVIOUS
    <2> QED BY <2>1
  <1>2. p * n \in Nat /\ d * n \in Nat /\ (p + d) * n = p * n + d * n
    OBVIOUS
  <1> QED BY <1>1, <1>2

LEMMA UnpricedType ==
    ASSUME Money
    PROVE  IsFiniteSet(bill.unpriced) /\ UnpricedCount \in Nat /\ bill.spent \in Nat
           /\ paid.all \in Nat /\ paid.unseen \in Nat
  <1>1. bill.unpriced \in SUBSET Hats /\ bill.spent \in Nat
        /\ paid.all \in Nat /\ paid.unseen \in Nat
    BY DEF Money, Bills
  <1>2. IsFiniteSet(bill.unpriced)
    BY <1>1, FS_Subset, TurnLoopAssumption
  <1> QED BY <1>1, <1>2, FS_CardinalityType DEF UnpricedCount

\* A request of a model whose price the bill knows, paid for.
LEMMA RequestPaid ==
    ASSUME Money, Accounted, Budget > 0, bill.spent < Budget, hat \notin bill.unpriced,
           NEW p \in Prices, bill' \in Recorded(p), Cost(p)
    PROVE  \E q \in Prices : OnTheBill(q)'
  <1>1. PICK q \in Prices : OnTheBill(q)
    BY DEF Accounted
  <1>2. /\ bill \in Bills /\ paid' = [paid EXCEPT !.all = @ + p]
        /\ paid \in [all : Nat, unseen : Nat] /\ p \in Nat /\ q \in Nat /\ Budget \in Nat
    BY ConstantsType DEF Money, Cost
  <1>3. paid'.all = paid.all + p /\ paid'.unseen = paid.unseen
    BY <1>2
  <1>4. /\ IsFiniteSet(bill.unpriced) /\ UnpricedCount \in Nat /\ bill.spent \in Nat
        /\ paid.all \in Nat /\ paid.unseen \in Nat
    BY UnpricedType
  <1>5. \/ bill'.spent = bill.spent + p /\ bill'.unpriced = bill.unpriced \ {hat}
        \/ bill'.spent = bill.spent /\ bill'.unpriced = bill.unpriced \cup {hat}
    BY <1>2 DEF Recorded, CutShort, Priced, Unpriced, LowerBound, Missing, Bills
  <1>6. \/ bill'.spent = bill.spent + p /\ UnpricedCount' = UnpricedCount
        \/ bill'.spent = bill.spent /\ UnpricedCount' = UnpricedCount + 1
    <2>1. bill.unpriced \ {hat} = bill.unpriced
      OBVIOUS
    <2>2. Cardinality(bill.unpriced \cup {hat}) = Cardinality(bill.unpriced) + 1
      BY <1>4, FS_AddElement
    <2> QED BY <1>5, <2>1, <2>2 DEF UnpricedCount
  <1> DEFINE m == IF p <= q THEN q ELSE p
             n == UnpricedCount
  <1>7. m \in Prices /\ m \in Nat /\ p <= m /\ q <= m
    BY <1>2
  <1> HIDE DEF m
  <1>8. q * n \in Nat /\ m * n \in Nat /\ q * n <= m * n /\ m * (n + 1) = m * n + m
    BY <1>2, <1>4, <1>7, TimesMonotone
  <1>9. bill'.spent < Budget + m
    BY <1>2, <1>4, <1>5, <1>7
  <1>10. Visible' = Visible + p /\ Visible \in Int
    BY <1>2, <1>3, <1>4 DEF Visible
  <1>11. Visible <= bill.spent + q * n
    BY <1>1 DEF OnTheBill
  <1> HIDE DEF n
  <1>12. Visible' <= bill'.spent + m * UnpricedCount'
    <2>1. CASE bill'.spent = bill.spent + p /\ UnpricedCount' = n
      BY <1>2, <1>4, <1>7, <1>8, <1>10, <1>11, <2>1
    <2>2. CASE bill'.spent = bill.spent /\ UnpricedCount' = n + 1
      <3>1. bill'.spent + m * UnpricedCount' = bill.spent + (m * n + m)
        BY <1>8, <2>2
      <3> QED BY <1>2, <1>4, <1>7, <1>8, <1>10, <1>11, <3>1
    <2> QED BY <1>6, <2>1, <2>2 DEF n
  <1> QED BY <1>7, <1>9, <1>12 DEF OnTheBill

\* A cost that never arrived is not among what was seen.
LEMMA UnseenPaid ==
    ASSUME Money, Accounted, NEW p \in Prices, CostUnseen(p), UNCHANGED bill
    PROVE  Budget > 0 => \E q \in Prices : OnTheBill(q)'
  <1>1. /\ paid' = [paid EXCEPT !.all = @ + p, !.unseen = @ + p]
        /\ paid \in [all : Nat, unseen : Nat] /\ p \in Nat
    BY ConstantsType DEF Money, CostUnseen
  <1>2. Visible' = Visible
    BY <1>1 DEF Visible
  <1> QED BY <1>2 DEF Accounted, OnTheBill, UnpricedCount

LEMMA AccountedStays == Money /\ Accounted /\ [Next]_vars => Accounted'
  <1> SUFFICES ASSUME Money, Accounted, [Next]_vars, Budget > 0
               PROVE  /\ \E p \in Prices : OnTheBill(p)'
                      /\ at' \in {"sent", "streaming"} =>
                            bill'.spent < Budget /\ hat' \notin bill'.unpriced
    BY DEF Accounted
  <1>1. CASE \E p \in Prices : \/ StreamCutShort(p) \/ ReplyOverBudget(p)
                               \/ \E n \in 0..MaxCalls, limit \in BOOLEAN : Reply(p, n, limit)
    <2>1. PICK p \in Prices : /\ at = "streaming" /\ bill' \in Recorded(p) /\ Cost(p)
                              /\ at' \notin {"sent", "streaming"}
      BY <1>1 DEF StreamCutShort, ReplyOverBudget, Reply, Recorded, End
    <2> QED BY <2>1, RequestPaid DEF Accounted
  <1>2. CASE \E p \in Prices : ScoutRequest(p)
    <2>1. PICK p \in Prices : /\ at' = "running" /\ bill' \in Recorded(p) /\ Cost(p)
                              /\ Admitted
      BY <1>2 DEF ScoutRequest
    <2>2. bill.spent < Budget /\ hat \notin bill.unpriced
      BY <2>1, UnpricedType, ConstantsType DEF Admitted, OverBudget
    <2> QED BY <2>1, <2>2, RequestPaid
  <1>3. CASE \E p \in Prices : CancelledBeforeStream(p) \/ ScoutCancelled(p)
    <2>1. PICK p \in Prices : CostUnseen(p) /\ UNCHANGED bill /\ at' \notin {"sent", "streaming"}
      BY <1>3 DEF CancelledBeforeStream, ScoutCancelled, End
    <2> QED BY <2>1, UnseenPaid
  <1>4. CASE \E p \in Prices : CutOff(p)
    <2>1. PICK p \in Prices : /\ CostUnseen(p) \/ UNCHANGED paid
                              /\ UNCHANGED bill /\ at' \notin {"sent", "streaming"}
      BY <1>4 DEF CutOff, End
    <2>2. CASE CostUnseen(p)
      BY <2>1, <2>2, UnseenPaid
    <2>3. CASE UNCHANGED paid
      BY <2>1, <2>3 DEF Accounted, OnTheBill, UnpricedCount, Visible
    <2> QED BY <2>1, <2>2, <2>3
  <1>5. CASE SendRequest
    <2>1. bill.spent < Budget /\ hat \notin bill.unpriced /\ UNCHANGED <<bill, paid, hat>>
      BY <1>5, UnpricedType, ConstantsType DEF SendRequest, Admitted, OverBudget
    <2> QED BY <2>1 DEF Accounted, OnTheBill, UnpricedCount, Visible
  <1>6. CASE /\ UNCHANGED <<bill, paid>>
             /\ \/ at' \notin {"sent", "streaming"}
                \/ at \in {"sent", "streaming"} /\ hat' = hat
    BY <1>6 DEF Accounted, OnTheBill, UnpricedCount, Visible
  <1>7. CASE StreamOpens \/ Esc \/ UserEdit \/ UNCHANGED vars
    <2>1. UNCHANGED <<bill, paid, hat>> /\ (at' = at \/ at = "sent")
      BY <1>7 DEF StreamOpens, Esc, UserEdit, vars
    <2> QED BY <2>1, <1>6
  <1>8. CASE \/ \E h \in Hats : BeginTurn(h)
             \/ \E n \in 1..RepeatStop, fails \in BOOLEAN, h \in Hats : CallDone(n, fails, h)
             \/ \E c \in Calls : StartCall(c)
    <2>1. UNCHANGED <<bill, paid>> /\ at' \notin {"sent", "streaming"}
      BY <1>8 DEF BeginTurn, CallDone, Answered, StartCall
    <2> QED BY <2>1, <1>6
  <1>9. CASE \/ RoundsUsedUp \/ CancelledBeforeRequest \/ NotAdmitted \/ StreamRefused
             \/ SmallerSteps \/ CancelledAtAnswer \/ NotDone \/ (\E b \in BOOLEAN : Finish(b))
             \/ CancelledBetweenCalls \/ CallsDone \/ CancelledInCall \/ CheckCancelled
             \/ CallFails \/ CheckRan \/ CheckDidNotRun
    <2>1. UNCHANGED <<bill, paid>> /\ at' \notin {"sent", "streaming"}
      BY <1>9 DEF RoundsUsedUp, CancelledBeforeRequest, NotAdmitted, StreamRefused,
           SmallerSteps, CancelledAtAnswer, NotDone, Finish, CancelledBetweenCalls, CallsDone,
           CancelledInCall, CheckCancelled, CallFails, CheckRan, CheckDidNotRun, End
    <2> QED BY <2>1, <1>6
  <1> QED BY <1>1, <1>2, <1>3, <1>4, <1>5, <1>7, <1>8, <1>9 DEF Next, Own, Notices

LEMMA InitAccounted == Init => Accounted
  <1> SUFFICES ASSUME Init, Budget > 0 PROVE Accounted
    BY DEF Accounted
  <1>1. PICK p \in Prices : p \in Nat
    BY TurnLoopAssumption
  <1>2. UnpricedCount = 0 /\ Visible = 0 /\ bill.spent = 0
    BY FS_EmptySet DEF Init, UnpricedCount, Visible
  <1>3. p * 0 = 0 /\ Budget \in Nat
    BY <1>1, ConstantsType
  <1>4. OnTheBill(p)
    BY <1>1, <1>2, <1>3 DEF OnTheBill
  <1> QED BY <1>4 DEF Accounted, Init

\* However many turns, hats, cancels and crashes, with any prices: beyond the
\* one request that crosses it (docs/guide.md), a session goes over its
\* budget only by one reply for each model without a price, and by what a
\* request cost whose answer never came (agent.rs, admit_request; record_call).
THEOREM OverrunHasABound == Spec => []OverrunIsBounded
  <1>1. Money /\ Accounted => OverrunIsBounded
    <2> SUFFICES ASSUME Money, Accounted, Budget > 0
                 PROVE  \E p \in Prices : Visible < Budget + p * (1 + UnpricedCount)
      BY DEF OverrunIsBounded, Visible, UnpricedCount
    <2>1. PICK p \in Prices : OnTheBill(p)
      BY DEF Accounted
    <2>2. p \in Nat /\ UnpricedCount \in Nat /\ bill.spent \in Nat /\ Budget \in Nat /\ Visible \in Int
      BY UnpricedType, ConstantsType DEF Visible
    <2>3. p * (1 + UnpricedCount) = p + p * UnpricedCount /\ p * UnpricedCount \in Nat
      BY <2>2
    <2> QED BY <2>1, <2>2, <2>3 DEF OnTheBill
  <1> QED BY InitHolds, MoneyStays, InitAccounted, AccountedStays, <1>1, PTL DEF Spec
=============================================================================
