--------------------------- MODULE ToolGate_proofs ----------------------------
(* Proofs about ToolGate, for any scopes, any wait and any number of        *)
(* requests and sessions.                                                   *)
EXTENDS ToolGate, SequenceTheorems, TLAPS

-----------------------------------------------------------------------------
(* The invariant.                                                          *)

\* Requests reach the screen in the order they were sent, a card is the last
\* to have reached it, and has not been answered; its reply is its own.
InOrder ==
    /\ Len(queue) <= Len(sent)
    /\ \A i \in 1..Len(queue) : queue[i] = Len(sent) - Len(queue) + i
    /\ card # None => card = Len(sent) - Len(queue) /\ slot[sent[card]] = card
    /\ \A r \in Requests : pressed[r] # None => r <= Len(sent) - Len(queue) /\ r # card

\* What is in the channel waited on is what was pressed on that card, but for
\* the no of a stop.
AnswerIsPressed ==
    phase = "waiting" =>
        /\ call.id # 0
        /\ answer # None => answer = pressed[call.id] \/ (answer = "deny" /\ cancel)

Earlier(s) ==
    \E g \in granted : g.scope = s /\ pressed[g.id] \in {"always", "approve"}

AllowedWasAsked == \A s \in allowed : Earlier(s)

\* Why the call c, of the request id or of none, may run.
Free(c, m) ==
    \/ c.decision = "allow"
    \/ m = "yolo" /\ c.decision \in {"ask", "secret", "outside"}
    \/ m = "always" /\ c.decision = "ask"

May(c, m, id) ==
    \/ Free(c, m)
    \/ SaidYes(id)
    \/ c.decision = "ask" /\ Earlier(c.scope)

HooksAreFor == phase = "hooks" /\ call.made.tool = "tool" => May(call.made, mode, call.id)

LastIsJust ==
    /\ last.id \in 0..MaxRequests
    /\ last.ended = "ran" /\ last.made.tool = "tool" => May(last.made, last.mode, last.id)
    /\ DeniedMeansNo

Reasons == AnswerIsPressed /\ AllowedWasAsked /\ HooksAreFor /\ LastIsJust
IInv == TypeOK /\ InOrder /\ Reasons

-----------------------------------------------------------------------------
LEMMA CallShape ==
    /\ NoCall \in [made : Calls \cup {None}, id : 0..Len(sent)]
    /\ \A c \in Calls, n \in Nat : [made |-> c, id |-> n] \in [made : Calls \cup {None}, id : 0..n]
  BY LenProperties DEF NoCall

LEMMA KindsOfCalls ==
    \A c \in Calls : c.tool \in {"tool", "question", "plan"} /\ c.scope \in Scopes \cup {None}
  BY DEF Calls

\* Finish leaves the call, and a phase that needs none.
LEMMA Finished ==
    ASSUME NEW how, NEW next \in {"idle", "working"}, Finish(how, next), Len(sent) \in Nat
    PROVE  /\ phase' = next
           /\ call' \in [made : Calls \cup {None}, id : 0..Len(sent)]
           /\ last'.id = call.id /\ last'.made = call.made /\ last'.mode = mode
           /\ last'.ended = how
  BY DEF Finish, NoCall

-----------------------------------------------------------------------------
(* Types.                                                                  *)

\* The parts of TypeOK that only some steps disturb.
SessionTyped ==
    /\ attended \in BOOLEAN /\ mode \in {"ask", "always", "yolo"}
    /\ allowed \subseteq Scopes /\ session \in 1..MaxSessions
    /\ granted \subseteq [scope : Scopes, id : Requests]

TurnTyped ==
    /\ phase \in {"idle", "working", "hooks", "waiting"}
    /\ call \in [made : Calls \cup {None}, id : 0..Len(sent)]
    /\ phase \in {"hooks", "waiting"} => call.made \in Calls
    /\ cancel \in BOOLEAN /\ left \in 0..Wait
    /\ sent \in Seq(Kinds) /\ Len(sent) <= MaxRequests

ScreenTyped ==
    /\ queue \in Seq(1..Len(sent))
    /\ card \in 1..Len(sent) \cup {None}
    /\ slot \in [Kinds -> Requests \cup {None}]
    /\ answer \in Answers \cup {None}
    /\ pressed \in [Requests -> Answers \cup {None}]

LEMMA TypeParts ==
    /\ TypeOK <=> SessionTyped /\ TurnTyped /\ ScreenTyped
    /\ TypeOK' <=> SessionTyped' /\ TurnTyped' /\ ScreenTyped'
  BY DEF TypeOK, SessionTyped, TurnTyped, ScreenTyped

LEMMA SentIsNat == TypeOK => Len(sent) \in Nat
  BY LenProperties DEF TypeOK

\* Where the turn alone goes on, nothing is sent and no card changes.
LEMMA ScreenStays ==
    ASSUME ScreenTyped, UNCHANGED <<sent, screen, answer, pressed>>
    PROVE  ScreenTyped'
  BY DEF ScreenTyped, screen, Requests

LEMMA SessionStays ==
    ASSUME SessionTyped, UNCHANGED <<attended, mode, allowed, session, granted>>
    PROVE  SessionTyped'
  BY DEF SessionTyped, Requests

\* A call that ends, with the flag, the wait and the requests as they were.
LEMMA FinishTyped ==
    ASSUME TypeOK, NEW how, NEW next \in {"idle", "working"}, Finish(how, next),
           UNCHANGED <<cancel, left, sent>>
    PROVE  TurnTyped'
  <1>1. Len(sent) \in Nat
    BY SentIsNat
  <1>2. phase' = next /\ call' \in [made : Calls \cup {None}, id : 0..Len(sent)]
    BY <1>1, Finished
  <1> QED BY <1>2 DEF TypeOK, TurnTyped, Kinds, Calls

LEMMA SendTyped ==
    ASSUME TypeOK, NEW kind \in Kinds, NEW c \in Calls, Send(kind, c)
    PROVE  TypeOK'
  <1> USE DEF Send
  <1>0. Len(sent) \in Nat /\ sent \in Seq(Kinds) /\ queue \in Seq(1..Len(sent))
    BY SentIsNat DEF TypeOK
  <1>1. sent' \in Seq(Kinds) /\ Len(sent') = Len(sent) + 1
    BY <1>0
  <1>2. queue \in Seq(1..Len(sent'))
    <2>1. \A i \in 1..Len(queue) : queue[i] \in 1..Len(sent')
      BY <1>0, <1>1, ElementOfSeq
    <2> QED BY <1>0, <2>1, LenProperties, SeqDef
  <1>3. queue' \in Seq(1..Len(sent'))
    BY <1>1, <1>2, <1>0
  <1>4. SessionTyped'
    BY SessionStays DEF TypeOK, SessionTyped
  <1>5. call' \in [made : Calls \cup {None}, id : 0..Len(sent')] /\ call'.made \in Calls
    BY <1>0, <1>1, CallShape
  <1>6. TurnTyped'
    BY <1>0, <1>1, <1>5, ToolGateAssumption DEF TypeOK, TurnTyped
  <1>7. card' \in 1..Len(sent') \cup {None}
    BY <1>0, <1>1 DEF TypeOK
  <1>8. ScreenTyped'
    BY <1>3, <1>7 DEF TypeOK, ScreenTyped, Requests
  <1> QED BY <1>4, <1>6, <1>8, TypeParts

LEMMA GrantTyped ==
    ASSUME SessionTyped, NEW scope \in Scopes, Grant(scope), call.id \in Requests,
           UNCHANGED <<attended, mode, session>>
    PROVE  SessionTyped'
  BY DEF SessionTyped, Grant

LEMMA ThroughTyped ==
    ASSUME answer \in Answers \cup {None}, NEW reply, NEW key \in Answers
    PROVE  Through(reply, key) \in Answers \cup {None}
  BY DEF Through

LEMMA KeysAreAnswers == \A kind \in Kinds : Keys(kind) \subseteq Answers
  BY DEF Kinds, Keys, Answers

LEMMA CallId == TypeOK => call.id \in 0..MaxRequests /\ (call.id # 0 => call.id \in Requests)
  <1> SUFFICES ASSUME TypeOK PROVE call.id \in 0..MaxRequests /\ (call.id # 0 => call.id \in Requests)
    OBVIOUS
  <1>1. call.id \in 0..Len(sent) /\ Len(sent) <= MaxRequests
    BY DEF TypeOK
  <1> QED BY <1>1, SentIsNat, ToolGateAssumption DEF Requests

LEMMA TypeTurn == TypeOK /\ AnswerIsPressed /\ Turn => TypeOK'
  <1> SUFFICES ASSUME TypeOK, AnswerIsPressed, Turn PROVE TypeOK'
    OBVIOUS
  <1> USE TypeParts
  <1>0. Len(sent) \in Nat /\ (phase = "waiting" => call.id \in Requests)
    BY CallId, SentIsNat DEF AnswerIsPressed
  <1>1. CASE Begin
    <2>1. TurnTyped'
      BY <1>1 DEF Begin, TurnTyped, Kinds, Calls
    <2> QED BY <1>1, <2>1, ScreenStays, SessionStays DEF Begin
  <1>2. CASE End
    <2>1. TurnTyped'
      BY <1>2 DEF End, TurnTyped, Kinds, Calls
    <2> QED BY <1>2, <2>1, ScreenStays, SessionStays DEF End
  <1>3. ASSUME NEW c \in Calls, Refuse(c) PROVE TypeOK'
    <2>1. TurnTyped'
      BY <1>3 DEF Refuse, turn, TurnTyped, Kinds, Calls
    <2> QED BY <1>3, <2>1, ScreenStays, SessionStays DEF Refuse
  <1>4. ASSUME NEW c \in Calls, Pass(c) PROVE TypeOK'
    <2>1. call' \in [made : Calls \cup {None}, id : 0..Len(sent)] /\ call'.made = c
      BY <1>4, <1>0 DEF Pass
    <2>2. TurnTyped'
      BY <1>4, <2>1 DEF Pass, TurnTyped, Kinds, Calls
    <2> QED BY <1>4, <2>2, ScreenStays, SessionStays DEF Pass
  <1>5. ASSUME NEW c \in Calls, AskPermission(c) PROVE TypeOK'
    BY <1>5, SendTyped DEF AskPermission, Kinds
  <1>6. CASE HookDenies
    BY <1>6, FinishTyped, ScreenStays, SessionStays DEF HookDenies
  <1>7. CASE Run
    <2>1. TurnTyped'
      BY <1>7, FinishTyped DEF Run
    <2> QED BY <1>7, <2>1, ScreenStays, SessionStays DEF Run
  <1>8. CASE AskInCall
    <2>1. call.made \in Calls /\ call.made.tool \in Kinds
      BY <1>8, KindsOfCalls DEF AskInCall, TypeOK, Kinds
    <2> QED BY <1>8, <2>1, SendTyped DEF AskInCall
  <1>9. CASE NobodyToAsk
    BY <1>9, FinishTyped, ScreenStays, SessionStays DEF NobodyToAsk
  <1>10. CASE WaitCancelled
    BY <1>10, FinishTyped, ScreenStays, SessionStays DEF WaitCancelled
  <1>11. CASE WaitTimesOut
    <2>1. TurnTyped'
      BY <1>11, FinishTyped DEF WaitTimesOut
    <2> QED BY <1>11, <2>1, ScreenStays, SessionStays DEF WaitTimesOut
  <1>12. CASE PermissionTaken
    <2>0. Waits /\ call.made \in Calls /\ call.id \in Requests
      BY <1>12, <1>0 DEF PermissionTaken, Taken, Waits, TypeOK
    <2>1. CASE answer \in {"allow", "always"}
      <3>1. TurnTyped'
        BY <1>12, <2>1, <2>0 DEF PermissionTaken, TurnTyped, Kinds, Calls
      <3>2. SessionTyped'
        <4>1. CASE answer = "always" /\ call.made.scope # None
          <5>1. call.made.scope \in Scopes
            BY <4>1, <2>0, KindsOfCalls
          <5> QED BY <1>12, <4>1, <5>1, <2>0, GrantTyped DEF PermissionTaken
        <4>2. CASE ~(answer = "always" /\ call.made.scope # None)
          BY <1>12, <4>2, <2>1, SessionStays DEF PermissionTaken
        <4> QED BY <4>1, <4>2
      <3> QED BY <1>12, <3>1, <3>2, ScreenStays DEF PermissionTaken
    <2>2. CASE answer = "deny"
      <3>1. TurnTyped'
        BY <1>12, <2>2, FinishTyped DEF PermissionTaken
      <3> QED BY <1>12, <2>2, <3>1, ScreenStays, SessionStays DEF PermissionTaken
    <2> QED BY <1>12, <2>1, <2>2 DEF PermissionTaken
  <1>13. CASE QuestionTaken
    <2>1. TurnTyped'
      BY <1>13, FinishTyped DEF QuestionTaken
    <2> QED BY <1>13, <2>1, ScreenStays, SessionStays DEF QuestionTaken
  <1>14. CASE PlanTaken
    <2>0. call.id \in Requests
      BY <1>14, <1>0 DEF PlanTaken, Taken, Waits
    <2>1. TurnTyped'
      BY <1>14, FinishTyped DEF PlanTaken
    <2>2. SessionTyped'
      BY <1>14, <2>0, GrantTyped, SessionStays, ToolGateAssumption DEF PlanTaken
    <2> QED BY <1>14, <2>1, <2>2, ScreenStays DEF PlanTaken
  <1> QED BY <1>1, <1>2, <1>3, <1>4, <1>5, <1>6, <1>7, <1>8, <1>9, <1>10, <1>11, <1>12, <1>13,
            <1>14 DEF Turn

LEMMA TypeScreen == TypeOK /\ (Screen \/ Tick) => TypeOK'
  <1> SUFFICES ASSUME TypeOK, Screen \/ Tick PROVE TypeOK'
    OBVIOUS
  <1> USE TypeParts
  <1>0. Len(sent) \in Nat
    BY SentIsNat
  <1>1. CASE Show
    <2>1. Head(queue) \in 1..Len(sent) /\ Tail(queue) \in Seq(1..Len(sent))
      BY <1>1 DEF Show, ScreenTyped
    <2>2. Head(queue) \in Requests
      BY <2>1, <1>0, ToolGateAssumption DEF TurnTyped, Requests
    <2>3. ScreenTyped'
      BY <1>1, <2>1, <2>2 DEF Show, ScreenTyped, Requests
    <2>4. TurnTyped'
      BY <1>1 DEF Show, turn, TurnTyped, Kinds, Calls
    <2> QED BY <1>1, <2>3, <2>4, SessionStays DEF Show
  <1>2. ASSUME NEW key \in UNION {Keys(k) : k \in Kinds}, Press(key) PROVE TypeOK'
    <2>1. key \in Answers
      BY KeysAreAnswers
    <2>2. answer' \in Answers \cup {None}
      BY <1>2, <2>1, ThroughTyped DEF Press, ScreenTyped
    <2>3. slot' \in [Kinds -> Requests \cup {None}]
      BY <1>2 DEF Press, ScreenTyped
    <2>4. ScreenTyped'
      BY <1>2, <2>1, <2>2, <2>3 DEF Press, ScreenTyped, Requests
    <2>5. TurnTyped'
      BY <1>2 DEF Press, turn, TurnTyped, Kinds, Calls
    <2> QED BY <1>2, <2>4, <2>5, SessionStays DEF Press
  <1>3. CASE Stop
    <2>1. answer' \in Answers \cup {None}
      BY <1>3, ThroughTyped DEF Stop, ScreenTyped, Answers
    <2>2. ScreenTyped'
      BY <1>3, <2>1 DEF Stop, ScreenTyped, Requests
    <2>3. TurnTyped'
      BY <1>3 DEF Stop, TurnTyped, Kinds, Calls
    <2> QED BY <1>3, <2>2, <2>3, SessionStays DEF Stop
  <1>4. CASE CloseCard
    <2>1. ScreenTyped'
      BY <1>4 DEF CloseCard, ScreenTyped, Requests
    <2>2. TurnTyped'
      BY <1>4 DEF CloseCard, turn, TurnTyped, Kinds, Calls
    <2> QED BY <1>4, <2>1, <2>2, SessionStays DEF CloseCard
  <1>5. ASSUME NEW m \in {"ask", "always", "yolo"}, SetTools(m) PROVE TypeOK'
    <2>1. TurnTyped' /\ SessionTyped'
      BY <1>5 DEF SetTools, turn, TurnTyped, SessionTyped, Kinds, Calls, Requests
    <2> QED BY <1>5, <2>1, ScreenStays DEF SetTools
  <1>6. CASE SwapSession
    <2>1. session' \in 1..MaxSessions
      BY <1>6, ToolGateAssumption DEF SwapSession, SessionTyped
    <2>2. TurnTyped' /\ SessionTyped'
      BY <1>6, <2>1 DEF SwapSession, turn, TurnTyped, SessionTyped, Kinds, Calls, Requests
    <2> QED BY <1>6, <2>2, ScreenStays DEF SwapSession
  <1>7. CASE Tick
    <2>1. left' \in 0..Wait
      BY <1>7, ToolGateAssumption DEF Tick, TurnTyped
    <2>2. TurnTyped'
      BY <1>7, <2>1 DEF Tick, TurnTyped, Kinds, Calls
    <2> QED BY <1>7, <2>2, ScreenStays, SessionStays DEF Tick
  <1> QED BY <1>1, <1>2, <1>3, <1>4, <1>5, <1>6, <1>7 DEF Screen

LEMMA TypeStutter == TypeOK /\ UNCHANGED vars => TypeOK'
  <1> SUFFICES ASSUME TypeOK, UNCHANGED vars PROVE TypeOK'
    OBVIOUS
  <1>1. TurnTyped'
    BY TypeParts DEF vars, turn, TurnTyped, Kinds, Calls
  <1> QED BY <1>1, TypeParts, ScreenStays, SessionStays DEF vars, turn

-----------------------------------------------------------------------------
(* Order: a card is answered once, by its own key.                         *)

\* Nothing is sent, shown or pressed.
LEMMA OrderStays ==
    ASSUME InOrder, UNCHANGED <<sent, queue, card, slot, pressed>>
    PROVE  InOrder'
  BY DEF InOrder, Requests

LEMMA OrderSent ==
    ASSUME TypeOK, InOrder, NEW kind \in Kinds, NEW c \in Calls, Send(kind, c)
    PROVE  InOrder'
  <1>0. /\ Len(sent) \in Nat /\ sent \in Seq(Kinds)
        /\ queue \in Seq(1..Len(sent)) /\ Len(queue) \in Nat
    BY SentIsNat, LenProperties DEF TypeOK
  <1>1. Len(sent') = Len(sent) + 1 /\ Len(queue') = Len(queue) + 1
    BY <1>0 DEF Send
  <1>2. \A i \in 1..Len(queue') : queue'[i] = Len(sent') - Len(queue') + i
    <2>1. SUFFICES ASSUME NEW i \in 1..Len(queue')
                   PROVE  queue'[i] = Len(sent') - Len(queue') + i
      OBVIOUS
    <2>2. CASE i <= Len(queue)
      <3>1. queue'[i] = queue[i]
        BY <1>0, <2>2 DEF Send
      <3>2. queue[i] = Len(sent) - Len(queue) + i
        BY <1>0, <1>1, <2>2 DEF InOrder
      <3> QED BY <1>0, <1>1, <3>1, <3>2
    <2>3. CASE i = Len(queue) + 1
      <3>1. queue'[i] = Len(sent) + 1
        BY <1>0, <2>3 DEF Send
      <3> QED BY <1>0, <1>1, <2>3, <3>1
    <2> QED BY <1>0, <1>1, <2>2, <2>3
  <1>3. card # None => sent'[card] = sent[card]
    BY <1>0 DEF Send, TypeOK
  <1>4. card' = card /\ slot' = slot /\ pressed' = pressed
    BY DEF Send
  <1>5. Len(queue) <= Len(sent) /\ Len(sent') - Len(queue') = Len(sent) - Len(queue)
    BY <1>0, <1>1 DEF InOrder
  <1>6. card' # None => card' = Len(sent') - Len(queue') /\ slot'[sent'[card']] = card'
    BY <1>3, <1>4, <1>5 DEF InOrder
  <1>7. \A r \in Requests : pressed'[r] # None => r <= Len(sent') - Len(queue') /\ r # card'
    BY <1>4, <1>5 DEF InOrder
  <1> QED BY <1>0, <1>1, <1>2, <1>5, <1>6, <1>7 DEF InOrder, Requests

LEMMA OrderShown ==
    ASSUME TypeOK, InOrder, Show
    PROVE  InOrder'
  <1>0. /\ Len(sent) \in Nat /\ queue \in Seq(1..Len(sent)) /\ Len(queue) \in Nat
        /\ sent' = sent /\ pressed' = pressed /\ queue # <<>> /\ queue' = Tail(queue)
        /\ slot \in [Kinds -> Requests \cup {None}] /\ sent \in Seq(Kinds)
    BY SentIsNat, LenProperties DEF TypeOK, Show
  <1>1. Len(queue) > 0 /\ Len(queue') = Len(queue) - 1
    BY <1>0
  <1>2. \A i \in 1..Len(queue') : queue'[i] = queue[i + 1]
    BY <1>0, <1>1
  <1>3. \A i \in 1..Len(queue') : queue'[i] = Len(sent') - Len(queue') + i
    BY <1>0, <1>1, <1>2 DEF InOrder
  <1>4. card' = queue[1] /\ card' \in 1..Len(sent)
    BY <1>0, <1>1 DEF Show
  <1>5. card' = Len(sent') - Len(queue')
    BY <1>0, <1>1, <1>4 DEF InOrder
  <1>6. slot'[sent'[card']] = card'
    <2>1. sent[card'] \in Kinds
      BY <1>0, <1>4
    <2> QED BY <2>1, <1>0, <1>4 DEF Show
  <1>7. \A r \in Requests : pressed'[r] # None => r <= Len(sent') - Len(queue') /\ r # card'
    BY <1>0, <1>1, <1>5 DEF InOrder, Requests
  <1> QED BY <1>0, <1>1, <1>3, <1>5, <1>6, <1>7 DEF InOrder

LEMMA NoneIsNoKey ==
    ASSUME NEW x \in {"allow", "always", "deny", "approve", "reject"}
    PROVE  x # None
  <1>1. x \in Answers
    BY DEF Answers
  <1> QED BY <1>1, ToolGateAssumption

LEMMA RequestsAreNot == None \notin Requests
  BY ToolGateAssumption DEF Requests

LEMMA OrderPressed ==
    ASSUME TypeOK, InOrder, NEW key, Press(key)
    PROVE  /\ InOrder'
           /\ card \in Requests /\ slot[sent[card]] = card /\ pressed[card] = None
           /\ pressed' = [pressed EXCEPT ![card] = key]
  <1>0. Len(sent) \in Nat /\ Len(queue) \in Nat /\ card \in 1..Len(sent)
    BY SentIsNat, LenProperties DEF TypeOK, Press
  <1>1. card \in Requests
    BY <1>0, ToolGateAssumption DEF TypeOK, Requests
  <1>2. pressed[card] = None
    BY <1>1 DEF InOrder
  <1>3. /\ sent' = sent /\ queue' = queue /\ card' = None
        /\ pressed' = [pressed EXCEPT ![card] = key]
    BY DEF Press
  <1>4. card = Len(sent) - Len(queue) /\ slot[sent[card]] = card
    BY <1>0 DEF Press, InOrder
  <1>5. ASSUME NEW r \in Requests, pressed'[r] # None
        PROVE  r <= Len(sent') - Len(queue') /\ r # card'
    <2>1. r # card' /\ r \in Nat
      BY <1>3, ToolGateAssumption, RequestsAreNot DEF Requests
    <2>2. CASE r = card
      BY <2>1, <2>2, <1>3, <1>4, <1>0
    <2>3. CASE r # card
      BY <2>1, <2>3, <1>3, <1>5 DEF InOrder, TypeOK
    <2> QED BY <2>2, <2>3
  <1>6. InOrder'
    BY <1>3, <1>5 DEF InOrder, Requests
  <1> QED BY <1>1, <1>2, <1>3, <1>4, <1>6

LEMMA OrderCardGone ==
    ASSUME InOrder, UNCHANGED <<sent, queue, pressed>>, card' = None
    PROVE  InOrder'
  BY RequestsAreNot DEF InOrder, Requests

LEMMA OrderStep == TypeOK /\ InOrder /\ [Next]_vars => InOrder'
  <1> SUFFICES ASSUME TypeOK, InOrder, [Next]_vars PROVE InOrder'
    OBVIOUS
  <1>1. ASSUME NEW c \in Calls, AskPermission(c) PROVE InOrder'
    BY <1>1, OrderSent DEF AskPermission, Kinds
  <1>2. CASE AskInCall
    <2>1. call.made \in Calls /\ call.made.tool \in Kinds
      BY <1>2, KindsOfCalls DEF AskInCall, TypeOK, Kinds
    <2> QED BY <1>2, <2>1, OrderSent DEF AskInCall
  <1>3. CASE Show
    BY <1>3, OrderShown
  <1>4. ASSUME NEW key, Press(key) PROVE InOrder'
    BY <1>4, OrderPressed
  <1>5. CASE Stop
    BY <1>5, OrderCardGone DEF Stop
  <1>6. CASE CloseCard
    BY <1>6, OrderCardGone DEF CloseCard
  <1>7. ASSUME NEW m, SetTools(m) PROVE InOrder'
    BY <1>7, OrderStays DEF SetTools, screen
  <1>8. CASE SwapSession
    BY <1>8, OrderStays DEF SwapSession, screen
  <1>9. CASE Tick
    BY <1>9, OrderStays DEF Tick, screen
  <1>10. ASSUME NEW c \in Calls, Refuse(c) \/ Pass(c) PROVE InOrder'
    BY <1>10, OrderStays DEF Refuse, Pass, screen
  <1>11. CASE Begin \/ End \/ HookDenies \/ Run \/ NobodyToAsk
    BY <1>11, OrderStays DEF Begin, End, HookDenies, Run, NobodyToAsk, screen
  <1>12. CASE WaitCancelled \/ WaitTimesOut \/ PermissionTaken \/ QuestionTaken \/ PlanTaken
    BY <1>12, OrderStays
       DEF WaitCancelled, WaitTimesOut, PermissionTaken, QuestionTaken, PlanTaken, screen
  <1>13. CASE UNCHANGED vars
    BY <1>13, OrderStays DEF vars, screen
  <1> QED BY <1>1, <1>2, <1>3, <1>4, <1>5, <1>6, <1>7, <1>8, <1>9, <1>10, <1>11, <1>12, <1>13
          DEF Next, Turn, Screen

-----------------------------------------------------------------------------
(* Reasons.                                                                *)

\* A key that was pressed stays, and so does what a card allowed.
LEMMA PressedStays ==
    ASSUME TypeOK, InOrder, [Next]_vars
    PROVE  /\ \A r \in Requests : pressed[r] # None => pressed'[r] = pressed[r]
           /\ granted \subseteq granted'
  <1>1. ASSUME NEW key, Press(key)
        PROVE  /\ \A r \in Requests : pressed[r] # None => pressed'[r] = pressed[r]
               /\ granted' = granted
    <2>1. pressed' = [pressed EXCEPT ![card] = key] /\ pressed[card] = None
      BY <1>1, OrderPressed
    <2> QED BY <2>1, <1>1 DEF TypeOK, Press
  <1>2. ASSUME NEW c \in Calls, Refuse(c) \/ Pass(c) \/ AskPermission(c)
        PROVE  UNCHANGED <<pressed, granted>>
    BY <1>2 DEF Refuse, Pass, AskPermission, Send
  <1>3. ASSUME Begin \/ End \/ HookDenies \/ Run \/ AskInCall \/ NobodyToAsk \/ WaitCancelled
                 \/ WaitTimesOut \/ QuestionTaken
        PROVE  UNCHANGED <<pressed, granted>>
    BY <1>3 DEF Begin, End, HookDenies, Run, AskInCall, Send, NobodyToAsk, WaitCancelled,
                WaitTimesOut, QuestionTaken
  <1>4. ASSUME PermissionTaken \/ PlanTaken
        PROVE  pressed' = pressed /\ granted \subseteq granted'
    BY <1>4 DEF PermissionTaken, PlanTaken, Grant
  <1>5. ASSUME Show \/ Stop \/ CloseCard \/ SwapSession \/ Tick \/ UNCHANGED vars
        PROVE  UNCHANGED <<pressed, granted>>
    BY <1>5 DEF Show, Stop, CloseCard, SwapSession, Tick, vars
  <1>6. ASSUME NEW m, SetTools(m) PROVE UNCHANGED <<pressed, granted>>
    BY <1>6 DEF SetTools
  <1> QED BY <1>1, <1>2, <1>3, <1>4, <1>5, <1>6 DEF Next, Turn, Screen

LEMMA EarlierStays ==
    ASSUME TypeOK, InOrder, [Next]_vars, NEW s, Earlier(s)
    PROVE  Earlier(s)'
  <1>1. PICK g \in granted : g.scope = s /\ pressed[g.id] \in {"always", "approve"}
    BY DEF Earlier
  <1>2. g.id \in Requests
    BY DEF TypeOK
  <1>3. pressed[g.id] # None
    BY <1>1, <1>2, NoneIsNoKey
  <1>4. pressed'[g.id] = pressed[g.id] /\ g \in granted'
    BY <1>2, <1>3, PressedStays
  <1> QED BY <1>1, <1>4 DEF Earlier

LEMMA MayStays ==
    ASSUME TypeOK, InOrder, [Next]_vars, NEW c, NEW m, NEW id \in 0..MaxRequests, May(c, m, id)
    PROVE  May(c, m, id)'
  <1>1. CASE SaidYes(id)
    <2>1. id \in Requests /\ pressed[id] # None
      BY <1>1, NoneIsNoKey, ToolGateAssumption DEF SaidYes, Requests
    <2>2. pressed'[id] = pressed[id]
      BY <2>1, PressedStays
    <2> QED BY <1>1, <2>2 DEF SaidYes, May
  <1>2. CASE c.decision = "ask" /\ Earlier(c.scope)
    BY <1>2, EarlierStays DEF May
  <1>3. CASE Free(c, m)
    BY <1>3 DEF May, Free
  <1> QED BY <1>1, <1>2, <1>3 DEF May

\* A key taken from the channel of a turn that is not stopped was pressed on
\* the call's own card; so was a yes, stopped or not.
LEMMA TakenWasPressed ==
    ASSUME TypeOK, AnswerIsPressed, Taken
    PROVE  /\ call.id \in Requests
           /\ ~cancel \/ answer # "deny" => pressed[call.id] = answer
  BY CallId DEF AnswerIsPressed, Taken, Waits

LEMMA AnswerStep ==
    ASSUME TypeOK, InOrder, AnswerIsPressed, [Next]_vars
    PROVE  AnswerIsPressed'
  <1>1. ASSUME NEW kind, NEW c, Send(kind, c) PROVE AnswerIsPressed'
    BY <1>1, SentIsNat DEF Send, AnswerIsPressed
  <1>2. ASSUME phase' # "waiting" PROVE AnswerIsPressed'
    BY <1>2 DEF AnswerIsPressed
  <1>3. ASSUME UNCHANGED <<phase, call, cancel, answer, pressed>> PROVE AnswerIsPressed'
    BY <1>3 DEF AnswerIsPressed
  <1>4. ASSUME NEW key, Press(key) PROVE AnswerIsPressed'
    <2>0. /\ card \in Requests /\ slot[sent[card]] = card
          /\ pressed' = [pressed EXCEPT ![card] = key]
          /\ UNCHANGED <<phase, call, cancel>> /\ answer' = Through(card, key)
          /\ pressed \in [Requests -> Answers \cup {None}]
      BY <1>4, OrderPressed DEF Press, turn, TypeOK
    <2>1. CASE phase = "waiting" /\ card = call.id
      <3>1. answer' = key /\ pressed'[call.id] = key
        BY <2>0, <2>1 DEF Through
      <3> QED BY <2>0, <3>1 DEF AnswerIsPressed
    <2>2. CASE ~(phase = "waiting" /\ card = call.id)
      <3>1. answer' = answer
        BY <2>0, <2>2 DEF Through
      <3>2. phase = "waiting" => pressed'[call.id] = pressed[call.id]
        BY <2>0, <2>2, CallId DEF AnswerIsPressed
      <3> QED BY <2>0, <3>1, <3>2 DEF AnswerIsPressed
    <2> QED BY <2>1, <2>2
  <1>5. CASE Stop
    <2>1. cancel' = TRUE /\ UNCHANGED <<phase, call, pressed>>
          /\ (answer' = "deny" \/ answer' = answer)
      BY <1>5 DEF Stop, Through
    <2> QED BY <2>1 DEF AnswerIsPressed
  <1>6. CASE PermissionTaken
    BY <1>6, <1>2 DEF PermissionTaken, Finish
  <1>7. CASE QuestionTaken \/ PlanTaken \/ HookDenies \/ Run \/ NobodyToAsk \/ WaitCancelled
               \/ WaitTimesOut \/ Begin \/ End
    BY <1>7, <1>2 DEF QuestionTaken, PlanTaken, HookDenies, Run, NobodyToAsk, WaitCancelled,
                      WaitTimesOut, Begin, End, Finish
  <1>8. ASSUME NEW c \in Calls, Refuse(c) \/ Pass(c) PROVE AnswerIsPressed'
    BY <1>8, <1>2, <1>3 DEF Refuse, Pass, turn
  <1>9. CASE Show \/ CloseCard \/ SwapSession \/ Tick \/ UNCHANGED vars
    BY <1>9, <1>3 DEF Show, CloseCard, SwapSession, Tick, vars, turn
  <1>10. ASSUME NEW m, SetTools(m) PROVE AnswerIsPressed'
    BY <1>10, <1>3 DEF SetTools, turn
  <1>11. ASSUME NEW c \in Calls, AskPermission(c) PROVE AnswerIsPressed'
    BY <1>11, <1>1 DEF AskPermission
  <1>12. CASE AskInCall
    BY <1>12, <1>1 DEF AskInCall
  <1> QED BY <1>4, <1>5, <1>6, <1>7, <1>8, <1>9, <1>10, <1>11, <1>12 DEF Next, Turn, Screen

LEMMA AllowedStep ==
    ASSUME TypeOK, InOrder, AnswerIsPressed, AllowedWasAsked, [Next]_vars
    PROVE  AllowedWasAsked'
  <1>0. \A s \in allowed : Earlier(s)'
    BY EarlierStays DEF AllowedWasAsked
  <1>1. ASSUME allowed' = allowed PROVE AllowedWasAsked'
    BY <1>0, <1>1 DEF AllowedWasAsked
  <1>2. ASSUME NEW scope, Grant(scope), pressed' = pressed,
               pressed[call.id] \in {"always", "approve"}
        PROVE  AllowedWasAsked'
    <2>1. Earlier(scope)'
      <3> DEFINE g == [scope |-> scope, id |-> call.id]
      <3>1. g \in granted' /\ g.scope = scope /\ g.id = call.id
        BY <1>2 DEF Grant
      <3>2. pressed'[g.id] \in {"always", "approve"}
        BY <1>2, <3>1
      <3> QED BY <3>1, <3>2 DEF Earlier
    <2> QED BY <1>0, <1>2, <2>1 DEF Grant, AllowedWasAsked
  <1>3. CASE PermissionTaken
    <2>1. allowed' = allowed \/ (answer = "always" /\ Grant(call.made.scope))
      BY <1>3 DEF PermissionTaken
    <2>2. Taken /\ pressed' = pressed
      BY <1>3 DEF PermissionTaken
    <2> QED BY <2>1, <2>2, <1>1, <1>2, TakenWasPressed
  <1>4. CASE PlanTaken
    <2>1. allowed' = allowed \/ (answer = "approve" /\ Grant("edit"))
      BY <1>4 DEF PlanTaken
    <2>2. Taken /\ pressed' = pressed
      BY <1>4 DEF PlanTaken
    <2> QED BY <2>1, <2>2, <1>1, <1>2, TakenWasPressed
  <1>5. ASSUME NEW c \in Calls, Refuse(c) \/ Pass(c) \/ AskPermission(c) PROVE allowed' = allowed
    BY <1>5 DEF Refuse, Pass, AskPermission, Send
  <1>6. ASSUME Begin \/ End \/ HookDenies \/ Run \/ AskInCall \/ NobodyToAsk \/ WaitCancelled
                 \/ WaitTimesOut \/ QuestionTaken
        PROVE  allowed' = allowed
    BY <1>6 DEF Begin, End, HookDenies, Run, AskInCall, Send, NobodyToAsk, WaitCancelled,
                WaitTimesOut, QuestionTaken
  <1>7. ASSUME Show \/ Stop \/ CloseCard \/ SwapSession \/ Tick \/ UNCHANGED vars
        PROVE  allowed' = allowed
    BY <1>7 DEF Show, Stop, CloseCard, SwapSession, Tick, vars
  <1>8. ASSUME NEW x, Press(x) \/ SetTools(x) PROVE allowed' = allowed
    BY <1>8 DEF Press, SetTools
  <1> QED BY <1>1, <1>3, <1>4, <1>5, <1>6, <1>7, <1>8 DEF Next, Turn, Screen

LEMMA SettledMay ==
    ASSUME AllowedWasAsked, NEW c, Settled(c)
    PROVE  May(c, mode, 0)
  BY DEF AllowedWasAsked, Settled, May, Free

LEMMA HooksStep ==
    ASSUME TypeOK, InOrder, AnswerIsPressed, AllowedWasAsked, HooksAreFor, [Next]_vars
    PROVE  HooksAreFor'
  <1>1. ASSUME phase' # "hooks" PROVE HooksAreFor'
    BY <1>1 DEF HooksAreFor
  <1>2. ASSUME UNCHANGED <<phase, call, mode>> PROVE HooksAreFor'
    <2>1. CASE phase = "hooks" /\ call.made.tool = "tool"
      <3>1. May(call.made, mode, call.id)'
        BY <2>1, <1>2, MayStays, CallId DEF HooksAreFor, May, Free, SaidYes, Earlier
      <3> QED BY <3>1 DEF HooksAreFor
    <2>2. CASE ~(phase = "hooks" /\ call.made.tool = "tool")
      BY <2>2, <1>2 DEF HooksAreFor
    <2> QED BY <2>1, <2>2
  <1>3. ASSUME NEW c \in Calls, Pass(c) PROVE HooksAreFor'
    <2>1. May(c, mode, 0)
      BY <1>3, SettledMay DEF Pass
    <2>2. UNCHANGED <<mode, pressed, granted>> /\ call' = [made |-> c, id |-> 0]
      BY <1>3 DEF Pass
    <2> QED BY <2>1, <2>2 DEF HooksAreFor, May, Free, SaidYes, Earlier
  <1>4. CASE PermissionTaken
    <2>1. CASE answer \in {"allow", "always"}
      <3>1. call.id \in Requests /\ pressed[call.id] = answer /\ call.id # 0
        BY <1>4, <2>1, TakenWasPressed DEF PermissionTaken, Requests
      <3>2. UNCHANGED <<call, mode, pressed>>
        BY <1>4, <2>1 DEF PermissionTaken
      <3> QED BY <2>1, <3>1, <3>2 DEF HooksAreFor, May, SaidYes
    <2>2. CASE answer \notin {"allow", "always"}
      BY <1>1, <1>4, <2>2 DEF PermissionTaken, Finish
    <2> QED BY <2>1, <2>2
  <1>5. CASE QuestionTaken \/ PlanTaken \/ HookDenies \/ Run \/ NobodyToAsk \/ WaitCancelled
               \/ WaitTimesOut \/ Begin \/ End \/ AskInCall
    BY <1>5, <1>1 DEF QuestionTaken, PlanTaken, HookDenies, Run, NobodyToAsk, WaitCancelled,
                      WaitTimesOut, Begin, End, Finish, AskInCall, Send
  <1>6. ASSUME NEW c \in Calls, Refuse(c) \/ AskPermission(c) PROVE HooksAreFor'
    BY <1>6, <1>1 DEF Refuse, AskPermission, Send, turn
  <1>7. CASE Show \/ Stop \/ CloseCard \/ SwapSession \/ Tick \/ UNCHANGED vars
    BY <1>7, <1>2 DEF Show, Stop, CloseCard, SwapSession, Tick, vars, turn
  <1>8. ASSUME NEW x, Press(x) PROVE HooksAreFor'
    BY <1>8, <1>2 DEF Press, turn
  <1>9. ASSUME NEW m, SetTools(m) PROVE HooksAreFor'
    BY <1>9, <1>1 DEF SetTools, turn
  <1> QED BY <1>3, <1>4, <1>5, <1>6, <1>7, <1>8, <1>9 DEF Next, Turn, Screen

\* What a finished call is, is what it was.
LEMMA FinishJust ==
    ASSUME TypeOK, InOrder, [Next]_vars, NEW how, NEW next, Finish(how, next),
           how = "ran" /\ call.made.tool = "tool" => May(call.made, mode, call.id),
           how = "denied" => call.id # 0 /\ pressed[call.id] \in {"deny", "reject"}
    PROVE  LastIsJust'
  <1>0. /\ last'.id = call.id /\ last'.made = call.made /\ last'.mode = mode
        /\ last'.ended = how
    BY DEF Finish
  <1>1. call.id \in 0..MaxRequests /\ (call.id # 0 => call.id \in Requests)
    BY CallId
  <1>2. ASSUME how = "ran", call.made.tool = "tool" PROVE May(last.made, last.mode, last.id)'
    <2>1. May(call.made, mode, call.id)
      BY <1>2
    <2>2. May(last'.made, last'.mode, last'.id)
      BY <2>1, <1>0
    <2> QED BY <2>2, <1>0, <1>1, MayStays DEF May, Free, SaidYes, Earlier
  <1>3. DeniedMeansNo'
    <2>1. ASSUME how = "denied"
          PROVE  last'.id # 0 /\ pressed'[last'.id] \in {"deny", "reject"}
      <3>1. call.id \in Requests /\ pressed[call.id] \in {"deny", "reject"}
        BY <2>1, <1>1
      <3>2. pressed'[call.id] = pressed[call.id]
        BY <3>1, NoneIsNoKey, PressedStays
      <3> QED BY <3>1, <3>2, <2>1, <1>0
    <2> QED BY <2>1, <1>0 DEF DeniedMeansNo
  <1> QED BY <1>0, <1>1, <1>2, <1>3 DEF LastIsJust

LEMMA LastStays ==
    ASSUME TypeOK, InOrder, [Next]_vars, LastIsJust, last' = last
    PROVE  LastIsJust'
  <1>0. last.id \in 0..MaxRequests
    BY DEF LastIsJust
  <1>1. ASSUME last.ended = "ran", last.made.tool = "tool"
        PROVE  May(last.made, last.mode, last.id)'
    <2>1. May(last.made, last.mode, last.id)
      BY <1>1 DEF LastIsJust
    <2> QED BY <2>1, <1>0, MayStays DEF May, Free, SaidYes, Earlier
  <1>2. DeniedMeansNo'
    <2>1. ASSUME last.ended = "denied"
          PROVE  last.id # 0 /\ pressed'[last.id] \in {"deny", "reject"}
      <3>1. last.id # 0 /\ last.id \in Requests /\ pressed[last.id] \in {"deny", "reject"}
        BY <2>1, <1>0, ToolGateAssumption DEF LastIsJust, DeniedMeansNo, Requests
      <3>2. pressed'[last.id] = pressed[last.id]
        BY <3>1, NoneIsNoKey, PressedStays
      <3> QED BY <3>1, <3>2
    <2> QED BY <2>1 DEF DeniedMeansNo
  <1> QED BY <1>0, <1>1, <1>2 DEF LastIsJust

LEMMA LastCleared ==
    ASSUME last' = NothingYet \/ last' = [NothingYet EXCEPT !.ended = "refused"]
    PROVE  LastIsJust'
  BY ToolGateAssumption DEF NothingYet, LastIsJust, DeniedMeansNo

LEMMA LastStep ==
    ASSUME IInv, [Next]_vars
    PROVE  LastIsJust'
  <1> USE DEF IInv, Reasons
  <1>1. CASE Run
    BY <1>1, FinishJust DEF Run, HooksAreFor
  <1>2. CASE HookDenies \/ NobodyToAsk \/ WaitCancelled \/ WaitTimesOut
    BY <1>2, FinishJust DEF HookDenies, NobodyToAsk, WaitCancelled, WaitTimesOut
  <1>3. CASE PermissionTaken
    <2>1. Taken /\ call.id \in Requests /\ call.id # 0
      BY <1>3, TakenWasPressed DEF PermissionTaken, Requests
    <2>2. CASE last' = last
      BY <2>2, LastStays
    <2>3. CASE answer = "deny" /\ cancel /\ Finish("cancelled", "idle")
      BY <2>3, FinishJust
    <2>4. CASE answer = "deny" /\ ~cancel /\ Finish("denied", "working")
      BY <2>1, <2>4, TakenWasPressed, FinishJust
    <2> QED BY <1>3, <2>2, <2>3, <2>4 DEF PermissionTaken
  <1>4. CASE QuestionTaken
    BY <1>4, FinishJust DEF QuestionTaken
  <1>5. CASE PlanTaken
    <2>0. Taken /\ call.made.tool = "plan"
      BY <1>5 DEF PlanTaken
    <2>1. call.id \in Requests /\ call.id # 0
      BY <2>0, TakenWasPressed DEF Requests
    <2>2. CASE \E how \in {"cancelled", "ran", "not saved"}, next \in {"idle", "working"} :
                  Finish(how, next)
      BY <2>0, <2>1, <2>2, FinishJust
    <2>3. CASE answer = "reject" /\ Finish("denied", "working")
      BY <2>0, <2>1, <2>3, TakenWasPressed, FinishJust
    <2> QED BY <1>5, <2>2, <2>3 DEF PlanTaken
  <1>6. ASSUME NEW c \in Calls, Refuse(c) \/ Pass(c) \/ AskPermission(c) PROVE LastIsJust'
    BY <1>6, LastCleared DEF Refuse, Pass, AskPermission
  <1>7. CASE Begin
    BY <1>7, LastCleared DEF Begin
  <1>8. CASE End \/ AskInCall \/ Show \/ Stop \/ CloseCard \/ SwapSession \/ Tick
               \/ UNCHANGED vars
    BY <1>8, LastStays DEF End, AskInCall, Show, Stop, CloseCard, SwapSession, Tick, vars
  <1>9. ASSUME NEW x, Press(x) \/ SetTools(x) PROVE LastIsJust'
    BY <1>9, LastStays DEF Press, SetTools
  <1> QED BY <1>1, <1>2, <1>3, <1>4, <1>5, <1>6, <1>7, <1>8, <1>9 DEF Next, Turn, Screen

-----------------------------------------------------------------------------
LEMMA InitIInv == Init => IInv
  <1> SUFFICES ASSUME Init PROVE IInv
    OBVIOUS
  <1>1. TypeOK
    <2>1. sent = <<>> /\ queue = <<>> /\ Len(sent) = 0
      BY DEF Init
    <2>2. SessionTyped
      BY ToolGateAssumption DEF Init, SessionTyped, Requests
    <2>3. TurnTyped
      <3>1. call \in [made : Calls \cup {None}, id : 0..Len(sent)]
        BY CallShape DEF Init
      <3>2. sent \in Seq(Kinds)
        BY <2>1
      <3>3. phase = "idle" /\ cancel = FALSE /\ left \in 0..Wait /\ 0 <= MaxRequests
        BY ToolGateAssumption DEF Init
      <3> QED BY <2>1, <3>1, <3>2, <3>3 DEF TurnTyped
    <2>4. ScreenTyped
      BY <2>1 DEF Init, ScreenTyped
    <2> QED BY <2>2, <2>3, <2>4, TypeParts
  <1>2. InOrder
    BY DEF Init, InOrder
  <1>3. Reasons
    BY ToolGateAssumption
       DEF Init, Reasons, AnswerIsPressed, AllowedWasAsked, HooksAreFor, LastIsJust, NothingYet,
           DeniedMeansNo
  <1> QED BY <1>1, <1>2, <1>3 DEF IInv

LEMMA NextIInv == IInv /\ [Next]_vars => IInv'
  <1> SUFFICES ASSUME IInv, [Next]_vars PROVE IInv'
    OBVIOUS
  <1>1. TypeOK'
    BY TypeTurn, TypeScreen, TypeStutter DEF IInv, Reasons, Next
  <1>2. InOrder'
    BY OrderStep DEF IInv
  <1>3. Reasons'
    BY AnswerStep, AllowedStep, HooksStep, LastStep DEF IInv, Reasons
  <1> QED BY <1>1, <1>2, <1>3 DEF IInv

LEMMA IInvJust == IInv => NothingRunsUnasked
  BY DEF IInv, Reasons, LastIsJust, May, Free, Earlier, NothingRunsUnasked

THEOREM Invariant == Spec => []IInv
  BY InitIInv, NextIInv, PTL DEF Spec

\* The variables stay of their types (ToolGate.tla), for any scopes, wait and
\* numbers of requests and sessions.
THEOREM Types == Spec => []TypeOK
  <1>1. IInv => TypeOK
    BY DEF IInv
  <1> QED BY <1>1, Invariant, PTL

\* A call that ran was free to, or was allowed by a key on its own card, by
\* the mode, or by an earlier card of its kind (tools/mod.rs, gated_execute),
\* however many dead cards, late answers and stops there are.
THEOREM WhatRunsWasAllowed == Spec => []NothingRunsUnasked
  BY Invariant, IInvJust, PTL

\* A call is said to be denied only by the user's no on its own card.
THEOREM ANoIsTheUsers == Spec => []DeniedMeansNo
  <1>1. IInv => DeniedMeansNo
    BY DEF IInv, Reasons, LastIsJust
  <1> QED BY <1>1, Invariant, PTL
=============================================================================
