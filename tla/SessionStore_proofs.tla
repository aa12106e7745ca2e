------------------------ MODULE SessionStore_proofs ------------------------
(* Proofs about SessionStore, for any number of Ryters, of messages and of *)
(* appends cut short.                                                      *)
EXTENDS SessionStore, SequenceTheorems, FiniteSetTheorems, TLAPS

Row == SUBSET (1..MaxRows)

\* While a Ryter opens the session it holds the lock, nobody else writes the
\* transcript, and its memory is the file's complete rows.
OpenersHoldTheFile ==
    \A r \in Ryters : pc[r] \in {"marking", "opening"} =>
        lock = r /\ memory[r] = transcript.rows

-----------------------------------------------------------------------------
(* Rows.                                                                   *)

\* The messages of two parts of a transcript are those of each.
LEMMA MessagesOfParts ==
    ASSUME NEW S, NEW s \in Seq(S), NEW t \in Seq(S)
    PROVE  Messages(s \o t) = Messages(s) \cup Messages(t)
  <1>1. /\ s \o t \in Seq(S) /\ Len(s \o t) = Len(s) + Len(t)
        /\ Len(s) \in Nat /\ Len(t) \in Nat
        /\ \A i \in 1 .. Len(s) + Len(t) :
              (s \o t)[i] = IF i <= Len(s) THEN s[i] ELSE t[i - Len(s)]
    BY ConcatProperties, LenProperties
  <1>2. /\ DOMAIN s = 1..Len(s) /\ DOMAIN t = 1..Len(t)
        /\ DOMAIN (s \o t) = 1 .. Len(s) + Len(t)
    BY <1>1, LenProperties
  <1>3. \A i \in DOMAIN s : i \in DOMAIN (s \o t) /\ (s \o t)[i] = s[i]
    BY <1>1, <1>2
  <1>4. \A i \in DOMAIN t : Len(s) + i \in DOMAIN (s \o t) /\ (s \o t)[Len(s) + i] = t[i]
    BY <1>1, <1>2
  <1>5. \A i \in DOMAIN (s \o t) :
           \/ i \in DOMAIN s /\ (s \o t)[i] = s[i]
           \/ i - Len(s) \in DOMAIN t /\ (s \o t)[i] = t[i - Len(s)]
    BY <1>1, <1>2
  <1>6. ToSet(s) \subseteq ToSet(s \o t)
    BY <1>3 DEF ToSet
  <1>7. ToSet(t) \subseteq ToSet(s \o t)
    BY <1>4 DEF ToSet
  <1>8. ToSet(s \o t) \subseteq ToSet(s) \cup ToSet(t)
    BY <1>5 DEF ToSet
  <1> QED BY <1>6, <1>7, <1>8 DEF Messages

\* One row's messages are the row.
LEMMA MessagesOfRow ==
    ASSUME NEW e
    PROVE  Messages(<<e>>) = e
  <1>1. ToSet(<<e>>) = {e}
    BY DEF ToSet
  <1> QED BY <1>1 DEF Messages

LEMMA MessagesOfAppend ==
    ASSUME NEW S, NEW s \in Seq(S), NEW e \in S
    PROVE  Messages(Append(s, e)) = Messages(s) \cup e
  <1>1. Append(s, e) = s \o <<e>>
    BY AppendIsConcat
  <1>2. <<e>> \in Seq(S)
    OBVIOUS
  <1>3. Messages(s \o <<e>>) = Messages(s) \cup Messages(<<e>>)
    BY <1>2, MessagesOfParts
  <1> QED BY <1>1, <1>3, MessagesOfRow

LEMMA MessagesType ==
    ASSUME NEW rows \in Seq(Row)
    PROVE  Messages(rows) \in Row
  BY DEF Messages, ToSet, Row

\* What a rewrite puts in the transcript's place is rows again, with every
\* message of those it was made from and the new one.
LEMMA RewrittenKeeps ==
    ASSUME NEW rows \in Seq(Row), NEW k \in 1..Len(rows), NEW n \in 1..MaxRows,
           NEW mine \in {Compacted(rows, k, n), Repaired(rows, k, n)}
    PROVE  mine \in Seq(Row) /\ Messages(mine) = Messages(rows) \cup {n}
  <1> DEFINE head == SubSeq(rows, 1, k)
             tail == SubSeq(rows, k + 1, Len(rows))
  <1>1. head \in Seq(Row) /\ tail \in Seq(Row)
    OBVIOUS
  <1>2. head \o tail = rows
    BY ConcatAdjacentSubSeq, SubSeqFull
  <1>3. Messages(rows) = Messages(head) \cup Messages(tail)
    BY <1>1, <1>2, MessagesOfParts
  <1>4. {n} \in Row /\ Messages(head) \cup {n} \in Row
    BY <1>1, MessagesType DEF Row
  <1>5. CASE mine = Compacted(rows, k, n)
    <2>1. mine = <<Messages(head) \cup {n}>> \o tail
      BY <1>5 DEF Compacted
    <2>2. <<Messages(head) \cup {n}>> \in Seq(Row)
      BY <1>4
    <2>3. Messages(<<Messages(head) \cup {n}>>) = Messages(head) \cup {n}
      BY MessagesOfRow
    <2>4. Messages(mine) = Messages(<<Messages(head) \cup {n}>>) \cup Messages(tail)
      BY <1>1, <2>1, <2>2, MessagesOfParts
    <2>5. mine \in Seq(Row)
      BY <1>1, <2>1, <2>2, ConcatProperties
    <2> QED BY <1>3, <2>3, <2>4, <2>5
  <1>6. CASE mine = Repaired(rows, k, n)
    <2>1. mine = (head \o <<{n}>>) \o tail
      BY <1>6 DEF Repaired
    <2>2. <<{n}>> \in Seq(Row) /\ head \o <<{n}>> \in Seq(Row)
      BY <1>1, <1>4, ConcatProperties
    <2>3. Messages(<<{n}>>) = {n}
      BY MessagesOfRow
    <2>4. Messages(head \o <<{n}>>) = Messages(head) \cup Messages(<<{n}>>)
      BY <1>1, <2>2, <1>4, MessagesOfParts
    <2>5. Messages(mine) = Messages(head \o <<{n}>>) \cup Messages(tail)
      <3> DEFINE front == head \o <<{n}>>
      <3>1. front \in Seq(Row) /\ mine = front \o tail
        BY <2>1, <2>2
      <3> HIDE DEF front
      <3>2. Messages(mine) = Messages(front) \cup Messages(tail)
        BY <1>1, <3>1, MessagesOfParts
      <3> QED BY <3>2 DEF front
    <2>6. mine \in Seq(Row)
      BY <1>1, <2>1, <2>2, ConcatProperties
    <2> QED BY <1>3, <2>3, <2>4, <2>5, <2>6
  <1> QED BY <1>5, <1>6

-----------------------------------------------------------------------------
(* Types.                                                                  *)

LEMMA ConstantsType ==
    /\ None \notin Ryters
    /\ MaxRows \in Nat /\ MaxCalls \in Nat /\ MaxTears \in Nat /\ MaxFullDisks \in Nat
  BY StoreAssumption

LEMMA ReconcileType ==
    ASSUME NEW m \in Meta, NEW log \in Seq(Costs \cup {"torn"}), NEW torn \in BOOLEAN
    PROVE  Marked(Reconcile(m, log), torn) \in Meta
  <1>1. LedgerTotal(log) \in Nat
    <2>1. IsFiniteSet(DOMAIN log)
      BY FS_Interval, LenProperties
    <2>2. IsFiniteSet({i \in DOMAIN log : log[i] \in {"priced", "partial"}})
      BY <2>1, FS_Subset
    <2> QED BY <2>2, FS_CardinalityType DEF LedgerTotal
  <1>2. Reconcile(m, log) \in Meta
    BY <1>1 DEF Reconcile, Meta
  <1> QED BY <1>2 DEF Marked, Meta

LEMMA CountType ==
    ASSUME NEW m \in Meta, NEW cost \in Costs
    PROVE  Count(m, cost) \in Meta
  BY DEF Count, Meta, Costs

LEMMA LogParts ==
    ASSUME NEW S, NEW log \in Seq(S), log # <<>>
    PROVE  Front(log) \in Seq(S)
  BY DEF Front

LEMMA CompleteType ==
    ASSUME NEW S, NEW log \in Seq(S)
    PROVE  Complete(log) \in Seq(S)
  BY LogParts DEF Complete, TornTail

LEMMA TypeInit == Init => TypeOK
  <1> SUFFICES ASSUME Init PROVE TypeOK
    OBVIOUS
  <1>1. NoFile \in [rows : Seq(SUBSET (1..MaxRows)), torn : BOOLEAN] /\ NewMeta \in Meta
    BY DEF NoFile, NewMeta, Meta
  <1>2. \A r \in Ryters : lock # r /\ pc[r] = "off"
    BY ConstantsType DEF Init
  <1>3. /\ memory \in [Ryters -> Seq(SUBSET (1..MaxRows))]
        /\ ledger \in Seq(Costs \cup {"torn"})
        /\ pc \in [Ryters -> {"off", "marking", "opening", "ready", "counting"}]
    BY DEF Init
  <1>4. written \in 0..MaxRows
    BY ConstantsType DEF Init
  <1> QED BY <1>1, <1>2, <1>3, <1>4 DEF Init, TypeOK

LEMMA TypeNext == TypeOK /\ [Next]_vars => TypeOK'
  <1> SUFFICES ASSUME TypeOK, [Next]_vars PROVE TypeOK'
    OBVIOUS
  <1> USE ConstantsType DEF TypeOK
  <1>t. NoFile \in [rows : Seq(Row), torn : BOOLEAN] /\ NewMeta \in Meta /\ <<>> \in Seq(Row)
    BY DEF NoFile, NewMeta, Meta
  <1>m. ASSUME written < MaxRows PROVE {written + 1} \in Row /\ written + 1 \in 1..MaxRows
    BY <1>m DEF Row
  <1>1. CASE UNCHANGED vars
    BY <1>1 DEF vars
  <1>2. ASSUME NEW r \in Ryters, Open(r) PROVE TypeOK'
    <2>1. Marked(Reconcile(disk, Complete(ledger)), transcript.torn \/ TornTail(ledger)) \in Meta
      BY CompleteType, ReconcileType DEF TornTail
    <2> QED BY <1>2, <2>1 DEF Open, counters
  <1>3. ASSUME NEW r \in Ryters, MarkMeta(r) PROVE TypeOK'
    BY <1>3 DEF MarkMeta, counters
  <1>4. ASSUME NEW r \in Ryters, RecoverTranscript(r) PROVE TypeOK'
    BY <1>4 DEF RecoverTranscript, ryter, counters
  <1>5. ASSUME NEW r \in Ryters, RecoverLedger(r) PROVE TypeOK'
    BY <1>5, LogParts DEF RecoverLedger, TornTail, ryter, counters
  <1>6. ASSUME NEW r \in Ryters, FinishOpen(r) PROVE TypeOK'
    BY <1>6 DEF FinishOpen, counters
  <1>7. ASSUME NEW r \in Ryters, PushMessage(r) PROVE TypeOK'
    <2>1. written' \in 1..MaxRows /\ {written'} \in Row
      BY <1>7, <1>m DEF PushMessage
    <2>2. /\ Append(transcript.rows, {written'}) \in Seq(Row)
          /\ Append(memory[r], {written'}) \in Seq(Row)
      BY <2>1 DEF Row
    <2>3. transcript' \in [rows : Seq(Row), torn : BOOLEAN]
      BY <1>7, <2>2 DEF PushMessage, Row
    <2>4. memory' \in [Ryters -> Seq(Row)]
      BY <1>7, <2>2 DEF PushMessage, Row
    <2>5. seen' \in [Ryters -> [rows : Seq(Row), torn : BOOLEAN]]
      BY <1>7, <2>3 DEF PushMessage, Row
    <2> QED BY <1>7, <2>1, <2>3, <2>4, <2>5 DEF PushMessage, Row
  <1>8. ASSUME NEW r \in Ryters, TearMessage(r) PROVE TypeOK'
    <2>1. transcript' \in [rows : Seq(Row), torn : BOOLEAN]
      BY <1>8 DEF TearMessage, Row
    <2>2. CASE tears' = tears + 1 /\ pc' = [pc EXCEPT ![r] = "off"] /\ Forgotten(r) /\ full' = full
      <3>1. /\ memory' \in [Ryters -> Seq(Row)] /\ meta' \in [Ryters -> Meta]
            /\ seen' \in [Ryters -> [rows : Seq(Row), torn : BOOLEAN]]
        BY <2>2, <1>t DEF Forgotten, Row
      <3>2. /\ pc' \in [Ryters -> {"off", "marking", "opening", "ready", "counting"}]
            /\ \A q \in Ryters : pc'[q] \in {"marking", "opening"}
                                  <=> pc[q] \in {"marking", "opening"}
        BY <1>8, <2>2 DEF TearMessage
      <3>3. UNCHANGED <<ledger, disk, lock, written, lost, shared>>
        BY <1>8 DEF TearMessage
      <3> QED BY <2>1, <2>2, <3>1, <3>2, <3>3 DEF Row
    <2>3. CASE /\ full' = full + 1 /\ seen' = [seen EXCEPT ![r] = transcript]
               /\ memory' = [memory EXCEPT ![r] = IF transcript = seen[r] THEN @ ELSE transcript.rows]
               /\ UNCHANGED <<pc, meta, tears>>
      BY <1>8, <2>1, <2>3 DEF TearMessage, Row
    <2> QED BY <1>8, <2>2, <2>3 DEF TearMessage
  <1>9. ASSUME NEW r \in Ryters, ReplaceTranscript(r) PROVE TypeOK'
    <2>1. PICK k \in 1..Len(memory[r]) :
            \E mine \in {Compacted(memory[r], k, written'), Repaired(memory[r], k, written')} :
              transcript' = [transcript EXCEPT !.rows =
                               mine \o (IF transcript = seen[r] THEN <<>> ELSE Behind(r))]
      BY <1>9 DEF ReplaceTranscript
    <2>2. PICK mine \in {Compacted(memory[r], k, written'), Repaired(memory[r], k, written')} :
              transcript' = [transcript EXCEPT !.rows =
                               mine \o (IF transcript = seen[r] THEN <<>> ELSE Behind(r))]
      BY <2>1
    <2>3. written' \in 1..MaxRows
      BY <1>9, <1>m DEF ReplaceTranscript
    <2>4. memory[r] \in Seq(Row)
      BY DEF Row
    <2>5. mine \in Seq(Row)
      BY <2>2, <2>3, <2>4, RewrittenKeeps
    <2>6. Behind(r) \in Seq(Row)
      BY DEF Behind, Row
    <2>7. transcript'.rows \in Seq(Row) /\ transcript' \in [rows : Seq(Row), torn : BOOLEAN]
      BY <2>2, <2>5, <2>6, <1>t, ConcatProperties DEF Row
    <2>8. /\ memory' \in [Ryters -> Seq(Row)]
          /\ seen' \in [Ryters -> [rows : Seq(Row), torn : BOOLEAN]]
      BY <1>9, <2>7 DEF ReplaceTranscript, Row
    <2>9. /\ disk' \in Meta
          /\ UNCHANGED <<ledger, lock, pc, meta, tears, full, lost, shared>>
      BY <1>9 DEF ReplaceTranscript
    <2> QED BY <2>3, <2>7, <2>8, <2>9 DEF Row
  <1>10. ASSUME NEW r \in Ryters, ReplaceRefused(r) PROVE TypeOK'
    BY <1>10 DEF ReplaceRefused, counters
  <1>11. ASSUME NEW r \in Ryters, RecordSpend(r) PROVE TypeOK'
    BY <1>11, CountType DEF RecordSpend, counters
  <1>12. ASSUME NEW r \in Ryters, CountSpend(r) PROVE TypeOK'
    BY <1>12 DEF CountSpend, counters
  <1>13. ASSUME NEW r \in Ryters, TearSpend(r) PROVE TypeOK'
    BY <1>13, <1>t DEF TearSpend, Forgotten, Row
  <1>14. ASSUME NEW r \in Ryters, SpendFails(r) PROVE TypeOK'
    BY <1>14 DEF SpendFails, ryter
  <1>15. ASSUME NEW r \in Ryters, Touch(r) PROVE TypeOK'
    BY <1>15 DEF Touch, ryter, counters
  <1>16. ASSUME NEW r \in Ryters, Close(r) PROVE TypeOK'
    BY <1>16, <1>t DEF Close, Forgotten, counters, Row
  <1> QED
    BY <1>1, <1>2, <1>3, <1>4, <1>5, <1>6, <1>7, <1>8, <1>9, <1>10, <1>11, <1>12, <1>13,
       <1>14, <1>15, <1>16 DEF Next

\* Every reachable state is well typed, and the lock belongs to whoever is
\* opening the session (session.rs, `open`, `lock_logs`).
THEOREM TypeCorrect == Spec => []TypeOK
  BY TypeInit, TypeNext, PTL DEF Spec

-----------------------------------------------------------------------------
(* What a Ryter takes the file for.  A rewrite trusts `seen`: where it is  *)
(* the file, memory is the file, and what is made of memory loses nothing. *)

LEMMA SeenInit == Init => OpenersHoldTheFile /\ SeenIsInMemory
  BY DEF Init, OpenersHoldTheFile, SeenIsInMemory

LEMMA SeenNext ==
    TypeOK /\ OpenersHoldTheFile /\ SeenIsInMemory /\ [Next]_vars
      => (OpenersHoldTheFile /\ SeenIsInMemory)'
  <1> SUFFICES ASSUME TypeOK, OpenersHoldTheFile, SeenIsInMemory, [Next]_vars
               PROVE  (OpenersHoldTheFile /\ SeenIsInMemory)'
    OBVIOUS
  <1> USE ConstantsType DEF OpenersHoldTheFile, SeenIsInMemory
  <1>t. /\ memory \in [Ryters -> Seq(Row)]
        /\ seen \in [Ryters -> [rows : Seq(Row), torn : BOOLEAN]]
        /\ transcript \in [rows : Seq(Row), torn : BOOLEAN]
        /\ pc \in [Ryters -> {"off", "marking", "opening", "ready", "counting"}]
    BY DEF TypeOK, Row
  <1>f. ASSUME lock = None PROVE \A r \in Ryters : pc[r] \notin {"marking", "opening"}
    BY <1>f
  <1>1. CASE UNCHANGED vars
    BY <1>1 DEF vars
  <1>2. ASSUME NEW r \in Ryters, Open(r) PROVE (OpenersHoldTheFile /\ SeenIsInMemory)'
    BY <1>2, <1>f, <1>t DEF Open
  <1>3. ASSUME NEW r \in Ryters, MarkMeta(r) PROVE (OpenersHoldTheFile /\ SeenIsInMemory)'
    BY <1>3, <1>t DEF MarkMeta
  <1>4. ASSUME NEW r \in Ryters, RecoverTranscript(r)
        PROVE  (OpenersHoldTheFile /\ SeenIsInMemory)'
    BY <1>4, <1>t DEF RecoverTranscript, ryter
  <1>5. ASSUME NEW r \in Ryters, RecoverLedger(r) PROVE (OpenersHoldTheFile /\ SeenIsInMemory)'
    BY <1>5 DEF RecoverLedger, ryter
  <1>6. ASSUME NEW r \in Ryters, FinishOpen(r) PROVE (OpenersHoldTheFile /\ SeenIsInMemory)'
    BY <1>6, <1>t DEF FinishOpen
  <1>7. ASSUME NEW r \in Ryters, PushMessage(r) PROVE (OpenersHoldTheFile /\ SeenIsInMemory)'
    BY <1>7, <1>f, <1>t DEF PushMessage
  <1>8. ASSUME NEW r \in Ryters, TearMessage(r) PROVE (OpenersHoldTheFile /\ SeenIsInMemory)'
    <2>1. CASE Forgotten(r) /\ pc' = [pc EXCEPT ![r] = "off"]
      BY <1>8, <1>f, <1>t, <2>1 DEF TearMessage, Forgotten
    <2>2. CASE UNCHANGED pc
      <3>1. /\ memory' = [memory EXCEPT ![r] = IF transcript = seen[r] THEN @ ELSE transcript.rows]
            /\ seen' = [seen EXCEPT ![r] = transcript]
            /\ pc[r] = "ready" /\ lock = None /\ ~transcript.torn
        BY <1>8, <1>t, <2>2 DEF TearMessage
      <3>2. OpenersHoldTheFile'
        BY <1>f, <2>2, <3>1
      <3>3. SeenIsInMemory'
        BY <1>t, <2>2, <3>1
      <3> QED BY <3>2, <3>3
    <2> QED BY <1>8, <2>1, <2>2 DEF TearMessage
  <1>9. ASSUME NEW r \in Ryters, ReplaceTranscript(r)
        PROVE  (OpenersHoldTheFile /\ SeenIsInMemory)'
    BY <1>9, <1>f, <1>t DEF ReplaceTranscript
  <1>10. ASSUME NEW r \in Ryters, ReplaceRefused(r)
         PROVE  (OpenersHoldTheFile /\ SeenIsInMemory)'
    BY <1>10, <1>f, <1>t DEF ReplaceRefused
  <1>11. ASSUME NEW r \in Ryters, RecordSpend(r) PROVE (OpenersHoldTheFile /\ SeenIsInMemory)'
    BY <1>11, <1>f, <1>t DEF RecordSpend
  <1>12. ASSUME NEW r \in Ryters, CountSpend(r) PROVE (OpenersHoldTheFile /\ SeenIsInMemory)'
    BY <1>12, <1>t DEF CountSpend
  <1>13. ASSUME NEW r \in Ryters, TearSpend(r) PROVE (OpenersHoldTheFile /\ SeenIsInMemory)'
    BY <1>13, <1>f, <1>t DEF TearSpend, Forgotten
  <1>14. ASSUME NEW r \in Ryters, SpendFails(r) PROVE (OpenersHoldTheFile /\ SeenIsInMemory)'
    BY <1>14 DEF SpendFails, ryter
  <1>15. ASSUME NEW r \in Ryters, Touch(r) PROVE (OpenersHoldTheFile /\ SeenIsInMemory)'
    BY <1>15 DEF Touch, ryter
  <1>16. ASSUME NEW r \in Ryters, Close(r) PROVE (OpenersHoldTheFile /\ SeenIsInMemory)'
    BY <1>16, <1>t DEF Close, Forgotten
  <1> QED
    BY <1>1, <1>2, <1>3, <1>4, <1>5, <1>6, <1>7, <1>8, <1>9, <1>10, <1>11, <1>12, <1>13,
       <1>14, <1>15, <1>16 DEF Next

\* A Ryter that has the session open and takes the file for the one it knows
\* holds that file in memory (session.rs, `push_message`, `take_in`).
THEOREM MemoryIsWhatWasSeen == Spec => []SeenIsInMemory
  <1>1. TypeOK /\ OpenersHoldTheFile /\ SeenIsInMemory /\ [Next]_vars
          => (TypeOK /\ OpenersHoldTheFile /\ SeenIsInMemory)'
    BY TypeNext, SeenNext
  <1> QED BY TypeInit, SeenInit, <1>1, PTL DEF Spec

LEMMA KeepsNext ==
    TypeOK /\ SeenIsInMemory /\ NothingLost /\ [Next]_vars => NothingLost'
  <1> SUFFICES ASSUME TypeOK, SeenIsInMemory, NothingLost, [Next]_vars PROVE NothingLost'
    OBVIOUS
  <1> USE DEF NothingLost
  <1>t. /\ memory \in [Ryters -> Seq(Row)] /\ transcript \in [rows : Seq(Row), torn : BOOLEAN]
        /\ seen \in [Ryters -> [rows : Seq(Row), torn : BOOLEAN]]
        /\ written \in 0..MaxRows /\ MaxRows \in Nat
    BY ConstantsType DEF TypeOK, Row
  <1>m. ASSUME written < MaxRows
        PROVE  {written + 1} \in Row /\ written + 1 \in 1..MaxRows
               /\ 1 .. written + 1 = (1..written) \cup {written + 1}
    BY <1>m, <1>t DEF Row
  <1>s. ASSUME UNCHANGED <<transcript, written>> PROVE NothingLost'
    BY <1>s
  <1>1. ASSUME NEW r \in Ryters, PushMessage(r) PROVE NothingLost'
    <2>1. Messages(Append(transcript.rows, {written'})) = Messages(transcript.rows) \cup {written'}
      <3>1. transcript.rows \in Seq(Row) /\ {written'} \in Row
        BY <1>1, <1>m, <1>t DEF PushMessage
      <3> QED BY <3>1, MessagesOfAppend
    <2>2. transcript'.rows = Append(transcript.rows, {written'}) /\ written' = written + 1
          /\ written < MaxRows
      BY <1>1, <1>t DEF PushMessage
    <2> QED BY <2>1, <2>2, <1>m
  <1>2. ASSUME NEW r \in Ryters, TearMessage(r) PROVE NothingLost'
    BY <1>2, <1>t DEF TearMessage
  <1>3. ASSUME NEW r \in Ryters, RecoverTranscript(r) PROVE NothingLost'
    BY <1>3, <1>t DEF RecoverTranscript, counters
  <1>4. ASSUME NEW r \in Ryters, ReplaceTranscript(r) PROVE NothingLost'
    <2> DEFINE behind == IF transcript = seen[r] THEN <<>> ELSE Behind(r)
    <2>1. PICK k \in 1..Len(memory[r]) :
            \E mine \in {Compacted(memory[r], k, written'), Repaired(memory[r], k, written')} :
              transcript' = [transcript EXCEPT !.rows = mine \o behind]
      BY <1>4 DEF ReplaceTranscript
    <2>2. PICK mine \in {Compacted(memory[r], k, written'), Repaired(memory[r], k, written')} :
              transcript' = [transcript EXCEPT !.rows = mine \o behind]
      BY <2>1
    <2>3. written' \in 1..MaxRows /\ 1..written' = (1..written) \cup {written'}
      BY <1>4, <1>m DEF ReplaceTranscript
    <2>4. memory[r] \in Seq(Row)
      BY <1>t
    <2>5. mine \in Seq(Row) /\ Messages(mine) = Messages(memory[r]) \cup {written'}
      BY <2>2, <2>3, <2>4, RewrittenKeeps
    <2>6. /\ behind \in Seq(Row)
          /\ Messages(transcript.rows) = Messages(memory[r]) \cup Messages(behind)
      <3>1. CASE transcript = seen[r]
        <4>1. memory[r] = transcript.rows /\ behind = <<>>
          BY <1>4, <3>1 DEF SeenIsInMemory, ReplaceTranscript
        <4>2. Messages(<<>>) = {} /\ <<>> \in Seq(Row)
          BY DEF Messages, ToSet
        <4> QED BY <4>1, <4>2
      <3>2. CASE transcript # seen[r]
        <4>1. OwnInFront(r) /\ behind = Behind(r)
          BY <1>4, <3>2 DEF ReplaceTranscript
        <4>2. Len(memory[r]) \in 0..Len(transcript.rows)
          BY <2>4, <4>1, LenProperties DEF OwnInFront
        <4>3. behind \in Seq(Row)
          BY <1>t, <4>1, <4>2 DEF Behind
        <4>4. memory[r] \o behind = transcript.rows
          BY <1>t, <4>1, <4>2, ConcatAdjacentSubSeq, SubSeqFull DEF OwnInFront, Behind
        <4> HIDE DEF behind
        <4> QED BY <2>4, <4>3, <4>4, MessagesOfParts
      <3> QED BY <3>1, <3>2
    <2>7. transcript'.rows = mine \o behind
      BY <2>2, <1>t
    <2> HIDE DEF behind
    <2>8. Messages(transcript'.rows) = Messages(mine) \cup Messages(behind)
      BY <2>5, <2>6, <2>7, MessagesOfParts
    <2> QED BY <2>3, <2>5, <2>6, <2>8
  <1> QED
    BY <1>s, <1>1, <1>2, <1>3, <1>4
       DEF Next, vars, counters, Open, MarkMeta, RecoverLedger, FinishOpen, ReplaceRefused,
           RecordSpend, CountSpend, TearSpend, SpendFails, Touch, Close

\* No message a push or a rewrite completed is ever lost, whichever Ryter
\* wrote it and whatever the others rewrote (session.rs, `replace_transcript`).
THEOREM NoMessageIsLost == Spec => []NothingLost
  <1>1. Init => NothingLost
    BY DEF Init, NothingLost
  <1>2. TypeOK /\ OpenersHoldTheFile /\ SeenIsInMemory /\ NothingLost /\ [Next]_vars
          => (TypeOK /\ OpenersHoldTheFile /\ SeenIsInMemory /\ NothingLost)'
    BY TypeNext, SeenNext, KeepsNext
  <1> QED BY TypeInit, SeenInit, <1>1, <1>2, PTL DEF Spec

-----------------------------------------------------------------------------
(* What the ledger says, and what the session owns up to.                  *)

Log == Seq(Costs \cup {"torn"})

LEMMA CompleteIsReadable ==
    ASSUME NEW log \in Log
    PROVE  /\ ~TornTail(log) => Complete(log) = log
           /\ TornTail(log) => Complete(log) = Front(log)
           /\ Readable(log) => ~TornTail(Complete(log)) /\ Complete(Complete(log)) = Complete(log)
                                /\ Readable(Complete(log))
  <1>1. (~TornTail(log) => Complete(log) = log) /\ (TornTail(log) => Complete(log) = Front(log))
    BY DEF Complete
  <1>2. ASSUME Readable(log)
        PROVE  ~TornTail(Complete(log))
    <2>1. Complete(log) \in Log
      BY CompleteType DEF Log
    <2> DEFINE c == Complete(log)
    <2> HIDE DEF c
    <2>2. c \in Log /\ "torn" \notin ToSet(c)
      BY <1>2, <2>1 DEF Readable, c
    <2>3. c # <<>> => Last(c) \in ToSet(c)
      BY <2>2, EmptySeq DEF Log, Last, ToSet
    <2> QED BY <2>2, <2>3 DEF TornTail, c
  <1>3. ASSUME Readable(log)
        PROVE  Complete(Complete(log)) = Complete(log) /\ Readable(Complete(log))
    <2>1. Complete(Complete(log)) = Complete(log)
      BY <1>2, <1>3 DEF Complete
    <2> QED BY <1>3, <2>1 DEF Readable
  <1> QED BY <1>1, <1>2, <1>3

LEMMA LedgerTotalType ==
    ASSUME NEW log \in Log
    PROVE  LedgerTotal(log) \in Nat
  <1>1. IsFiniteSet(DOMAIN log)
    BY FS_Interval, LenProperties DEF Log
  <1>2. IsFiniteSet({i \in DOMAIN log : log[i] \in {"priced", "partial"}})
    BY <1>1, FS_Subset
  <1> QED BY <1>2, FS_CardinalityType DEF LedgerTotal

\* Totals with everything in them that the ledger says.
Counts(m, log) ==
    /\ m.total >= LedgerTotal(log)
    /\ (\E i \in DOMAIN log : log[i] # "priced") => m.unknown

LEMMA ReconcileCounts ==
    ASSUME NEW m \in Meta, NEW log \in Log, NEW torn \in BOOLEAN
    PROVE  /\ Counts(Marked(Reconcile(m, log), torn), log)
           /\ m.incomplete \/ torn => Marked(Reconcile(m, log), torn).incomplete
  <1>1. LedgerTotal(log) \in Nat /\ m.total \in Nat
    BY LedgerTotalType DEF Meta
  <1>2. Reconcile(m, log) \in Meta /\ Reconcile(m, log).total >= LedgerTotal(log)
    BY <1>1 DEF Reconcile, Meta
  <1>3. (\E i \in DOMAIN log : log[i] # "priced") => Reconcile(m, log).unknown
    BY Zenon DEF Reconcile
  <1>4. m.incomplete => Reconcile(m, log).incomplete
    BY Zenon DEF Reconcile
  <1> DEFINE x == Reconcile(m, log)
  <1> HIDE DEF x
  <1>5. /\ Marked(x, torn).total = x.total
        /\ x.unknown => Marked(x, torn).unknown
        /\ x.incomplete \/ torn => Marked(x, torn).incomplete
    BY <1>2 DEF Marked, Meta, x
  <1> QED BY <1>2, <1>3, <1>4, <1>5 DEF Counts, x

\* Whoever opens the session has counted the ledger's complete rows, and
\* nobody else writes the ledger until it is done.
OpenersCounted ==
    \A r \in Ryters : pc[r] \in {"marking", "opening"} =>
        Readable(ledger) /\ Counts(meta[r], Complete(ledger))

LEMMA OpenersCountedNext ==
    TypeOK /\ OpenersCounted /\ [Next]_vars => OpenersCounted'
  <1> SUFFICES ASSUME TypeOK, OpenersCounted, [Next]_vars,
                      NEW q \in Ryters, pc'[q] \in {"marking", "opening"}
               PROVE  Readable(ledger') /\ Counts(meta'[q], Complete(ledger'))
    BY DEF OpenersCounted
  <1>t. /\ pc \in [Ryters -> {"off", "marking", "opening", "ready", "counting"}]
        /\ ledger \in Log /\ disk \in Meta /\ meta \in [Ryters -> Meta] /\ lock \in Ryters \cup {None}
        /\ \A r \in Ryters : lock = r <=> pc[r] \in {"marking", "opening"}
    BY DEF TypeOK, Log
  <1>f. lock = None => pc[q] \notin {"marking", "opening"}
    BY <1>t, ConstantsType
  <1>s. CASE UNCHANGED ledger /\ pc[q] \in {"marking", "opening"} /\ meta'[q] = meta[q]
    BY <1>s DEF OpenersCounted
  <1>1. CASE UNCHANGED vars
    BY <1>1, <1>s DEF vars
  <1>2. ASSUME NEW r \in Ryters, Open(r)
        PROVE  Readable(ledger') /\ Counts(meta'[q], Complete(ledger'))
    <2>1. q = r
      BY <1>2, <1>f, <1>t DEF Open
    <2>2. /\ Readable(ledger) /\ ledger' = ledger
          /\ meta'[r] = Marked(Reconcile(disk, Complete(ledger)), transcript.torn \/ TornTail(ledger))
      BY <1>2, <1>t DEF Open
    <2>3. Complete(ledger) \in Log /\ (transcript.torn \/ TornTail(ledger)) \in BOOLEAN
      BY <1>t, CompleteType DEF Log, TornTail, TypeOK
    <2> QED BY <1>t, <2>1, <2>2, <2>3, ReconcileCounts
  <1>3. ASSUME NEW r \in Ryters, MarkMeta(r) \/ RecoverTranscript(r)
        PROVE  Readable(ledger') /\ Counts(meta'[q], Complete(ledger'))
    <2>1. UNCHANGED <<ledger, meta>> /\ pc[q] \in {"marking", "opening"}
      BY <1>3, <1>t DEF MarkMeta, RecoverTranscript, ryter
    <2> QED BY <2>1, <1>s
  <1>4. ASSUME NEW r \in Ryters, RecoverLedger(r)
        PROVE  Readable(ledger') /\ Counts(meta'[q], Complete(ledger'))
    <2>1. ledger' = Front(ledger) /\ TornTail(ledger) /\ UNCHANGED ryter
      BY <1>4 DEF RecoverLedger
    <2>2. ledger' = Complete(ledger) /\ UNCHANGED <<pc, meta>>
      BY <2>1, <1>t, CompleteIsReadable DEF ryter
    <2>3. Readable(ledger) /\ Counts(meta[q], Complete(ledger))
      BY <2>2 DEF OpenersCounted
    <2> QED BY <1>t, <2>2, <2>3, CompleteIsReadable
  <1>5. ASSUME NEW r \in Ryters, FinishOpen(r) \/ CountSpend(r)
        PROVE  Readable(ledger') /\ Counts(meta'[q], Complete(ledger'))
    <2>1. UNCHANGED <<ledger, meta>> /\ pc[q] \in {"marking", "opening"}
      BY <1>5, <1>t DEF FinishOpen, CountSpend
    <2> QED BY <2>1, <1>s
  <1>6. ASSUME NEW r \in Ryters,
               \/ PushMessage(r) \/ TearMessage(r) \/ ReplaceTranscript(r) \/ ReplaceRefused(r)
               \/ RecordSpend(r) \/ TearSpend(r) \/ SpendFails(r)
        PROVE  Readable(ledger') /\ Counts(meta'[q], Complete(ledger'))
    \* None of these changes `pc` to what is asked of it here.
    <2>1. CASE PushMessage(r) \/ ReplaceTranscript(r) \/ ReplaceRefused(r)
      BY <2>1, <1>s, <1>t DEF PushMessage, ReplaceTranscript, ReplaceRefused
    <2>2. CASE TearMessage(r) \/ RecordSpend(r) \/ TearSpend(r) \/ SpendFails(r)
      <3>1. lock = None /\ (pc' = pc \/ pc' = [pc EXCEPT ![r] = "off"]
                              \/ pc' = [pc EXCEPT ![r] = "counting"])
        BY <2>2 DEF TearMessage, RecordSpend, TearSpend, SpendFails, ryter
      <3> QED BY <3>1, <1>f, <1>t
    <2> QED BY <1>6, <2>1, <2>2
  <1>7. ASSUME NEW r \in Ryters, Touch(r) \/ Close(r)
        PROVE  Readable(ledger') /\ Counts(meta'[q], Complete(ledger'))
    <2>1. CASE Touch(r)
      BY <2>1, <1>s DEF Touch, ryter
    <2>2. CASE Close(r)
      <3>1. ledger' = ledger /\ pc' = [pc EXCEPT ![r] = "off"] /\ meta' = [meta EXCEPT ![r] = NewMeta]
        BY <2>2 DEF Close, Forgotten
      <3> QED BY <3>1, <1>s, <1>t
    <2> QED BY <1>7, <2>1, <2>2
  <1> QED BY <1>1, <1>2, <1>3, <1>4, <1>5, <1>6, <1>7 DEF Next

\* Whatever a crash left in meta.json and whatever other Ryters did to it, a
\* session that opens has every priced row of the ledger in its totals, and
\* says so where one had no price (session.rs, `open`, `reconcile_spend`).
THEOREM OpeningCounts == Spec => OpenCountsTheLedger
  <1>1. Init => OpenersCounted
    BY DEF Init, OpenersCounted
  <1>2. TypeOK /\ OpenersCounted /\ [Next]_vars =>
          [\A r \in Ryters : pc[r] = "opening" /\ pc'[r] = "ready" =>
              /\ meta'[r].total >= LedgerTotal(ledger')
              /\ (\E i \in DOMAIN ledger' : ledger'[i] # "priced") => meta'[r].unknown]_vars
    <2> SUFFICES ASSUME TypeOK, OpenersCounted, Next,
                        NEW q \in Ryters, pc[q] = "opening", pc'[q] = "ready"
                 PROVE  Counts(meta'[q], ledger')
      BY DEF Counts
    <2>t. pc \in [Ryters -> {"off", "marking", "opening", "ready", "counting"}] /\ ledger \in Log
      BY DEF TypeOK, Log
    <2>1. FinishOpen(q)
      <3>1. PICK r \in Ryters :
              \/ Open(r) \/ MarkMeta(r) \/ RecoverTranscript(r) \/ RecoverLedger(r) \/ FinishOpen(r)
              \/ PushMessage(r) \/ TearMessage(r) \/ ReplaceTranscript(r) \/ ReplaceRefused(r)
              \/ RecordSpend(r) \/ CountSpend(r) \/ TearSpend(r) \/ SpendFails(r)
              \/ Touch(r) \/ Close(r)
        BY DEF Next
      <3>2. pc' = pc \/ (\E v : pc' = [pc EXCEPT ![r] = v])
        BY <3>1 DEF Open, MarkMeta, RecoverTranscript, RecoverLedger, FinishOpen, PushMessage,
             TearMessage, ReplaceTranscript, ReplaceRefused, RecordSpend, CountSpend, TearSpend,
             SpendFails, Touch, Close, ryter
      <3>3. q = r
        BY <2>t, <3>2
      <3> QED BY <2>t, <3>1, <3>3 DEF Open, MarkMeta, RecoverTranscript, RecoverLedger, PushMessage,
             TearMessage, ReplaceTranscript, ReplaceRefused, RecordSpend, CountSpend, TearSpend,
             SpendFails, Touch, Close, ryter
    <2>2. UNCHANGED <<ledger, meta>> /\ ~TornTail(ledger)
      BY <2>1 DEF FinishOpen
    <2>3. Counts(meta[q], Complete(ledger)) /\ Complete(ledger) = ledger
      BY <2>t, <2>2, CompleteIsReadable DEF OpenersCounted
    <2> QED BY <2>2, <2>3
  <1> QED BY TypeInit, TypeNext, OpenersCountedNext, <1>1, <1>2, PTL DEF Spec, OpenCountsTheLedger

-----------------------------------------------------------------------------
(* A row cut short.  A session that only one Ryter at a time had open, and *)
(* that no full disk cut short, is open in one of them, which says what    *)
(* meta.json says before it cuts anything off.                             *)

OnlyOne == \A r, q \in Ryters : pc[r] # "off" /\ pc[q] # "off" => r = q

Owned ==
    /\ Readable(ledger)
    /\ \A r \in Ryters : pc[r] \in {"ready", "counting"} => ~TornTail(ledger)
    /\ \A r \in Ryters : pc[r] = "opening" => disk = meta[r]
    /\ lost => /\ disk.incomplete \/ TornTail(ledger)
               /\ \A r \in Ryters : pc[r] # "off" => meta[r].incomplete

Alone == ~shared /\ full = 0 => OnlyOne /\ Owned

\* A row appended to a ledger whose last row is whole.
LEMMA AppendedReads ==
    ASSUME NEW log \in Log, Readable(log), ~TornTail(log), NEW row \in Costs \cup {"torn"}
    PROVE  /\ Readable(Append(log, row))
           /\ TornTail(Append(log, row)) <=> row = "torn"
  <1> DEFINE a == Append(log, row)
  <1>1. a \in Log /\ a # <<>> /\ Last(a) = row /\ Front(a) = log
    BY DEF Log, Last, Front
  <1> HIDE DEF a
  <1>2. TornTail(a) <=> row = "torn"
    BY <1>1 DEF TornTail
  <1>3. "torn" \notin ToSet(log)
    BY DEF Readable, Complete
  <1>4. row # "torn" => "torn" \notin ToSet(a)
    <2>1. ToSet(a) = ToSet(log) \cup {row}
      BY DEF a, ToSet, Log
    <2> QED BY <1>3, <2>1
  <1>5. Readable(a)
    BY <1>1, <1>2, <1>3, <1>4 DEF Readable, Complete
  <1> QED BY <1>2, <1>5 DEF a

LEMMA AloneInit == Init => Alone
  <1> SUFFICES ASSUME Init PROVE OnlyOne /\ Owned
    BY DEF Alone
  <1>1. ~TornTail(<<>>) /\ ToSet(<<>>) = {}
    BY DEF TornTail, ToSet
  <1>2. Readable(<<>>)
    BY <1>1 DEF Readable, Complete
  <1> QED BY <1>1, <1>2 DEF Init, OnlyOne, Owned

LEMMA AloneNext == TypeOK /\ Alone /\ [Next]_vars => Alone'
  <1> SUFFICES ASSUME TypeOK, Alone, [Next]_vars, ~shared', full' = 0
               PROVE  OnlyOne' /\ Owned'
    BY DEF Alone
  <1>t. /\ pc \in [Ryters -> {"off", "marking", "opening", "ready", "counting"}]
        /\ ledger \in Log /\ disk \in Meta /\ meta \in [Ryters -> Meta]
        /\ full \in Nat
    BY DEF TypeOK, Log
  <1>1. CASE UNCHANGED vars
    BY <1>1 DEF vars, Alone, OnlyOne, Owned
  <1> SUFFICES ASSUME NEW r \in Ryters,
                 \/ Open(r) \/ MarkMeta(r) \/ RecoverTranscript(r) \/ RecoverLedger(r) \/ FinishOpen(r)
                 \/ PushMessage(r) \/ TearMessage(r) \/ ReplaceTranscript(r) \/ ReplaceRefused(r)
                 \/ RecordSpend(r) \/ CountSpend(r) \/ TearSpend(r) \/ SpendFails(r)
                 \/ Touch(r) \/ Close(r)
               PROVE  OnlyOne' /\ Owned'
    BY <1>1 DEF Next
  <1>2. ~shared /\ full = 0
    <2>1. CASE Open(r)
      BY <2>1 DEF Open
    <2>2. CASE ~Open(r)
      <3>1. shared' = shared /\ (full' = full \/ full' = full + 1)
        <4>1. CASE TearMessage(r) \/ SpendFails(r) \/ TearSpend(r)
          BY <4>1 DEF TearMessage, SpendFails, TearSpend, ryter
        <4>2. CASE MarkMeta(r) \/ RecoverTranscript(r) \/ RecoverLedger(r) \/ FinishOpen(r)
          BY <4>2 DEF MarkMeta, RecoverTranscript, RecoverLedger, FinishOpen, counters
        <4>3. CASE PushMessage(r) \/ ReplaceTranscript(r) \/ ReplaceRefused(r) \/ RecordSpend(r)
          BY <4>3 DEF PushMessage, ReplaceTranscript, ReplaceRefused, RecordSpend, counters
        <4>4. CASE CountSpend(r) \/ Touch(r) \/ Close(r)
          BY <4>4 DEF CountSpend, Touch, Close, counters
        <4> QED BY <2>2, <4>1, <4>2, <4>3, <4>4
      <3> QED BY <1>t, <3>1
    <2> QED BY <2>1, <2>2
  <1>3. OnlyOne /\ Owned
    BY <1>2 DEF Alone
  <1>4. ASSUME pc[r] # "off" \/ \A q \in Ryters \ {r} : pc[q] = "off"
        PROVE  \A q \in Ryters \ {r} : pc[q] = "off"
    BY <1>3, <1>4 DEF OnlyOne
  <1>5. \A q \in Ryters \ {r} : pc[q] = "off" /\ pc'[q] = "off"
    <2>1. CASE Open(r)
      BY <1>4, <1>t, <2>1 DEF Open
    <2>2. CASE ~Open(r)
      <3>1. pc[r] # "off" /\ (pc' = pc \/ \E v : pc' = [pc EXCEPT ![r] = v])
        BY <2>2 DEF MarkMeta, RecoverTranscript, RecoverLedger, FinishOpen, PushMessage,
             TearMessage, ReplaceTranscript, ReplaceRefused, RecordSpend, CountSpend, TearSpend,
             SpendFails, Touch, Close, ryter
      <3> QED BY <1>4, <1>t, <3>1
    <2> QED BY <2>1, <2>2
  <1>6. OnlyOne'
    BY <1>5 DEF OnlyOne
  \* What is left to see is this Ryter's own part.
  \* What is left to see is this Ryter's own part.
  <1>7. ASSUME Readable(ledger'),
               pc'[r] \in {"ready", "counting"} => ~TornTail(ledger'),
               pc'[r] = "opening" => disk' = meta'[r],
               lost' => disk'.incomplete \/ TornTail(ledger'),
               lost' /\ pc'[r] # "off" => meta'[r].incomplete
        PROVE  OnlyOne' /\ Owned'
    <2>1. \A q \in Ryters : pc'[q] # "off" => q = r
      BY <1>5
    <2> QED BY <1>6, <1>7, <2>1 DEF Owned
  <1>o. Readable(ledger) /\ (lost => disk.incomplete \/ TornTail(ledger))
    BY <1>3 DEF Owned
  <1>w. ASSUME pc[r] \in {"ready", "counting"}
        PROVE  ~TornTail(ledger) /\ (lost => disk.incomplete /\ meta[r].incomplete)
    BY <1>3, <1>w DEF Owned
  <1>8. CASE Open(r)
    <2> DEFINE m == Marked(Reconcile(disk, Complete(ledger)), transcript.torn \/ TornTail(ledger))
    <2>1. Complete(ledger) \in Log /\ (transcript.torn \/ TornTail(ledger)) \in BOOLEAN
      BY <1>t, CompleteType DEF Log, TornTail, TypeOK
    <2>2. disk.incomplete \/ TornTail(ledger) => m.incomplete
      BY <1>t, <2>1, ReconcileCounts
    <2> HIDE DEF m
    <2>3. /\ meta' = [meta EXCEPT ![r] = m] /\ UNCHANGED <<ledger, disk, lost>>
          /\ pc' = [pc EXCEPT ![r] = IF meta'[r] = disk THEN "opening" ELSE "marking"]
      BY <1>8 DEF Open, m
    <2>4. /\ meta'[r] = m /\ pc'[r] \in {"opening", "marking"}
          /\ pc'[r] = "opening" => disk = m
      BY <1>t, <2>3
    <2> QED BY <1>7, <1>o, <2>2, <2>3, <2>4
  <1>9. CASE MarkMeta(r)
    <2>1. /\ pc[r] = "marking" /\ disk' = meta[r] /\ UNCHANGED <<ledger, meta, lost>>
          /\ pc'[r] = "opening"
      BY <1>9, <1>t DEF MarkMeta, counters
    <2>2. lost => meta[r].incomplete
      BY <1>3, <2>1 DEF Owned
    <2> QED BY <1>7, <1>o, <2>1, <2>2
  <1>10. CASE RecoverTranscript(r)
    BY <1>3, <1>10 DEF RecoverTranscript, ryter, counters, OnlyOne, Owned
  <1>11. CASE RecoverLedger(r)
    <2>1. /\ pc[r] = "opening" /\ TornTail(ledger) /\ ledger' = Front(ledger)
          /\ UNCHANGED <<disk, pc, meta, lost>>
      BY <1>11 DEF RecoverLedger, ryter, counters
    <2>2. Readable(ledger')
      BY <1>t, <1>o, <2>1, CompleteIsReadable
    <2>3. disk = meta[r] /\ (lost => meta[r].incomplete)
      BY <1>3, <2>1 DEF Owned
    <2> QED BY <1>7, <2>1, <2>2, <2>3
  <1>12. CASE FinishOpen(r)
    <2>1. /\ pc[r] = "opening" /\ ~TornTail(ledger) /\ UNCHANGED <<ledger, disk, meta, lost>>
          /\ pc'[r] = "ready"
      BY <1>12, <1>t DEF FinishOpen, counters
    <2>2. lost => meta[r].incomplete
      BY <1>3, <2>1 DEF Owned
    <2> QED BY <1>7, <1>o, <2>1, <2>2
  <1>13. CASE PushMessage(r) \/ ReplaceTranscript(r) \/ Touch(r) \/ CountSpend(r)
    <2>1. /\ pc[r] \in {"ready", "counting"} /\ disk' = meta[r] /\ UNCHANGED <<ledger, meta, lost>>
          /\ pc'[r] \in {"ready", "counting"}
      BY <1>13, <1>t DEF PushMessage, ReplaceTranscript, Touch, CountSpend, ryter, counters
    <2> QED BY <1>7, <1>o, <1>w, <2>1
  <1>14. CASE ReplaceRefused(r)
    BY <1>3, <1>14 DEF ReplaceRefused, counters, OnlyOne, Owned
  <1>15. CASE TearMessage(r)
    <2>1. UNCHANGED <<ledger, disk, lost>>
      BY <1>15 DEF TearMessage
    <2>2. pc'[r] = "off"
      BY <1>2, <1>15, <1>t DEF TearMessage
    <2> QED BY <1>7, <1>o, <2>1, <2>2
  <1>16. CASE RecordSpend(r)
    <2>1. PICK cost \in Costs : /\ ledger' = Append(ledger, cost)
                                /\ meta' = [meta EXCEPT ![r] = Count(@, cost)]
      BY <1>16 DEF RecordSpend
    <2>2. pc[r] = "ready" /\ pc'[r] = "counting" /\ UNCHANGED <<disk, lost>>
      BY <1>16, <1>t DEF RecordSpend, counters
    <2>3. Readable(ledger') /\ ~TornTail(ledger')
      BY <1>t, <1>o, <1>w, <2>1, <2>2, AppendedReads DEF Costs
    <2>4. meta[r].incomplete => meta'[r].incomplete
      BY <1>t, <2>1, Zenon DEF Count
    <2> QED BY <1>7, <1>w, <2>2, <2>3, <2>4
  <1>17. CASE TearSpend(r)
    <2>1. pc[r] = "ready" /\ ledger' = Append(ledger, "torn") /\ pc'[r] = "off"
      BY <1>17, <1>t DEF TearSpend
    <2>2. Readable(ledger') /\ TornTail(ledger')
      BY <1>t, <1>o, <1>w, <2>1, AppendedReads
    <2> QED BY <1>7, <2>1, <2>2
  <1>18. CASE SpendFails(r)
    BY <1>2, <1>18, <1>t DEF SpendFails
  <1>19. CASE Close(r)
    <2>1. UNCHANGED <<ledger, disk, lost>> /\ pc'[r] = "off"
      BY <1>19, <1>t DEF Close, counters
    <2> QED BY <1>7, <1>o, <2>1
  <1> QED BY <1>8, <1>9, <1>10, <1>11, <1>12, <1>13, <1>14, <1>15, <1>16, <1>17, <1>18, <1>19

\* Of a session only one Ryter at a time ever had open, on a disk that was
\* never full: a ledger row cut short by a crash is owned up to from then on,
\* by whoever has the session open and by meta.json, unless the torn row is
\* still there to be found; and the ledger can be read (session.rs, `open`,
\* `recover_prefix`: meta.json is marked before the tail is cut off).
THEOREM TornRowsAreOwned == Spec => []AloneStaysIncomplete
  <1>1. TypeOK /\ Alone => AloneStaysIncomplete
    <2> SUFFICES ASSUME TypeOK, Alone, lost, ~shared, full = 0
                 PROVE  Incomplete /\ Readable(ledger)
      BY DEF AloneStaysIncomplete
    <2>1. Owned
      BY DEF Alone
    <2>2. \A r \in Ryters : pc[r] \in {"ready", "counting"} => pc[r] # "off"
      OBVIOUS
    <2> QED BY <2>1, <2>2 DEF Owned, Incomplete
  <1> QED BY TypeInit, TypeNext, AloneInit, AloneNext, <1>1, PTL DEF Spec
=============================================================================
