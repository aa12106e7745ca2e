---------------------------- MODULE Product_proofs -----------------------------
(* Proofs about Product, for any Ryters, run files and number of starts.     *)
EXTENDS Product, TLAPS

Places == {"idle", "gone", "shown", "approved", "starting", "up", "stopping"}
States == {"none", "front", "group", "daemon", "gone", "other"}

DiskTyped ==
    /\ file \in Files \cup {None} /\ approved \in Files \cup {None}
    /\ note \in Left \cup {None}
WorldTyped == runs \in [Starts -> States] /\ server \in 0..MaxStarts
HistoryTyped ==
    /\ said \subseteq Files /\ owed \subseteq Starts /\ lost \subseteq Starts
    /\ newest \in [Ryters -> 0..MaxStarts]

RytersTyped ==
    /\ at \in [Ryters -> Places] /\ text \in [Ryters -> Files \cup {None}]
    /\ product \in [Ryters -> Started \cup {None}]
    /\ started \in [Ryters -> Started \cup {None}]

HandsMatch(r) ==
    /\ at[r] \in {"shown", "approved"} <=> text[r] # None
    /\ at[r] \in {"starting", "up", "stopping"} <=> started[r] # None
    /\ at[r] = "up" => product[r] # None

Parts == DiskTyped /\ WorldTyped /\ HistoryTyped /\ RytersTyped /\ \A r \in Ryters : HandsMatch(r)

LEMMA PartsType == TypeOK <=> Parts
  BY DEF Parts, TypeOK, DiskTyped, WorldTyped, HistoryTyped, RytersTyped, HandsMatch, Places, States

LEMMA PartsTypeNext == TypeOK' <=> Parts'
  BY PartsType, PTL

LEMMA TypeParts ==
    TypeOK <=> DiskTyped /\ WorldTyped /\ HistoryTyped /\ RytersTyped /\ \A r \in Ryters : HandsMatch(r)
  BY PartsType DEF Parts

LEMMA TypePartsNext ==
    TypeOK' <=> /\ DiskTyped' /\ WorldTyped' /\ HistoryTyped' /\ RytersTyped'
                /\ \A r \in Ryters : HandsMatch(r)'
  BY PartsTypeNext DEF Parts

-----------------------------------------------------------------------------
(* What is in hand, and its note.                                           *)

LEMMA OfStarted ==
    ASSUME NEW s \in Started
    PROVE  /\ s # None /\ s.of \in Starts /\ s.stop \in Stops \cup {None}
           /\ s.child \in 0..MaxStarts /\ s.group \in 0..MaxStarts
           /\ NoteOf(s) \in Left /\ NoteOf(s) # None
           /\ NoteOf(s).of = s.of /\ NoteOf(s).stop = s.stop /\ NoteOf(s).pending = s.pending
           /\ Kept(s) \in Started /\ Kept(s).of = s.of /\ Kept(s).stop = s.stop
           /\ Kept(s).pending = TRUE /\ Kept(s).child = 0 /\ Kept(s).group = 0
  <1>1. /\ s # None /\ s.of \in Starts /\ s.stop \in Stops \cup {None}
        /\ s.child \in 0..MaxStarts /\ s.group \in 0..MaxStarts
        /\ s.pending \in BOOLEAN /\ s.ready \in BOOLEAN
    BY NoneAssumption DEF Started
  <1>2. /\ NoteOf(s).of = s.of /\ NoteOf(s).stop = s.stop /\ NoteOf(s).pending = s.pending
        /\ NoteOf(s) \in Left
    BY <1>1 DEF NoteOf, Left
  <1>3. 0 \in 0..MaxStarts
    BY ProductAssumption
  <1>4. /\ Kept(s).of = s.of /\ Kept(s).stop = s.stop /\ Kept(s).pending = TRUE
        /\ Kept(s).child = 0 /\ Kept(s).group = 0
        /\ Kept(s) \in Started
    BY <1>1, <1>3 DEF Kept, Started
  <1> QED BY <1>1, <1>2, <1>4, NoneAssumption

LEMMA OfUp ==
    ASSUME NEW s \in Started, NEW exited \in BOOLEAN
    PROVE  /\ Up(s, exited) \in Started /\ Up(s, exited).of = s.of /\ Up(s, exited).stop = s.stop
           /\ {Up(s, exited).child, Up(s, exited).group} \subseteq {0, s.of}
  BY ProductAssumption DEF Up, Started, Starts

LEMMA OfLeft ==
    ASSUME NEW n \in Left
    PROVE  /\ n.of \in Starts /\ n.stop \in Stops \cup {None} /\ n.pending \in BOOLEAN
           /\ FromNote(n) \in Started /\ FromNote(n).of = n.of /\ FromNote(n).stop = n.stop
           /\ FromNote(n).child = 0 /\ FromNote(n).group = 0
  BY ProductAssumption DEF Started, Left, FromNote

LEMMA OfFile ==
    ASSUME NEW f \in Files
    PROVE  f # None /\ f.ready \in BOOLEAN /\ f.stop \in Stops \cup {None}
  BY ProductAssumption

\* What a stop works on is the product in hand or the note's, with its own
\* stop command or that of the run file as it is approved.
LEMMA OfStopsWith ==
    ASSUME TypeOK, NEW r \in Ryters, StopsWith(r) # None
    PROVE  /\ StopsWith(r) \in Started
           /\ \/ StopsWith(r).stop = file.stop /\ file \in Files /\ approved = file
              \/ product[r] # None /\ StopsWith(r).stop = product[r].stop
              \/ note # None /\ StopsWith(r).stop = note.stop
           /\ \/ StopsWith(r).child = 0 /\ StopsWith(r).group = 0
              \/ /\ product[r] # None
                 /\ StopsWith(r).child = product[r].child
                 /\ StopsWith(r).group = product[r].group
                 /\ StopsWith(r).of = product[r].of
  <1> DEFINE s == IF product[r] # None THEN product[r]
                  ELSE IF note # None /\ note.stop # None THEN FromNote(note) ELSE None
  <1>1. product[r] \in Started \cup {None} /\ note \in Left \cup {None}
    BY TypeParts DEF RytersTyped, DiskTyped
  <1>2. s \in Started \cup {None}
    BY <1>1, OfLeft
  <1>3. s # None
    BY DEF StopsWith
  <1>4. /\ \/ product[r] # None /\ s = product[r]
           \/ note # None /\ s = FromNote(note) /\ s.stop = note.stop /\ s.child = 0 /\ s.group = 0
    BY <1>1, <1>3, OfLeft
  <1>5. CASE Approved(file) /\ file.stop # None
    <2>1. StopsWith(r) = [s EXCEPT !.stop = file.stop]
      BY <1>3, <1>5 DEF StopsWith
    <2>2. file \in Files /\ file.stop \in Stops /\ approved = file
      BY <1>5, TypeParts, OfFile DEF DiskTyped, Approved
    <2>3. /\ StopsWith(r) \in Started /\ StopsWith(r).stop = file.stop
          /\ StopsWith(r).child = s.child /\ StopsWith(r).group = s.group
          /\ StopsWith(r).of = s.of
      BY <1>2, <1>3, <2>1, <2>2 DEF Started
    <2> QED BY <1>4, <2>2, <2>3
  <1>6. CASE ~(Approved(file) /\ file.stop # None)
    <2>1. StopsWith(r) = s
      BY <1>3, <1>6 DEF StopsWith
    <2> QED BY <1>2, <1>3, <1>4, <2>1
  <1> QED BY <1>5, <1>6

LEMMA OfOverwritten ==
    ASSUME DiskTyped, NEW i, NEW b \in BOOLEAN
    PROVE  Overwritten(i, b) \subseteq Starts
  BY OfLeft DEF Overwritten, DiskTyped

\* What a stop leaves: nothing new runs, what it held is gone, and after a stop
\* command that succeeded nothing runs.
LEMMA OfEnds ==
    ASSUME WorldTyped, NEW s, NEW ok \in BOOLEAN, Ends(s, ok)
    PROVE  /\ WorldTyped'
           /\ \A i \in Starts : runs'[i] # runs[i] =>
                 /\ runs'[i] = "gone"
                 /\ Running(i) \/ i \in {s.child, s.group}
           /\ s.stop # None /\ ok => \A i \in Starts : runs'[i] \notin {"front", "group", "daemon"}
  <1> DEFINE byCommand == IF s.stop # None /\ ok THEN {i \in Starts : Running(i)} ELSE {}
  <1>1. runs' = [i \in Starts |-> IF i \in byCommand \cup Held(s) THEN "gone" ELSE runs[i]]
    BY DEF Ends
  <1>2. server' = server \/ server' = 0
    BY DEF Ends
  <1>3. WorldTyped'
    BY <1>1, <1>2, ProductAssumption DEF WorldTyped, States
  <1>4. \A i \in Starts : runs'[i] # runs[i] =>
           runs'[i] = "gone" /\ (Running(i) \/ i \in {s.child, s.group})
    BY <1>1 DEF Held
  <1>5. ASSUME s.stop # None, ok, NEW i \in Starts
        PROVE  runs'[i] \notin {"front", "group", "daemon"}
    BY <1>1, <1>5 DEF Running
  <1> QED BY <1>3, <1>4, <1>5

\* What is kept for a retry is in hand, and on the disk or known to be lost,
\* and so is what the note said before.
LEMMA OfKeepForRetry ==
    ASSUME DiskTyped, HistoryTyped, RytersTyped, NEW r \in Ryters, NEW s \in Started,
           KeepForRetry(r, s)
    PROVE  /\ product' = [product EXCEPT ![r] = s]
           /\ note' \in Left \cup {None} /\ lost' \subseteq Starts /\ lost \subseteq lost'
           /\ \/ /\ note' = NoteOf(s)
                 /\ note = None \/ note.of \in lost'
                       \/ (note.of = s.of /\ (note.pending => s.pending))
              \/ note' = note /\ s.of \in lost'
  <1>1. CASE note' = NoteOf(s) /\ lost' = lost \cup Overwritten(s.of, s.pending)
    <2>1. s.of \in Starts /\ s.pending \in BOOLEAN /\ NoteOf(s) \in Left
      BY OfStarted DEF Started
    <2>2. note = None \/ note.of \in lost' \/ (note.of = s.of /\ (note.pending => s.pending))
      BY <1>1 DEF Overwritten
    <2> QED BY <1>1, <2>1, <2>2, OfOverwritten DEF KeepForRetry, HistoryTyped
  <1>2. CASE note' = note /\ lost' = lost \cup {s.of}
    BY <1>2, OfStarted DEF KeepForRetry, DiskTyped, HistoryTyped
  <1> QED BY <1>1, <1>2 DEF KeepForRetry

-----------------------------------------------------------------------------
(* Types.                                                                   *)

USE DEF Places

LEMMA FileTypes ==
    ASSUME TypeOK, NEW r \in Ryters,
           Edit \/ ProposeRun(r) \/ Yes(r) \/ No(r) \/ Begin(r) \/ FindsItGone(r) \/ Forget(r) \/ NotStarted(r)
    PROVE  TypeOK'
  <1>1. WorldTyped'
    BY TypeParts DEF WorldTyped, world, Edit, ProposeRun, Yes, No, Begin, FindsItGone, Forget,
       NotStarted
  <1>2. DiskTyped'
    BY TypeParts DEF DiskTyped, HandsMatch, RytersTyped, shared, Edit, ProposeRun, Yes, No, Begin,
       FindsItGone, Forget, NotStarted
  <1>3. HistoryTyped'
    <2>1. CASE Forget(r)
      BY <2>1, TypeParts, OfLeft DEF HistoryTyped, DiskTyped, Forget
    <2> QED BY <2>1, TypeParts DEF HistoryTyped, HandsMatch, RytersTyped, history, Edit, ProposeRun, Yes, No,
          Begin, FindsItGone, NotStarted
  <1>4. RytersTyped'
    BY TypeParts DEF RytersTyped, DiskTyped, ApprovedRun, Edit, ProposeRun, Yes, No, Begin,
       FindsItGone, Forget, NotStarted
  <1>5. ASSUME NEW q \in Ryters PROVE HandsMatch(q)'
    BY TypeParts DEF HandsMatch, RytersTyped, DiskTyped, ApprovedRun, Approved, Edit,
       ProposeRun, Yes, No, Begin, FindsItGone, Forget, NotStarted
  <1> QED BY <1>1, <1>2, <1>3, <1>4, <1>5, TypePartsNext

LEMMA StartTypes ==
    ASSUME TypeOK, NEW r \in Ryters,
           Spawn(r) \/ ComesUp(r) \/ Remember(r) \/ NextSession(r)
    PROVE  TypeOK'
  <1>1. ASSUME Spawn(r) PROVE TypeOK'
    <2>1. PICK i \in Starts :
            /\ runs' = [runs EXCEPT ![i] = "front"]
            /\ started' = [started EXCEPT ![r] =
                  [pending |-> FALSE, ready |-> text[r].ready, stop |-> text[r].stop,
                   child |-> i, group |-> 0, of |-> i]]
            /\ newest' = [newest EXCEPT ![r] = i]
      BY <1>1 DEF Spawn
    <2>2. text[r] \in Files
      BY <1>1, TypeParts DEF Spawn, HandsMatch, RytersTyped
    <2>3. [pending |-> FALSE, ready |-> text[r].ready, stop |-> text[r].stop,
           child |-> i, group |-> 0, of |-> i] \in Started
      BY <2>2, OfFile, ProductAssumption DEF Started, Starts
    <2>4. DiskTyped' /\ HistoryTyped'
      BY <1>1, <2>1, TypeParts, ProductAssumption DEF Spawn, shared, DiskTyped, HistoryTyped, Starts
    <2>5. WorldTyped'
      BY <1>1, <2>1, TypeParts DEF Spawn, WorldTyped, States
    <2>6. RytersTyped'
      BY <1>1, <2>1, <2>3, TypeParts DEF Spawn, RytersTyped
    <2>7. ASSUME NEW q \in Ryters PROVE HandsMatch(q)'
      BY <1>1, <2>1, <2>3, TypeParts, OfStarted DEF Spawn, RytersTyped, HandsMatch
    <2> QED BY <2>4, <2>5, <2>6, <2>7, TypePartsNext
  <1>2. ASSUME ComesUp(r) PROVE TypeOK'
    <2>1. started[r] \in Started
      BY <1>2, TypeParts DEF ComesUp, HandsMatch, RytersTyped
    <2>2. PICK p \in Started : product' = [product EXCEPT ![r] = p]
      BY <1>2, <2>1, OfUp DEF ComesUp
    <2>3. DiskTyped' /\ HistoryTyped' /\ WorldTyped'
      BY <1>2, TypeParts DEF ComesUp, shared, history, world, DiskTyped, HistoryTyped, WorldTyped
    <2>4. RytersTyped'
      BY <1>2, <2>2, TypeParts DEF ComesUp, RytersTyped
    <2>5. ASSUME NEW q \in Ryters PROVE HandsMatch(q)'
      BY <1>2, <2>1, <2>2, TypeParts, OfStarted DEF ComesUp, RytersTyped, HandsMatch
    <2> QED BY <2>3, <2>4, <2>5, TypePartsNext
  <1>3. ASSUME Remember(r) PROVE TypeOK'
    <2>1. product[r] \in Started
      BY <1>3, TypeParts DEF Remember, HandsMatch, RytersTyped
    <2>2. DiskTyped' /\ WorldTyped'
      BY <1>3, <2>1, TypeParts, OfStarted DEF Remember, world, DiskTyped, WorldTyped
    <2>3. HistoryTyped'
      BY <1>3, <2>1, TypeParts, OfStarted, OfOverwritten DEF Remember, HistoryTyped
    <2>4. RytersTyped' /\ \A q \in Ryters : HandsMatch(q)'
      BY <1>3, TypeParts DEF Remember, RytersTyped, HandsMatch
    <2> QED BY <2>2, <2>3, <2>4, TypePartsNext
  <1>4. ASSUME NextSession(r) PROVE TypeOK'
    <2>1. DiskTyped' /\ WorldTyped'
      BY <1>4, TypeParts DEF NextSession, shared, world, DiskTyped, WorldTyped
    <2>2. HistoryTyped'
      <3>1. newest' \in [Ryters -> 0..MaxStarts]
        BY <1>4, TypeParts, ProductAssumption DEF NextSession, HistoryTyped
      <3>2. CASE at[r] \in {"starting", "up"}
        BY <1>4, <3>1, <3>2, TypeParts, OfStarted DEF NextSession, HistoryTyped, HandsMatch, RytersTyped
      <3> QED BY <1>4, <3>1, <3>2, TypeParts DEF NextSession, HistoryTyped
    <2>3. RytersTyped' /\ \A q \in Ryters : HandsMatch(q)'
      BY <1>4, TypeParts DEF NextSession, RytersTyped, HandsMatch
    <2> QED BY <2>1, <2>2, <2>3, TypePartsNext
  <1> QED BY <1>1, <1>2, <1>3, <1>4

LEMMA StopTypes ==
    ASSUME TypeOK, NEW r \in Ryters,
           FailedStart(r) \/ StopProduct(r) \/ Stopped(r) \/ StopNotRun(r)
    PROVE  TypeOK'
  <1> DEFINE s == started[r]
  <1>1. ASSUME at[r] \in {"starting", "stopping"} PROVE s \in Started
    BY <1>1, TypeParts DEF HandsMatch, RytersTyped
  <1>2. ASSUME FailedStart(r) \/ Stopped(r) PROVE TypeOK'
    <2>1. s \in Started
      BY <1>1, <1>2 DEF FailedStart, Stopped
    <2>2. WorldTyped'
      BY <1>2, TypeParts, OfEnds DEF FailedStart, Stopped
    <2>3. Kept(s) \in Started /\ s.of \in Starts
      BY <2>1, OfStarted
    <2>4. OutOfReach(s) \subseteq Starts /\ Overwritten(s.of, TRUE) \subseteq Starts
      BY <2>3, TypeParts, OfOverwritten DEF OutOfReach
    <2>5. \/ KeepForRetry(r, Kept(s)) /\ owed' = owed \cup {s.of}
          \/ /\ product' = product /\ note' \in {note, None} /\ owed' \subseteq owed
             /\ lost' \subseteq lost \cup Overwritten(s.of, TRUE) \cup OutOfReach(s)
      BY <1>2 DEF FailedStart, Stopped
    <2>6. /\ product' = product \/ product' = [product EXCEPT ![r] = Kept(s)]
          /\ note' \in Left \cup {None} /\ lost' \subseteq Starts /\ owed' \subseteq Starts
      <3>1. CASE KeepForRetry(r, Kept(s)) /\ owed' = owed \cup {s.of}
        BY <3>1, <2>3, TypeParts, OfKeepForRetry DEF HistoryTyped
      <3> QED BY <3>1, <2>4, <2>5, TypeParts DEF HistoryTyped, DiskTyped
    <2>7. /\ at' = [at EXCEPT ![r] = "idle"] /\ started' = [started EXCEPT ![r] = None]
          /\ file' = file /\ approved' = approved /\ text' = text /\ said' = said
          /\ newest' = [newest EXCEPT ![r] = 0]
          /\ at[r] \in {"starting", "stopping"}
      BY <1>2 DEF FailedStart, Stopped
    <2>8. DiskTyped' /\ HistoryTyped'
      BY <2>6, <2>7, TypeParts, ProductAssumption DEF DiskTyped, HistoryTyped
    <2>9. RytersTyped' /\ \A q \in Ryters : HandsMatch(q)'
      BY <2>3, <2>6, <2>7, TypeParts, OfStarted DEF RytersTyped, HandsMatch
    <2> QED BY <2>2, <2>8, <2>9, TypePartsNext
  <1>3. ASSUME StopNotRun(r) PROVE TypeOK'
    <2>1. s \in Started /\ KeepForRetry(r, s)
      BY <1>1, <1>3 DEF StopNotRun
    <2>2. /\ product' = [product EXCEPT ![r] = s]
          /\ note' \in Left \cup {None} /\ lost' \subseteq Starts
      BY <2>1, TypeParts, OfKeepForRetry
    <2>3. DiskTyped' /\ HistoryTyped' /\ WorldTyped'
      BY <1>3, <2>2, TypeParts DEF StopNotRun, world, DiskTyped, HistoryTyped, WorldTyped
    <2>4. RytersTyped' /\ \A q \in Ryters : HandsMatch(q)'
      BY <1>3, <2>1, <2>2, TypeParts, OfStarted DEF StopNotRun, RytersTyped, HandsMatch
    <2> QED BY <2>3, <2>4, TypePartsNext
  <1>4. ASSUME StopProduct(r) PROVE TypeOK'
    <2>1. StopsWith(r) \in Started
      BY <1>4, OfStopsWith DEF StopProduct
    <2>2. DiskTyped' /\ HistoryTyped' /\ WorldTyped'
      BY <1>4, TypeParts DEF StopProduct, shared, world, history, DiskTyped, HistoryTyped, WorldTyped
    <2>3. RytersTyped' /\ \A q \in Ryters : HandsMatch(q)'
      BY <1>4, <2>1, TypeParts, OfStarted DEF StopProduct, RytersTyped, HandsMatch
    <2> QED BY <2>2, <2>3, TypePartsNext
  <1> QED BY <1>2, <1>3, <1>4

LEMMA WorldTypes ==
    ASSUME TypeOK, NEW i \in Starts,
           Returns(i) \/ Answers(i) \/ HangsUp(i) \/ Dies(i) \/ NumberTaken(i)
    PROVE  TypeOK'
  <1>1. WorldTyped'
    BY TypeParts, ProductAssumption DEF WorldTyped, States, Starts, Returns, Answers, HangsUp, Dies,
       NumberTaken
  <1>2. DiskTyped' /\ HistoryTyped'
    BY TypeParts DEF DiskTyped, HistoryTyped, shared, history, Returns, Answers, HangsUp, Dies,
       NumberTaken
  <1>3. RytersTyped' /\ \A q \in Ryters : HandsMatch(q)'
    BY TypeParts DEF RytersTyped, HandsMatch, Returns, Answers, HangsUp, Dies, NumberTaken
  <1> QED BY <1>1, <1>2, <1>3, TypePartsNext

LEMMA InitTypes == Init => TypeOK
  <1> SUFFICES ASSUME Init PROVE TypeOK
    OBVIOUS
  <1>1. DiskTyped /\ WorldTyped /\ HistoryTyped
    BY ProductAssumption DEF Init, DiskTyped, WorldTyped, HistoryTyped, States
  <1>2. RytersTyped /\ \A r \in Ryters : HandsMatch(r)
    BY DEF Init, RytersTyped, HandsMatch
  <1> QED BY <1>1, <1>2, TypeParts

LEMMA StutterTypes == TypeOK /\ UNCHANGED vars => TypeOK'
  <1> SUFFICES ASSUME TypeOK, UNCHANGED vars PROVE TypeOK'
    OBVIOUS
  <1>1. DiskTyped' /\ WorldTyped' /\ HistoryTyped'
    BY TypeParts DEF vars, shared, world, history, DiskTyped, WorldTyped, HistoryTyped
  <1>2. RytersTyped' /\ \A r \in Ryters : HandsMatch(r)'
    BY TypeParts DEF vars, RytersTyped, HandsMatch
  <1> QED BY <1>1, <1>2, TypePartsNext

LEMMA EditTypes == TypeOK /\ Edit => TypeOK'
  <1> SUFFICES ASSUME TypeOK, Edit PROVE TypeOK'
    OBVIOUS
  <1>1. DiskTyped' /\ WorldTyped' /\ HistoryTyped'
    BY TypeParts DEF Edit, world, history, DiskTyped, WorldTyped, HistoryTyped
  <1>2. RytersTyped' /\ \A r \in Ryters : HandsMatch(r)'
    BY TypeParts DEF Edit, RytersTyped, HandsMatch
  <1> QED BY <1>1, <1>2, TypePartsNext

\* Whatever the Ryters, their user and the processes do, the file, the
\* approval, the note and what each Ryter has in hand are of their types, and
\* a run file is in hand exactly while it is shown or about to be started.
THEOREM TypeCorrect == Spec => []TypeOK
  <1>1. TypeOK /\ [Next]_vars => TypeOK'
    BY EditTypes, FileTypes, StartTypes, StopTypes, WorldTypes, StutterTypes DEF Next
  <1> QED BY InitTypes, <1>1, PTL DEF Spec

-----------------------------------------------------------------------------
(* What runs was approved.                                                  *)

StopsSaid == {f.stop : f \in said} \cup {None}

\* Every stop command that is kept is one the user has seen, like the
\* approval and every run file about to be started.
StopsAreSaid ==
    /\ approved \in said \cup {None}
    /\ note # None => note.stop \in StopsSaid
    /\ \A r \in Ryters :
         /\ at[r] = "approved" => text[r] \in said
         /\ product[r] # None => product[r].stop \in StopsSaid
         /\ started[r] # None => started[r].stop \in StopsSaid

LEMMA FileSteps ==
    ASSUME TypeOK, StopsAreSaid, NEW r \in Ryters,
           Edit \/ ProposeRun(r) \/ Yes(r) \/ No(r) \/ Begin(r) \/ FindsItGone(r) \/ Forget(r) \/ NotStarted(r)
    PROVE  StopsAreSaid'
  <1>1. said \subseteq said' /\ product' = product /\ started' = started /\ note' \in {note, None}
    BY DEF Edit, ProposeRun, Yes, No, Begin, FindsItGone, Forget, NotStarted, shared, history
  <1>2. StopsSaid \subseteq StopsSaid'
    BY <1>1 DEF StopsSaid
  <1>3. approved' \in said' \cup {None}
    BY DEF StopsAreSaid, Edit, ProposeRun, Yes, No, Begin, FindsItGone, Forget, NotStarted,
       shared, history
  <1>4. ASSUME NEW q \in Ryters, at'[q] = "approved" PROVE text'[q] \in said'
    BY <1>4, TypeParts DEF StopsAreSaid, RytersTyped, ApprovedRun, Approved, Edit, ProposeRun, Yes,
       No, Begin, FindsItGone, Forget, NotStarted, shared, history
  <1> QED BY <1>1, <1>2, <1>3, <1>4 DEF StopsAreSaid

LEMMA HandSteps ==
    ASSUME TypeOK, StopsAreSaid, NEW r \in Ryters,
           \/ Spawn(r) \/ ComesUp(r) \/ Remember(r) \/ NextSession(r)
           \/ FailedStart(r) \/ StopProduct(r) \/ Stopped(r) \/ StopNotRun(r)
    PROVE  StopsAreSaid'
  <1>1. said' = said /\ approved' = approved /\ \A q \in Ryters \ {r} : /\ at'[q] = at[q] /\ text'[q] = text[q]
                                                              /\ product'[q] = product[q]
                                                              /\ started'[q] = started[q]
    BY TypeParts DEF RytersTyped, Spawn, ComesUp, Remember, NextSession, FailedStart, StopProduct,
       Stopped, StopNotRun, KeepForRetry, shared, history
  <1>2. StopsSaid' = StopsSaid
    BY <1>1 DEF StopsSaid
  <1>3. at'[r] # "approved"
    BY TypeParts DEF RytersTyped, Spawn, ComesUp, Remember, NextSession, FailedStart, StopProduct,
       Stopped, StopNotRun
  <1>4. /\ started'[r] # None => started'[r].stop \in StopsSaid
        /\ product'[r] # None => product'[r].stop \in StopsSaid
        /\ note' # None => note'.stop \in StopsSaid
    <2>1. CASE Spawn(r)
      <3>1. PICK i \in Starts : started' = [started EXCEPT ![r] =
                  [pending |-> FALSE, ready |-> text[r].ready, stop |-> text[r].stop,
                   child |-> i, group |-> 0, of |-> i]]
        BY <2>1 DEF Spawn
      <3>2. text[r].stop \in StopsSaid
        <4>1. text[r] \in said
          BY <2>1 DEF Spawn, StopsAreSaid
        <4> QED BY <4>1 DEF StopsSaid
      <3>3. started'[r].stop = text[r].stop
        BY <3>1, TypeParts DEF RytersTyped
      <3>4. product' = product /\ note' = note
        BY <2>1 DEF Spawn, shared
      <3> QED BY <3>2, <3>3, <3>4 DEF StopsAreSaid
    <2>2. CASE ComesUp(r)
      <3>1. PICK exited \in BOOLEAN : product'[r] = Up(started[r], exited)
        BY <2>2, TypeParts DEF ComesUp, RytersTyped
      <3>2. started[r] \in Started
        BY <2>2, TypeParts DEF ComesUp, HandsMatch, RytersTyped
      <3>3. product'[r].stop = started[r].stop /\ started[r] # None
        <4>1. Up(started[r], exited).stop = started[r].stop
          BY <3>2, OfUp
        <4> QED BY <3>1, <3>2, <4>1, NoneAssumption
      <3>4. started' = started /\ note' = note
        BY <2>2 DEF ComesUp, shared
      <3> QED BY <3>3, <3>4 DEF StopsAreSaid
    <2>3. CASE Remember(r)
      <3>1. product[r] \in Started
        BY <2>3, TypeParts DEF Remember, HandsMatch, RytersTyped
      <3>2. product' = product /\ started'[r] = None /\ note' \in {note, NoteOf(product[r])}
        BY <2>3, TypeParts DEF Remember, RytersTyped
      <3>3. product[r] # None /\ NoteOf(product[r]).stop = product[r].stop
        BY <3>1, OfStarted
      <3> QED BY <3>2, <3>3 DEF StopsAreSaid
    <2>4. CASE NextSession(r)
      BY <2>4, TypeParts DEF NextSession, StopsAreSaid, RytersTyped, shared
    <2>5. CASE StopProduct(r)
      <3>1. StopsWith(r).stop \in StopsSaid
        BY <2>5, OfStopsWith, OfFile DEF StopProduct, StopsAreSaid, StopsSaid
      <3> QED BY <2>5, <3>1, TypeParts DEF StopProduct, StopsAreSaid, RytersTyped, shared
    <2>6. CASE FailedStart(r) \/ Stopped(r) \/ StopNotRun(r)
      <3>1. started'[r] = None /\ started[r] # None /\ started[r] \in Started
        BY <2>6, TypeParts DEF RytersTyped, HandsMatch, FailedStart, Stopped, StopNotRun
      <3>2. \/ product' = product /\ note' \in {note, None}
            \/ KeepForRetry(r, Kept(started[r])) \/ KeepForRetry(r, started[r])
        BY <2>6 DEF FailedStart, Stopped, StopNotRun
      <3>3. ASSUME NEW s \in Started, s.stop = started[r].stop, KeepForRetry(r, s)
            PROVE  /\ product'[r] # None => product'[r].stop \in StopsSaid
                   /\ note' # None => note'.stop \in StopsSaid
        <4>1. product' = [product EXCEPT ![r] = s] /\ note' \in {note, NoteOf(s)}
          BY <3>3 DEF KeepForRetry
        <4>2. NoteOf(s).stop = s.stop /\ s.stop \in StopsSaid
          BY <3>1, <3>3, OfStarted DEF StopsAreSaid
        <4>3. product'[r] = s
          BY <4>1, TypeParts DEF RytersTyped
        <4> QED BY <4>1, <4>2, <4>3 DEF StopsAreSaid
      <3>4. Kept(started[r]) \in Started /\ Kept(started[r]).stop = started[r].stop
        BY <3>1, OfStarted
      <3>5. CASE product' = product /\ note' \in {note, None}
        BY <3>1, <3>5 DEF StopsAreSaid
      <3> QED BY <3>1, <3>2, <3>3, <3>4, <3>5
    <2> QED BY <2>1, <2>2, <2>3, <2>4, <2>5, <2>6
  <1> QED BY <1>1, <1>2, <1>3, <1>4 DEF StopsAreSaid

\* Nothing of a run file runs, and no stop command, that the user has not said
\* yes to as it was shown (agent.rs, approved_run; run.rs, approve), with any
\* number of Ryters, edits and starts.
THEOREM OnlyApprovedRuns == Spec => []NothingRunsUnapproved
  <1>1. Init => StopsAreSaid
    BY DEF Init, StopsAreSaid
  <1>2. TypeOK /\ StopsAreSaid /\ [Next]_vars => StopsAreSaid'
    <2>1. ASSUME TypeOK, StopsAreSaid, [Next]_vars,
                 UNCHANGED <<approved, note, said, at, text, product, started>>
          PROVE  StopsAreSaid'
      BY <2>1 DEF StopsAreSaid, StopsSaid
    <2>2. ASSUME NEW i \in Starts,
                 Returns(i) \/ Answers(i) \/ HangsUp(i) \/ Dies(i) \/ NumberTaken(i)
          PROVE  UNCHANGED <<approved, note, said, at, text, product, started>>
      BY <2>2 DEF Returns, Answers, HangsUp, Dies, NumberTaken, shared, history
    <2>3. UNCHANGED vars \/ Edit => UNCHANGED <<approved, note, said, at, text, product, started>>
      BY DEF vars, shared, history, Edit
    <2> QED BY <2>1, <2>2, <2>3, FileSteps, HandSteps DEF Next
  <1>3. StopsAreSaid => NothingRunsUnapproved
    BY DEF StopsAreSaid, StopsSaid, NothingRunsUnapproved
  <1> QED BY <1>1, <1>2, <1>3, TypeCorrect, PTL DEF Spec

-----------------------------------------------------------------------------
(* What is running is known, and a cleanup that failed is not forgotten.    *)

\* A product that runs and was not lost sight of is the note's, or that of a
\* start that is not through; of one that is, what is in hand is of that start.
Known ==
    /\ \A i \in Starts : Running(i) /\ i \notin lost =>
          \/ note # None /\ note.of = i
          \/ \E r \in Ryters : at[r] \in {"starting", "up"} /\ started[r].of = i
    /\ \A i \in owed \ lost : note # None /\ note.of = i /\ note.pending
    /\ \A r \in Ryters : at[r] = "up" => product[r].of = started[r].of

NoneNew == \A i \in Starts : Running(i)' => Running(i)

\* A step after which nothing more runs or is owed, and no start ends.
LEMMA QuietSteps ==
    ASSUME Known, NoneNew, note' = note, lost' = lost, owed' = owed, started' = started,
           product' = product,
           \A r \in Ryters : at'[r] = at[r] \/ {at[r], at'[r]} \cap {"starting", "up"} = {}
    PROVE  Known'
  BY DEF Known, NoneNew

\* A stop that failed, or that could not be run: what is kept, and its note.
LEMMA KeepSteps ==
    ASSUME TypeOK, Known, NEW r \in Ryters, NEW s \in Started, KeepForRetry(r, s),
           at[r] \in {"starting", "stopping"}, s.of = started[r].of,
           NoneNew, at' = [at EXCEPT ![r] = "idle"], started' = [started EXCEPT ![r] = None],
           owed' = owed \/ (owed' = owed \cup {s.of} /\ s.pending)
    PROVE  Known'
  <1>1. /\ product' = [product EXCEPT ![r] = s] /\ lost \subseteq lost'
        /\ \/ /\ note' = NoteOf(s)
              /\ note = None \/ note.of \in lost'
                    \/ (note.of = s.of /\ (note.pending => s.pending))
           \/ note' = note /\ s.of \in lost'
    BY TypeParts, OfKeepForRetry
  <1>2. NoteOf(s) # None /\ NoteOf(s).of = s.of /\ NoteOf(s).pending = s.pending
    BY OfStarted
  <1>3. at'[r] = "idle" /\ \A q \in Ryters \ {r} : /\ at'[q] = at[q] /\ started'[q] = started[q]
                                               /\ product'[q] = product[q]
    BY <1>1, TypeParts DEF RytersTyped
  <1>4. ASSUME NEW i \in Starts, Running(i)', i \notin lost'
        PROVE  \/ note' # None /\ note'.of = i
               \/ \E q \in Ryters : at'[q] \in {"starting", "up"} /\ started'[q].of = i
    <2>1. Running(i) /\ i \notin lost
      BY <1>1, <1>4 DEF NoneNew
    <2>2. CASE i = s.of
      BY <1>1, <1>2, <1>4, <2>2
    <2>3. CASE i # s.of /\ note # None /\ note.of = i
      BY <1>1, <1>4, <2>3
    <2>4. CASE i # s.of /\ \E q \in Ryters : at[q] \in {"starting", "up"} /\ started[q].of = i
      BY <1>3, <2>4
    <2> QED BY <2>1, <2>2, <2>3, <2>4 DEF Known
  <1>5. ASSUME NEW i \in owed' \ lost' PROVE note' # None /\ note'.of = i /\ note'.pending
    <2>1. CASE i \in owed
      <3>1. note # None /\ note.of = i /\ note.pending
        BY <1>1, <1>5, <2>1 DEF Known
      <3> QED BY <1>1, <1>2, <1>5, <3>1
    <2>2. CASE i \notin owed
      BY <1>1, <1>2, <1>5, <2>2
    <2> QED BY <2>1, <2>2
  <1>6. ASSUME NEW q \in Ryters, at'[q] = "up" PROVE product'[q].of = started'[q].of
    BY <1>3, <1>6 DEF Known
  <1> QED BY <1>4, <1>5, <1>6 DEF Known

\* A stop that worked.
LEMMA DoneSteps ==
    ASSUME TypeOK, Known, NEW r \in Ryters, FailedStart(r) \/ Stopped(r), NEW ok \in BOOLEAN,
           Ends(started[r], ok), started[r].stop = None \/ ok,
           lost \cup OutOfReach(started[r]) \subseteq lost', product' = product,
           \/ note' = note /\ owed' = owed
           \/ /\ note' = None /\ owed' = owed \ {started[r].of} /\ at[r] = "stopping"
              /\ Overwritten(started[r].of, TRUE) \subseteq lost'
    PROVE  Known'
  <1> DEFINE s == started[r]
  <1>1. /\ Ends(s, ok)
        /\ s.stop = None \/ ok
        /\ lost \cup OutOfReach(s) \subseteq lost'
        /\ product' = product
        /\ \/ note' = note /\ owed' = owed
           \/ /\ note' = None /\ owed' = owed \ {s.of} /\ at[r] = "stopping"
              /\ Overwritten(s.of, TRUE) \subseteq lost'
    OBVIOUS
  <1>2. /\ at' = [at EXCEPT ![r] = "idle"] /\ started' = [started EXCEPT ![r] = None]
    BY DEF FailedStart, Stopped
  <1>3. at'[r] = "idle" /\ \A q \in Ryters \ {r} : at'[q] = at[q] /\ started'[q] = started[q]
    BY <1>2, TypeParts DEF RytersTyped
  <1>4. ASSUME NEW i \in Starts, Running(i)', i \notin lost'
        PROVE  \/ note' # None /\ note'.of = i
               \/ \E q \in Ryters : at'[q] \in {"starting", "up"} /\ started'[q].of = i
    <2>1. s.stop = None
      BY <1>1, <1>4, TypeParts, OfEnds DEF Running
    <2>2. s.of \in lost'
      BY <1>1, <2>1 DEF OutOfReach
    <2>3. Running(i) /\ i \notin lost
      BY <1>1, <1>4, TypeParts, OfEnds DEF Running
    <2>4. CASE note # None /\ note.of = i
      BY <1>1, <1>4, <2>2, <2>4 DEF Overwritten
    <2>5. CASE \E q \in Ryters : at[q] \in {"starting", "up"} /\ started[q].of = i
      BY <1>3, <1>4, <2>2, <2>5
    <2> QED BY <2>3, <2>4, <2>5 DEF Known
  <1>5. ASSUME NEW i \in owed' \ lost' PROVE note' # None /\ note'.of = i /\ note'.pending
    BY <1>1, <1>5 DEF Known, Overwritten
  <1>6. ASSUME NEW q \in Ryters, at'[q] = "up" PROVE product'[q].of = started'[q].of
    BY <1>1, <1>3, <1>6 DEF Known
  <1> QED BY <1>4, <1>5, <1>6 DEF Known

LEMMA KnownSteps == TypeOK /\ Known /\ [Next]_vars => Known'
  <1> SUFFICES ASSUME TypeOK, Known, [Next]_vars PROVE Known'
    OBVIOUS
  <1>1. ASSUME NEW r \in Ryters,
               ProposeRun(r) \/ Yes(r) \/ No(r) \/ Begin(r) \/ FindsItGone(r) \/ NotStarted(r) \/ StopProduct(r)
        PROVE  Known'
    <2>1. /\ NoneNew /\ note' = note /\ lost' = lost /\ owed' = owed
          /\ \A q \in Ryters : at'[q] = at[q] \/ {at[q], at'[q]} \cap {"starting", "up"} = {}
      BY <1>1, TypeParts DEF RytersTyped, ApprovedRun, NoneNew, Running, ProposeRun, Yes, No, Begin, FindsItGone,
         NotStarted, StopProduct, shared, world, history
    <2>2. \A q \in Ryters : at[q] \in {"starting", "up"} => started'[q] = started[q] /\ product'[q] = product[q]
      BY <1>1, TypeParts DEF RytersTyped, ProposeRun, Yes, No, Begin, FindsItGone, NotStarted, StopProduct
    <2>3. ASSUME NEW j \in Starts, Running(j)', j \notin lost'
          PROVE  \/ note' # None /\ note'.of = j
                 \/ \E q \in Ryters : at'[q] \in {"starting", "up"} /\ started'[q].of = j
      <3>1. Running(j) /\ j \notin lost
        BY <2>1, <2>3 DEF NoneNew
      <3>2. CASE \E q \in Ryters : at[q] \in {"starting", "up"} /\ started[q].of = j
        BY <2>1, <2>2, <3>2
      <3> QED BY <2>1, <3>1, <3>2 DEF Known
    <2>4. ASSUME NEW q \in Ryters, at'[q] = "up" PROVE product'[q].of = started'[q].of
      BY <2>1, <2>2, <2>4 DEF Known
    <2>5. \A j \in owed' \ lost' : note' # None /\ note'.of = j /\ note'.pending
      BY <2>1 DEF Known
    <2> QED BY <2>3, <2>4, <2>5 DEF Known
  <1>2. ASSUME NEW r \in Ryters, Forget(r) PROVE Known'
    <2>1. /\ NoneNew /\ note' = None /\ owed' = owed /\ started' = started /\ product' = product
          /\ lost \subseteq lost' /\ (note # None => note.of \in lost')
      BY <1>2 DEF Forget, NoneNew, Running, world
    <2>2. \A q \in Ryters : at'[q] = at[q] \/ {at[q], at'[q]} \cap {"starting", "up"} = {}
      BY <1>2, TypeParts DEF Forget, ApprovedRun, RytersTyped
    <2> QED BY <2>1, <2>2 DEF Known, NoneNew
  <1>3. ASSUME NEW r \in Ryters, Spawn(r) PROVE Known'
    <2>1. PICK i \in Starts :
            /\ runs' = [runs EXCEPT ![i] = "front"]
            /\ started' = [started EXCEPT ![r] =
                  [pending |-> FALSE, ready |-> text[r].ready, stop |-> text[r].stop,
                   child |-> i, group |-> 0, of |-> i]]
      BY <1>3 DEF Spawn
    <2>2. /\ at[r] = "approved" /\ at' = [at EXCEPT ![r] = "starting"]
          /\ note' = note /\ product' = product /\ lost' = lost /\ owed' = owed
      BY <1>3 DEF Spawn, shared, history
    <2>3. at'[r] = "starting" /\ started'[r].of = i
      BY <2>1, <2>2, TypeParts DEF RytersTyped
    <2>4. \A q \in Ryters \ {r} : at'[q] = at[q] /\ started'[q] = started[q]
      BY <2>1, <2>2, TypeParts DEF RytersTyped
    <2>5. \A j \in Starts \ {i} : Running(j)' => Running(j)
      BY <2>1, TypeParts DEF Running, WorldTyped
    <2>6. ASSUME NEW j \in Starts, Running(j)', j \notin lost'
          PROVE  \/ note' # None /\ note'.of = j
                 \/ \E q \in Ryters : at'[q] \in {"starting", "up"} /\ started'[q].of = j
      <3>1. CASE j = i
        BY <2>3, <3>1
      <3>2. CASE j # i
        BY <2>2, <2>4, <2>5, <2>6, <3>2 DEF Known
      <3> QED BY <3>1, <3>2
    <2> QED BY <2>2, <2>3, <2>4, <2>6 DEF Known
  <1>4. ASSUME NEW r \in Ryters, ComesUp(r) PROVE Known'
    <2>1. started[r] \in Started
      BY <1>4, TypeParts DEF ComesUp, HandsMatch, RytersTyped
    <2>2. product'[r].of = started[r].of /\ \A q \in Ryters \ {r} : product'[q] = product[q]
      <3>1. PICK exited \in BOOLEAN : product' = [product EXCEPT ![r] = Up(started[r], exited)]
        BY <1>4 DEF ComesUp
      <3>2. Up(started[r], exited).of = started[r].of
        BY <2>1, OfUp
      <3> QED BY <3>1, <3>2, TypeParts DEF RytersTyped
    <2>3. /\ at[r] = "starting" /\ at'[r] = "up" /\ \A q \in Ryters \ {r} : at'[q] = at[q]
          /\ started' = started /\ note' = note /\ lost' = lost /\ owed' = owed /\ NoneNew
      BY <1>4, TypeParts DEF ComesUp, RytersTyped, NoneNew, Running, shared, world, history
    <2> QED BY <2>2, <2>3 DEF Known, NoneNew
  <1>5. ASSUME NEW r \in Ryters, Remember(r) PROVE Known'
    <2>1. /\ at[r] = "up" /\ at'[r] = "idle" /\ product' = product /\ owed' = owed /\ NoneNew
          /\ \A q \in Ryters \ {r} : at'[q] = at[q] /\ started'[q] = started[q]
      BY <1>5, TypeParts DEF Remember, RytersTyped, NoneNew, Running, world
    <2>2. NoteOf(product[r]) # None /\ NoteOf(product[r]).of = product[r].of
      BY <2>1, TypeParts, OfStarted DEF HandsMatch, RytersTyped
    <2>3. lost \subseteq lost'
      BY <1>5 DEF Remember
    <2>4. \/ note' = NoteOf(product[r]) /\ (note # None => (note.of = product[r].of /\ ~note.pending) \/ note.of \in lost')
          \/ note' = note /\ product[r].of \in lost'
      BY <1>5 DEF Remember, Overwritten
    <2>5. product[r].of = started[r].of
      BY <2>1 DEF Known
    <2>6. ASSUME NEW j \in Starts, Running(j)', j \notin lost'
          PROVE  \/ note' # None /\ note'.of = j
                 \/ \E q \in Ryters : at'[q] \in {"starting", "up"} /\ started'[q].of = j
      <3>1. Running(j) /\ j \notin lost
        BY <2>1, <2>3, <2>6 DEF NoneNew
      <3>2. CASE note # None /\ note.of = j
        BY <2>2, <2>4, <2>6, <3>2
      <3>3. CASE j = product[r].of
        BY <2>2, <2>4, <2>6, <3>3
      <3>4. CASE \E q \in Ryters \ {r} : at[q] \in {"starting", "up"} /\ started[q].of = j
        BY <2>1, <3>4
      <3> QED BY <2>5, <3>1, <3>2, <3>3, <3>4 DEF Known
    <2>7. ASSUME NEW j \in owed' \ lost' PROVE note' # None /\ note'.of = j /\ note'.pending
      BY <2>1, <2>3, <2>4, <2>7 DEF Known
    <2>8. ASSUME NEW q \in Ryters, at'[q] = "up" PROVE product'[q].of = started'[q].of
      BY <2>1, <2>8 DEF Known
    <2> QED BY <2>6, <2>7, <2>8 DEF Known
  <1>6. ASSUME NEW r \in Ryters, NextSession(r) PROVE Known'
    <2>1. /\ at'[r] = "idle" /\ note' = note /\ owed' = owed /\ NoneNew /\ lost \subseteq lost'
          /\ at[r] \in {"starting", "up"} => started[r].of \in lost'
          /\ \A q \in Ryters \ {r} : /\ at'[q] = at[q] /\ started'[q] = started[q]
                                     /\ product'[q] = product[q]
      BY <1>6, TypeParts DEF NextSession, RytersTyped, NoneNew, Running, shared, world
    <2> QED BY <2>1 DEF Known, NoneNew
  <1>7. ASSUME NEW r \in Ryters, FailedStart(r) \/ Stopped(r) PROVE Known'
    <2> DEFINE s == started[r]
    <2>1. s \in Started /\ at[r] \in {"starting", "stopping"}
      BY <1>7, TypeParts DEF FailedStart, Stopped, HandsMatch, RytersTyped
    <2>2. PICK ok \in BOOLEAN :
            /\ Ends(s, ok)
            /\ \/ KeepForRetry(r, Kept(s)) /\ owed' = owed \cup {s.of}
               \/ /\ s.stop = None \/ ok
                  /\ lost \cup OutOfReach(s) \subseteq lost' /\ product' = product
                  /\ \/ note' = note /\ owed' = owed
                     \/ /\ note' = None /\ owed' = owed \ {s.of} /\ at[r] = "stopping"
                        /\ Overwritten(s.of, TRUE) \subseteq lost'
      BY <1>7 DEF FailedStart, Stopped
    <2>3. CASE KeepForRetry(r, Kept(s)) /\ owed' = owed \cup {s.of}
      <3>1. Kept(s) \in Started /\ Kept(s).of = s.of /\ Kept(s).pending = TRUE
        BY <2>1, OfStarted
      <3>2. NoneNew
        BY <2>2, TypeParts, OfEnds DEF NoneNew, Running
      <3>3. at' = [at EXCEPT ![r] = "idle"] /\ started' = [started EXCEPT ![r] = None]
        BY <1>7 DEF FailedStart, Stopped
      <3> QED BY <2>1, <2>3, <3>1, <3>2, <3>3, KeepSteps
    <2> QED BY <1>7, <2>2, <2>3, DoneSteps
  <1>8. ASSUME NEW r \in Ryters, StopNotRun(r) PROVE Known'
    <2>1. started[r] \in Started
      BY <1>8, TypeParts DEF StopNotRun, HandsMatch, RytersTyped
    <2>2. NoneNew
      BY <1>8 DEF StopNotRun, NoneNew, Running, world
    <2> QED BY <1>8, <2>1, <2>2, KeepSteps DEF StopNotRun
  <1>9. ASSUME NEW i \in Starts,
               Returns(i) \/ Answers(i) \/ HangsUp(i) \/ Dies(i) \/ NumberTaken(i)
        PROVE  Known'
    <2>1. NoneNew
      BY <1>9, TypeParts DEF NoneNew, Running, WorldTyped, Returns, Answers, HangsUp, Dies, NumberTaken
    <2> QED BY <1>9, <2>1, QuietSteps DEF Returns, Answers, HangsUp, Dies, NumberTaken, shared, history
  <1>10. CASE Edit \/ UNCHANGED vars
    <2>1. NoneNew
      BY <1>10 DEF Edit, vars, world, NoneNew, Running
    <2> QED BY <1>10, <2>1, QuietSteps DEF Edit, vars, shared, history
  <1> QED BY <1>1, <1>2, <1>3, <1>4, <1>5, <1>6, <1>7, <1>8, <1>9, <1>10 DEF Next

LEMMA AlwaysKnown == Spec => []Known
  <1>1. Init => Known
    BY DEF Init, Known, Running
  <1> QED BY <1>1, KnownSteps, TypeCorrect, PTL DEF Spec

\* A product that runs is in the note or in a living Ryter's hands (agent.rs,
\* run_project and stop_product; run.rs, remember and forget), with any number
\* of Ryters, unless it may have been lost sight of in one of the ways listed.
THEOREM RunningStaysKnown == Spec => []RunningIsKnown
  <1>1. Known => RunningIsKnown
    BY DEF Known, RunningIsKnown
  <1> QED BY <1>1, AlwaysKnown, PTL

\* After a cleanup that failed no Ryter begins a start, in this session or a
\* later one, until a stop has worked (agent.rs, run_project): the note that
\* says so is there, unless it could not be written or another's took its place.
THEOREM FailedCleanupIsHeld == Spec => FailedCleanupHolds
  <1>1. TypeOK /\ Known /\ [Next]_vars =>
          [\A r \in Ryters : at[r] = "idle" /\ at'[r] \in {"gone", "shown", "approved"}
                               => owed \subseteq lost]_vars
    <2> SUFFICES ASSUME TypeOK, Known, Next, NEW r \in Ryters,
                        at[r] = "idle", at'[r] \in {"gone", "shown", "approved"}
                 PROVE  owed \subseteq lost
      OBVIOUS
    <2>1. Begin(r) \/ FindsItGone(r)
      <3>1. ASSUME NEW q \in Ryters,
                   ProposeRun(q) \/ Yes(q) \/ No(q) \/ Begin(q) \/ FindsItGone(q) \/ Forget(q) \/ NotStarted(q)
            PROVE  Begin(r) \/ FindsItGone(r)
        <4>1. CASE ProposeRun(q) \/ Yes(q) \/ No(q) \/ Forget(q) \/ NotStarted(q)
          BY <4>1, TypeParts DEF RytersTyped, ProposeRun, Yes, No, Forget, NotStarted, ApprovedRun
        <4>2. CASE Begin(q) \/ FindsItGone(q)
          BY <4>2, TypeParts DEF RytersTyped, Begin, FindsItGone, ApprovedRun
        <4> QED BY <3>1, <4>1, <4>2
      <3>2. ASSUME NEW q \in Ryters,
                   Spawn(q) \/ ComesUp(q) \/ Remember(q) \/ NextSession(q)
                   \/ FailedStart(q) \/ StopProduct(q) \/ Stopped(q) \/ StopNotRun(q)
            PROVE  FALSE
        BY <3>2, TypeParts DEF RytersTyped, Spawn, ComesUp, Remember, NextSession, FailedStart,
           StopProduct, Stopped, StopNotRun
      <3>3. ASSUME NEW i \in Starts,
                   Returns(i) \/ Answers(i) \/ HangsUp(i) \/ Dies(i) \/ NumberTaken(i)
            PROVE  FALSE
        BY <3>3 DEF Returns, Answers, HangsUp, Dies, NumberTaken
      <3>4. ~Edit
        BY DEF Edit
      <3> QED BY <3>1, <3>2, <3>3, <3>4 DEF Next
    <2>2. note = None \/ ~note.pending
      BY <2>1 DEF Begin, FindsItGone
    <2> QED BY <2>2, TypeParts DEF Known, HistoryTyped
  <1> QED BY <1>1, AlwaysKnown, TypeCorrect, PTL DEF Spec, FailedCleanupHolds

-----------------------------------------------------------------------------
(* What is ended.                                                           *)

\* The numbers held are those of the start that is stood for, which the Ryter
\* made in this session; while a start is not up its own is held.
Own(s, n) == \A i \in Starts : i \in {s.child, s.group} => n = i /\ s.of = i
HoldsOwn(r) ==
    /\ product[r] # None => Own(product[r], newest[r])
    /\ started[r] # None => Own(started[r], newest[r])
    /\ at[r] = "starting" => started[r].child = started[r].of
    /\ at[r] \notin {"idle", "up"} => product[r] = None
AllHoldOwn == \A r \in Ryters : HoldsOwn(r)

LEMMA NoNumbers == \A s, n : s.child = 0 /\ s.group = 0 => Own(s, n)
  BY DEF Own, Starts

\* A step of one Ryter, or of none.
LEMMA OthersHold ==
    ASSUME AllHoldOwn, NEW r,
           \A q \in Ryters \ {r} : /\ at'[q] = at[q] /\ product'[q] = product[q]
                                   /\ started'[q] = started[q] /\ newest'[q] = newest[q],
           r \in Ryters => HoldsOwn(r)'
    PROVE  AllHoldOwn'
  <1>1. ASSUME NEW q \in Ryters, q # r PROVE HoldsOwn(q)'
    BY <1>1 DEF AllHoldOwn, HoldsOwn
  <1> QED BY <1>1 DEF AllHoldOwn

LEMMA QuietHold ==
    TypeOK /\ AllHoldOwn /\ UNCHANGED <<at, product, started, newest>> => AllHoldOwn'
  BY DEF AllHoldOwn, HoldsOwn

LEMMA CallsHold ==
    ASSUME TypeOK, AllHoldOwn, NEW r \in Ryters,
           \/ ProposeRun(r) \/ Yes(r) \/ No(r) \/ Begin(r) \/ FindsItGone(r) \/ Forget(r)
           \/ NotStarted(r)
    PROVE  AllHoldOwn'
  <1>1. HoldsOwn(r)
    BY DEF AllHoldOwn
  <1>2. product' = product /\ started' = started /\ newest' = newest
    BY DEF ProposeRun, Yes, No, Begin, FindsItGone, Forget, NotStarted, history
  <1>3. at'[r] # "starting" /\ \A q \in Ryters \ {r} : at'[q] = at[q]
    BY TypeParts DEF RytersTyped, ApprovedRun, ProposeRun, Yes, No, Begin, FindsItGone, Forget,
       NotStarted
  <1>4. product[r] = None \/ at'[r] = "idle"
    BY <1>1, TypeParts DEF HoldsOwn, RytersTyped, ApprovedRun, ProposeRun, Yes, No, Begin, FindsItGone,
       Forget, NotStarted
  <1>5. HoldsOwn(r)'
    BY <1>1, <1>2, <1>3, <1>4 DEF HoldsOwn
  <1> QED BY <1>2, <1>3, <1>5, OthersHold

LEMMA SpawnHolds ==
    ASSUME TypeOK, AllHoldOwn, NEW r \in Ryters, Spawn(r)
    PROVE  AllHoldOwn'
  <1>1. PICK i \in Starts :
          /\ started' = [started EXCEPT ![r] =
                [pending |-> FALSE, ready |-> text[r].ready, stop |-> text[r].stop,
                 child |-> i, group |-> 0, of |-> i]]
          /\ newest' = [newest EXCEPT ![r] = i]
    BY DEF Spawn
  <1>2. /\ started'[r].child = i /\ started'[r].group = 0 /\ started'[r].of = i
        /\ newest'[r] = i /\ at'[r] = "starting" /\ product' = product
        /\ \A q \in Ryters \ {r} : /\ at'[q] = at[q] /\ started'[q] = started[q]
                                   /\ newest'[q] = newest[q]
    BY <1>1, TypeParts DEF Spawn, RytersTyped, HistoryTyped
  <1>3. product[r] = None
    BY DEF AllHoldOwn, HoldsOwn, Spawn
  <1>4. HoldsOwn(r)'
    BY <1>2, <1>3 DEF HoldsOwn, Own, Starts
  <1> QED BY <1>2, <1>4, OthersHold

LEMMA ComesUpHolds ==
    ASSUME TypeOK, AllHoldOwn, NEW r \in Ryters, ComesUp(r)
    PROVE  AllHoldOwn'
  <1>1. started[r] \in Started /\ at[r] = "starting" /\ HoldsOwn(r)
    BY TypeParts DEF ComesUp, HandsMatch, RytersTyped, AllHoldOwn
  <1>2. PICK exited \in BOOLEAN : product' = [product EXCEPT ![r] = Up(started[r], exited)]
    BY DEF ComesUp
  <1>3. /\ {Up(started[r], exited).child, Up(started[r], exited).group} \subseteq {0, started[r].of}
        /\ Up(started[r], exited).of = started[r].of /\ started[r].of \in Starts
    BY <1>1, OfUp, OfStarted
  <1>4. newest[r] = started[r].of
    BY <1>1, <1>3, OfStarted DEF HoldsOwn, Own
  <1>5. Own(Up(started[r], exited), newest[r])
    BY <1>3, <1>4 DEF Own, Starts
  <1>6. /\ at'[r] = "up" /\ started' = started /\ newest' = newest
        /\ product'[r] = Up(started[r], exited)
        /\ \A q \in Ryters \ {r} : at'[q] = at[q] /\ product'[q] = product[q]
    BY <1>2, TypeParts DEF ComesUp, RytersTyped, history
  <1>7. HoldsOwn(r)'
    BY <1>1, <1>5, <1>6 DEF HoldsOwn
  <1> QED BY <1>6, <1>7, OthersHold

\* A call that ends, with what is in hand then.
LEMMA IdleHolds ==
    ASSUME TypeOK, AllHoldOwn, NEW r \in Ryters,
           Remember(r) \/ NextSession(r) \/ FailedStart(r) \/ Stopped(r) \/ StopNotRun(r)
    PROVE  AllHoldOwn'
  <1>1. HoldsOwn(r)
    BY DEF AllHoldOwn
  <1>2. /\ at'[r] = "idle" /\ started'[r] = None
        /\ \A q \in Ryters \ {r} : /\ at'[q] = at[q] /\ started'[q] = started[q]
                                   /\ product'[q] = product[q] /\ newest'[q] = newest[q]
    BY TypeParts DEF RytersTyped, HistoryTyped, KeepForRetry, history, Remember, NextSession,
       FailedStart, Stopped, StopNotRun
  <1>3. product'[r] # None => Own(product'[r], newest'[r])
    <2>1. CASE Remember(r)
      BY <1>1, <2>1 DEF Remember, HoldsOwn
    <2>2. CASE NextSession(r)
      BY <2>2, TypeParts DEF NextSession, RytersTyped
    <2>3. CASE FailedStart(r) \/ Stopped(r)
      <3>1. started[r] \in Started /\ product[r] = None
        BY <1>1, <2>3, TypeParts DEF FailedStart, Stopped, HandsMatch, RytersTyped, HoldsOwn
      <3>2. product' = product \/ product' = [product EXCEPT ![r] = Kept(started[r])]
        BY <2>3 DEF FailedStart, Stopped, KeepForRetry
      <3>3. product'[r] \in {None, Kept(started[r])}
        BY <3>1, <3>2, TypeParts DEF RytersTyped
      <3>4. Kept(started[r]).child = 0 /\ Kept(started[r]).group = 0
        BY <3>1, OfStarted
      <3> QED BY <3>3, <3>4, NoNumbers
    <2>4. CASE StopNotRun(r)
      <3>1. started[r] # None /\ newest' = newest /\ product'[r] = started[r]
        BY <2>4, TypeParts DEF StopNotRun, KeepForRetry, HandsMatch, RytersTyped
      <3> QED BY <1>1, <3>1 DEF HoldsOwn
    <2> QED BY <2>1, <2>2, <2>3, <2>4
  <1>4. HoldsOwn(r)'
    BY <1>2, <1>3 DEF HoldsOwn
  <1> QED BY <1>2, <1>4, OthersHold

LEMMA StopHolds ==
    ASSUME TypeOK, AllHoldOwn, NEW r \in Ryters, StopProduct(r)
    PROVE  AllHoldOwn'
  <1>1. HoldsOwn(r)
    BY DEF AllHoldOwn
  <1>2. /\ started'[r] = StopsWith(r) /\ product'[r] = None /\ at'[r] = "stopping"
        /\ newest' = newest /\ StopsWith(r) # None
        /\ \A q \in Ryters \ {r} : /\ product'[q] = product[q] /\ at'[q] = at[q]
                                   /\ started'[q] = started[q]
    BY TypeParts DEF StopProduct, RytersTyped, history
  <1>3. \/ StopsWith(r).child = 0 /\ StopsWith(r).group = 0
        \/ /\ product[r] # None
           /\ StopsWith(r).child = product[r].child
           /\ StopsWith(r).group = product[r].group
           /\ StopsWith(r).of = product[r].of
    BY <1>2, OfStopsWith
  <1>4. Own(StopsWith(r), newest[r])
    BY <1>1, <1>3, NoNumbers DEF HoldsOwn, Own
  <1>5. HoldsOwn(r)'
    BY <1>2, <1>4 DEF HoldsOwn
  <1> QED BY <1>2, <1>5, OthersHold

LEMMA HoldSteps == TypeOK /\ AllHoldOwn /\ [Next]_vars => AllHoldOwn'
  <1>1. TypeOK /\ AllHoldOwn /\ (Edit \/ UNCHANGED vars) => AllHoldOwn'
    BY QuietHold DEF Edit, vars, history
  <1>2. ASSUME TypeOK, AllHoldOwn, NEW i \in Starts,
               Returns(i) \/ Answers(i) \/ HangsUp(i) \/ Dies(i) \/ NumberTaken(i)
        PROVE  AllHoldOwn'
    BY <1>2, QuietHold DEF Returns, Answers, HangsUp, Dies, NumberTaken, history
  <1> QED BY <1>1, <1>2, CallsHold, SpawnHolds, ComesUpHolds, IdleHolds, StopHolds DEF Next

\* A step that ends a process which has a number that was free.
LEMMA EndSteps ==
    ASSUME TypeOK, AllHoldOwn, Next, NEW i \in Starts, runs[i] = "other", runs'[i] # "other"
    PROVE  \E r \in Ryters : newest[r] = i /\ at[r] \in {"starting", "stopping"} /\ started[r].of = i
  <1>1. ASSUME NEW r \in Ryters,
               \/ ProposeRun(r) \/ Yes(r) \/ No(r) \/ Begin(r) \/ FindsItGone(r) \/ Forget(r)
               \/ NotStarted(r) \/ Spawn(r) \/ ComesUp(r) \/ Remember(r) \/ NextSession(r)
               \/ StopProduct(r) \/ StopNotRun(r)
        PROVE  FALSE
    BY <1>1, TypeParts DEF WorldTyped, ProposeRun, Yes, No, Begin, FindsItGone, Forget, NotStarted, Spawn,
       ComesUp, Remember, NextSession, StopProduct, StopNotRun, world
  <1>2. ASSUME NEW j \in Starts,
               Returns(j) \/ Answers(j) \/ HangsUp(j) \/ Dies(j) \/ NumberTaken(j)
        PROVE  FALSE
    BY <1>2, TypeParts DEF WorldTyped, Running, Returns, Answers, HangsUp, Dies, NumberTaken
  <1>3. ~Edit
    BY DEF Edit, world
  <1>4. PICK r \in Ryters : FailedStart(r) \/ Stopped(r)
    BY <1>1, <1>2, <1>3 DEF Next
  <1>5. started[r] \in Started /\ at[r] \in {"starting", "stopping"} /\ HoldsOwn(r)
    BY <1>4, TypeParts DEF FailedStart, Stopped, HandsMatch, RytersTyped, AllHoldOwn
  <1>6. PICK ok \in BOOLEAN : Ends(started[r], ok)
    BY <1>4 DEF FailedStart, Stopped
  <1>7. i \in {started[r].child, started[r].group}
    BY <1>6, TypeParts, OfEnds DEF Running
  <1>8. newest[r] = i /\ started[r].of = i
    BY <1>5, <1>7, OfStarted DEF HoldsOwn, Own
  <1> QED BY <1>5, <1>8

\* No number out of a note ends anything (run.rs, Started::left and stop): a
\* process that has taken the number of a start that is gone can be ended only
\* by the Ryter that made the start, in the session that made it.
THEOREM NotesEndNobody == Spec => NotesEndNobodyElse
  <1>1. Init => AllHoldOwn
    BY DEF Init, AllHoldOwn, HoldsOwn
  <1>2. TypeOK /\ AllHoldOwn /\ [Next]_vars
          => [\A i \in Starts : runs[i] = "other" /\ runs'[i] # "other" =>
                \E r \in Ryters : newest[r] = i /\ at[r] \in {"starting", "stopping"} /\ started[r].of = i]_vars
    BY EndSteps
  <1>3. TypeOK /\ AllHoldOwn /\ [Next]_vars => AllHoldOwn'
    BY HoldSteps
  <1> QED BY <1>1, <1>2, <1>3, TypeCorrect, PTL DEF Spec, NotesEndNobodyElse
=============================================================================
