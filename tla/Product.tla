------------------------------- MODULE Product ------------------------------
(***************************************************************************)
(* The product a project runs: the run file and its approval, a start that *)
(* is waited for and taken down again when it fails, a stop, and the note  *)
(* by which a later session knows of it (run.rs; agent.rs, run_project,    *)
(* stop_product, approved_run, propose_run).  Ryters come and go, die at   *)
(* any step, and may work on the project at the same time; the file, the   *)
(* approval and the note are shared and have no lock.                      *)
(*                                                                         *)
(* A start has a number, which is its process group's too.  Once its own   *)
(* processes are gone and no Ryter has its command still to reap, it may   *)
(* be given to another process.  Of a run file only the address and the    *)
(* stop command are kept; a stop command that succeeds has ended the       *)
(* project's product.                                                      *)
(***************************************************************************)
EXTENDS Integers, FiniteSets

CONSTANTS
    Ryters,
    Stops,                          \* stop commands a run file may have
    Files,                          \* run files there may be
    None,
    MaxStarts                       \* bound

ASSUME ProductAssumption ==
    /\ MaxStarts \in Nat
    /\ None \notin Stops \cup Files
    /\ Files \subseteq [ready : BOOLEAN, stop : Stops \cup {None}]

VARIABLES
    file,       \* .ryter/run.toml
    approved,   \* run-approved.toml: the text the user said yes to last
    note,       \* running/<project>.toml, Left
    at,         \* where each Ryter is
    text,       \* the run file the call under way goes by
    product,    \* Agent::product, Started
    started,    \* what a start or a stop under way has in hand
    runs,       \* each start's processes
    server,     \* the start that answers at the address, or 0
    said,       \* history: the texts the user said yes to
    owed,       \* history: starts whose cleanup failed and was not made good
    lost,       \* history: starts that may have been lost sight of, see RunningIsKnown
    newest      \* history: the start each Ryter made in its present session, until it
                \* has ended it by its number, or 0

shared == <<file, approved, note>>
world == <<runs, server>>
history == <<said, owed, lost, newest>>
vars == <<shared, at, text, product, started, world, history>>

-----------------------------------------------------------------------------
Starts == 1..MaxStarts
Started == [pending : BOOLEAN, ready : BOOLEAN, stop : Stops \cup {None},
            child : 0..MaxStarts, group : 0..MaxStarts,
            of : Starts]                   \* history: the start it stands for
Left == [pending : BOOLEAN, ready : BOOLEAN, stop : Stops \cup {None}, pid : 0..MaxStarts,
         of : Starts]

Running(i) == runs[i] \in {"front", "group", "daemon"}
GroupAlive(i) == i # 0 /\ runs[i] \in {"front", "group", "other"}

ASSUME NoneAssumption == None \notin Started \cup Left

\* find: what the file says counts as approved as it stands.
Approved(f) == file = f /\ f # None /\ approved = f

NoteOf(s) == [pending |-> s.pending, ready |-> s.ready, stop |-> s.stop, of |-> s.of,
              pid |-> IF s.child # 0 THEN s.child ELSE s.group]

\* With the number taken for the group.
FromNoteWrong(n) == [pending |-> n.pending, ready |-> n.ready, stop |-> n.stop, of |-> n.of,
                     child |-> 0, group |-> n.pid]
\* Started::left: a number from another session is nothing to kill by.
FromNote(n) == [pending |-> n.pending, ready |-> n.ready, stop |-> n.stop, of |-> n.of,
                child |-> 0, group |-> 0]

\* What the note says is running is taken to be.
StillUp(n) ==
    \/ n.ready /\ server # 0
    \/ ~n.ready /\ n.pid # 0 /\ GroupAlive(n.pid)
    \/ ~n.ready /\ n.pid = 0

\* remember and forget write the one note, whoever's it is and whatever it
\* has come to say.
Overwritten(i, pending) ==
    IF note # None /\ (note.of # i \/ (note.pending /\ ~pending)) THEN {note.of} ELSE {}

-----------------------------------------------------------------------------
(* The run file.                                                           *)

Edit ==
    /\ file' \in Files \ {file}
    /\ UNCHANGED <<approved, note, at, text, product, started, world, history>>

\* propose_run, and a verb that found the commands in a manifest, with the
\* user's yes: save_approved writes the text they were shown, whatever is
\* there by then.
ProposeRun(r) ==
    /\ at[r] = "idle"
    /\ \E f \in Files :
         /\ ~Approved(f)
         /\ file' = f /\ approved' = f
         /\ said' = said \cup {f}
    /\ UNCHANGED <<note, at, text, product, started, world, owed, lost, newest>>

\* Without the case of no file.
ApprovedRunWrong(r) ==
    /\ text' = [text EXCEPT ![r] = file]
    /\ at' = [at EXCEPT ![r] = IF approved = file THEN "approved" ELSE "shown"]
\* approved_run: the file as it is read now, put to the user unless they
\* have said yes to it as it stands.
ApprovedRun(r) ==
    /\ text' = [text EXCEPT ![r] = file]
    /\ at' = [at EXCEPT ![r] = IF file = None THEN "idle"
                               ELSE IF Approved(file) THEN "approved" ELSE "shown"]

\* With the file read again at the yes.
YesWrong(r) ==
    /\ at[r] = "shown" /\ file # None
    /\ approved' = file
    /\ said' = said \cup {text[r]}
    /\ text' = [text EXCEPT ![r] = file]
    /\ at' = [at EXCEPT ![r] = "approved"]
    /\ UNCHANGED <<file, note, product, started, world, owed, lost, newest>>

Yes(r) ==
    /\ at[r] = "shown"
    /\ approved' = text[r]
    /\ said' = said \cup {text[r]}
    /\ at' = [at EXCEPT ![r] = "approved"]
    /\ UNCHANGED <<file, note, text, product, started, world, owed, lost, newest>>

\* No, "adjust", Esc, or an approval that cannot be saved.
No(r) ==
    /\ at[r] = "shown"
    /\ at' = [at EXCEPT ![r] = "idle"]
    /\ text' = [text EXCEPT ![r] = None]
    /\ UNCHANGED <<shared, product, started, world, history>>

-----------------------------------------------------------------------------
(* run_project start.  With a product in memory, or a note of one that is  *)
(* up or still to be cleaned up, it replies and changes nothing.           *)

Begin(r) ==
    /\ at[r] = "idle" /\ product[r] = None
    /\ note = None
    /\ ApprovedRun(r)
    /\ UNCHANGED <<shared, product, started, world, history>>

FindsItGone(r) ==
    /\ at[r] = "idle" /\ product[r] = None
    /\ note # None /\ ~note.pending /\ ~StillUp(note)
    /\ at' = [at EXCEPT ![r] = "gone"]
    /\ UNCHANGED <<shared, text, product, started, world, history>>

Forget(r) ==
    /\ at[r] = "gone"
    /\ note' = None
    /\ lost' = lost \cup (IF note = None THEN {} ELSE {note.of})
    /\ ApprovedRun(r)
    /\ UNCHANGED <<file, approved, product, started, world, said, owed, newest>>

\* Somebody answers at the address already, or the command cannot be run.
NotStarted(r) ==
    /\ at[r] = "approved"
    /\ at' = [at EXCEPT ![r] = "idle"]
    /\ text' = [text EXCEPT ![r] = None]
    /\ UNCHANGED <<shared, product, started, world, history>>

Spawn(r) ==
    /\ at[r] = "approved"
    /\ ~(text[r].ready /\ server # 0)
    /\ \E i \in Starts :
         /\ runs[i] = "none" /\ \A j \in 1..(i - 1) : runs[j] # "none"
         /\ runs' = [runs EXCEPT ![i] = "front"]
         /\ started' = [started EXCEPT ![r] =
               [pending |-> FALSE, ready |-> text[r].ready, stop |-> text[r].stop,
                child |-> i, group |-> 0, of |-> i]]
         /\ newest' = [newest EXCEPT ![r] = i]
    /\ at' = [at EXCEPT ![r] = "starting"]
    /\ text' = [text EXCEPT ![r] = None]
    /\ UNCHANGED <<shared, product, server, said, owed, lost>>

\* What is held of a start that is up: its command, which Ryter has not seen
\* return, or what is left in the group of one it has.
Up(s, exited) == [pending |-> FALSE, ready |-> s.ready, stop |-> s.stop, of |-> s.of,
                  child |-> IF exited THEN 0 ELSE s.of,
                  group |-> IF exited /\ GroupAlive(s.of) THEN s.of ELSE 0]

\* The address answers, whoever it is; with none, the command returned or
\* was watched for a moment.  Only a command seen to return is reaped.
ComesUp(r) ==
    /\ at[r] = "starting"
    /\ started[r].ready => server # 0
    /\ \E exited \in BOOLEAN :
         /\ exited => runs[started[r].of] # "front"
         /\ ~exited => runs[started[r].of] # "other"
         /\ product' = [product EXCEPT ![r] = Up(started[r], exited)]
    /\ at' = [at EXCEPT ![r] = "up"]
    /\ UNCHANGED <<shared, text, started, world, history>>

\* With a note only of what there is a command to stop.
RememberWrong(r) ==
    /\ at[r] = "up"
    /\ note' = IF product[r].stop = None THEN note ELSE NoteOf(product[r])
    /\ lost' = lost \cup Overwritten(product[r].of, FALSE)
    /\ at' = [at EXCEPT ![r] = "idle"]
    /\ started' = [started EXCEPT ![r] = None]
    /\ UNCHANGED <<file, approved, text, product, world, said, owed, newest>>

\* A note that cannot be written is only logged.
Remember(r) ==
    /\ at[r] = "up"
    /\ \/ /\ note' = NoteOf(product[r])
          /\ lost' = lost \cup Overwritten(product[r].of, FALSE)
       \/ /\ lost' = lost \cup {product[r].of}
          /\ UNCHANGED note
    /\ at' = [at EXCEPT ![r] = "idle"]
    /\ started' = [started EXCEPT ![r] = None]
    /\ UNCHANGED <<file, approved, text, product, world, said, owed, newest>>

-----------------------------------------------------------------------------
(* stop: the stop command, then what Ryter holds.                          *)

Held(s) == {i \in {s.child, s.group} : i # 0 /\ GroupAlive(i)}

\* What is left after it.  What a command that fails has ended is Dies.
Ends(s, ok) ==
    LET byCommand == IF s.stop # None /\ ok THEN {i \in Starts : Running(i)} ELSE {}
    IN /\ runs' = [i \in Starts |->
                     IF i \in byCommand \cup Held(s) THEN "gone" ELSE runs[i]]
       /\ server' = IF server # 0 /\ runs'[server] = "gone" THEN 0 ELSE server

\* With no stop command, what has left its group stays up, and nobody says so.
OutOfReach(s) == IF s.stop = None THEN {s.of} ELSE {}
DidNothing(s) == s.stop = None /\ s.child = 0 /\ Held(s) = {}

\* What is kept for a retry, and its note.
Kept(s) == [pending |-> TRUE, ready |-> s.ready, stop |-> s.stop, of |-> s.of,
            child |-> 0, group |-> 0]
\* With the note left as it was.
KeepForRetryWrong(r, s) ==
    /\ product' = [product EXCEPT ![r] = s]
    /\ UNCHANGED <<note, lost>>
KeepForRetry(r, s) ==
    /\ product' = [product EXCEPT ![r] = s]
    /\ \/ /\ note' = NoteOf(s)
          /\ lost' = lost \cup Overwritten(s.of, s.pending)
       \/ /\ lost' = lost \cup {s.of}
          /\ UNCHANGED note

\* failed_start: it exited with an error, never answered, or Esc.
FailedStart(r) ==
    /\ at[r] = "starting"
    /\ LET s == started[r]
       IN \E ok \in BOOLEAN :
            /\ Ends(s, ok)
            /\ IF s.stop # None /\ ~ok
               THEN KeepForRetry(r, Kept(s)) /\ owed' = owed \cup {s.of}
               ELSE /\ lost' = lost \cup OutOfReach(s)
                    /\ UNCHANGED <<product, note, owed>>
    /\ at' = [at EXCEPT ![r] = "idle"]
    /\ started' = [started EXCEPT ![r] = None]
    /\ newest' = [newest EXCEPT ![r] = 0]
    /\ UNCHANGED <<file, approved, text, said>>

\* What stop_product works on: none where the note has no stop command.  A
\* run file corrected since is the one to stop with.
StopsWith(r) ==
    LET s == IF product[r] # None THEN product[r]
             ELSE IF note # None /\ note.stop # None THEN FromNote(note) ELSE None
    IN IF s # None /\ Approved(file) /\ file.stop # None THEN [s EXCEPT !.stop = file.stop] ELSE s

\* /stop, run_project stop, the question on quit.
StopProduct(r) ==
    /\ at[r] = "idle"
    /\ StopsWith(r) # None
    /\ started' = [started EXCEPT ![r] = StopsWith(r)]
    /\ product' = [product EXCEPT ![r] = None]
    /\ at' = [at EXCEPT ![r] = "stopping"]
    /\ UNCHANGED <<shared, text, world, history>>

Stopped(r) ==
    /\ at[r] = "stopping"
    /\ LET s == started[r]
       IN \E ok \in BOOLEAN :
            /\ Ends(s, ok)
            /\ IF (s.stop # None /\ ~ok) \/ DidNothing(s)
               THEN KeepForRetry(r, Kept(s)) /\ owed' = owed \cup {s.of}
               ELSE /\ note' = None
                    /\ owed' = owed \ {s.of}
                    /\ lost' = lost \cup Overwritten(s.of, TRUE) \cup OutOfReach(s)
                    /\ UNCHANGED product
    /\ at' = [at EXCEPT ![r] = "idle"]
    /\ started' = [started EXCEPT ![r] = None]
    /\ newest' = [newest EXCEPT ![r] = 0]
    /\ UNCHANGED <<file, approved, text, said>>

\* The sandbox cannot be put up: nothing was run.
StopNotRun(r) ==
    /\ at[r] = "stopping"
    /\ KeepForRetry(r, started[r])
    /\ at' = [at EXCEPT ![r] = "idle"]
    /\ started' = [started EXCEPT ![r] = None]
    /\ UNCHANGED <<file, approved, text, world, said, owed, newest>>

-----------------------------------------------------------------------------
(* Ryters, and the processes they started.                                 *)

\* Quit and "leave it running", or the end of the process at any step; the
\* next session has only what is on the disk.
NextSession(r) ==
    /\ at[r] # "idle" \/ product[r] # None
    /\ at' = [at EXCEPT ![r] = "idle"]
    /\ text' = [text EXCEPT ![r] = None]
    /\ product' = [product EXCEPT ![r] = None]
    /\ started' = [started EXCEPT ![r] = None]
    /\ lost' = IF at[r] \in {"starting", "up"} THEN lost \cup {started[r].of} ELSE lost
    /\ newest' = [newest EXCEPT ![r] = 0]
    /\ UNCHANGED <<shared, world, said, owed>>

\* The start command returns, and leaves the product in its group or out of it.
Returns(i) ==
    /\ runs[i] = "front"
    /\ \E where \in {"group", "daemon"} : runs' = [runs EXCEPT ![i] = where]
    /\ UNCHANGED <<shared, at, text, product, started, server, history>>

Answers(i) ==
    /\ Running(i) /\ server = 0
    /\ server' = i
    /\ UNCHANGED <<shared, at, text, product, started, runs, history>>

HangsUp(i) ==
    /\ server = i
    /\ server' = 0
    /\ UNCHANGED <<shared, at, text, product, started, runs, history>>

Dies(i) ==
    /\ Running(i)
    /\ runs' = [runs EXCEPT ![i] = "gone"]
    /\ server' = IF server = i THEN 0 ELSE server
    /\ UNCHANGED <<shared, at, text, product, started, history>>

\* The kernel keeps the number of a command its Ryter has not reaped: the one
\* held as `child` once the start is through, and until it is stopped.  A
\* start under way may have reaped its own, and a `group` is what is left of
\* one that was: with its processes gone, the number is free.
Unreaped(i) ==
    \E r \in Ryters : \/ product[r] # None /\ product[r].child = i
                      \/ at[r] = "stopping" /\ started[r].child = i

NumberTaken(i) ==
    /\ runs[i] = "gone" /\ ~Unreaped(i)
    /\ runs' = [runs EXCEPT ![i] = "other"]
    /\ UNCHANGED <<shared, at, text, product, started, server, history>>

-----------------------------------------------------------------------------
Init ==
    /\ file \in Files \cup {None}
    /\ approved = None /\ note = None
    /\ at = [r \in Ryters |-> "idle"]
    /\ text = [r \in Ryters |-> None]
    /\ product = [r \in Ryters |-> None]
    /\ started = [r \in Ryters |-> None]
    /\ runs = [i \in Starts |-> "none"]
    /\ server = 0
    /\ said = {} /\ owed = {} /\ lost = {}
    /\ newest = [r \in Ryters |-> 0]

Next ==
    \/ Edit
    \/ \E r \in Ryters :
         \/ ProposeRun(r) \/ Yes(r) \/ No(r)
         \/ Begin(r) \/ FindsItGone(r) \/ Forget(r) \/ NotStarted(r) \/ Spawn(r)
         \/ ComesUp(r) \/ Remember(r) \/ FailedStart(r)
         \/ StopProduct(r) \/ Stopped(r) \/ StopNotRun(r)
         \/ NextSession(r)
    \/ \E i \in Starts : Returns(i) \/ Answers(i) \/ HangsUp(i) \/ Dies(i) \/ NumberTaken(i)

Spec == Init /\ [][Next]_vars

-----------------------------------------------------------------------------
TypeOK ==
    /\ file \in Files \cup {None} /\ approved \in Files \cup {None}
    /\ note \in Left \cup {None}
    /\ at \in [Ryters -> {"idle", "gone", "shown", "approved", "starting", "up",
                          "stopping"}]
    /\ text \in [Ryters -> Files \cup {None}]
    /\ product \in [Ryters -> Started \cup {None}]
    /\ started \in [Ryters -> Started \cup {None}]
    /\ \A r \in Ryters :
         /\ at[r] \in {"shown", "approved"} <=> text[r] # None
         /\ at[r] \in {"starting", "up", "stopping"} <=> started[r] # None
         /\ at[r] = "up" => product[r] # None
    /\ runs \in [Starts -> {"none", "front", "group", "daemon", "gone", "other"}]
    /\ server \in 0..MaxStarts
    /\ said \subseteq Files /\ owed \subseteq Starts /\ lost \subseteq Starts
    /\ newest \in [Ryters -> 0..MaxStarts]

\* Nothing of a run file runs that the user has not said yes to as it was
\* shown: not one edited while they read, between the yes and the start, or
\* by another Ryter, and no stop command kept in a note from before.
NothingRunsUnapproved ==
    \A r \in Ryters :
        /\ at[r] = "approved" => text[r] \in said
        /\ started[r] # None => started[r].stop \in {f.stop : f \in said} \cup {None}

\* A product that runs is in a living Ryter's hands or in the note, so /stop
\* can be asked for, through failed starts, failed stops, retries, sessions
\* that end and others that go on.  Left out is what may be lost sight of: a
\* start whose Ryter died before its note, a note that could not be written,
\* one forgotten because nothing answered, one that another Ryter wrote over or
\* removed, and what left its process group where there is no stop command.
RunningIsKnown ==
    \A i \in Starts : Running(i) /\ i \notin lost =>
        \/ note # None /\ note.of = i
        \/ \E r \in Ryters :
             \/ at[r] \in {"starting", "up"} /\ started[r].of = i
             \/ product[r] # None /\ product[r].of = i

\* After a cleanup that failed nothing is started until a stop has worked,
\* in this session or a later one.  Left out is a cleanup that may have been
\* lost sight of: its note could not be written, or another Ryter wrote its
\* own over it or removed it.
FailedCleanupHolds ==
    [][\A r \in Ryters : at[r] = "idle" /\ at'[r] \in {"gone", "shown", "approved"} => owed \subseteq lost]_vars

\* A process that has taken the number of a start that is gone is ended by
\* nobody but the Ryter that made that start, in the session that made it: a
\* number read from a note, of an earlier session or of another Ryter, ends
\* nothing.  In the session of the start it can be ended (run.rs:787,
\* failed_start): the group is signalled by its number whoever is in it.
NotesEndNobodyElse ==
    [][\A i \in Starts : runs[i] = "other" /\ runs'[i] # "other" =>
         \E r \in Ryters : newest[r] = i /\ at[r] \in {"starting", "stopping"} /\ started[r].of = i]_vars
=============================================================================
