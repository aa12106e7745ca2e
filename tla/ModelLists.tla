----------------------------- MODULE ModelLists -----------------------------
(* The model lists `/models` shows, and the connections they are asked of.   *)
(*                                                                           *)
(* The screen's thread has the configured connections and sends work to the  *)
(* worker: list every connection's models, list the session's, take a changed*)
(* set of connections, move the session to another connection. The worker    *)
(* has a copy of the connections of its own. A list is fetched on a thread   *)
(* of its own, which answers on a channel; the worker reads that channel     *)
(* once after each piece of work, or after 200 ms without any. What the      *)
(* worker shows goes to the screen as events.                                *)
(*                                                                           *)
(* A connection is a name and the endpoint it is configured with: one name   *)
(* can be removed and added again with another endpoint. A list stands for   *)
(* the endpoint that gave it. The other work on the queue leaves all of this *)
(* alone and makes the worker late, which it may be here without it.         *)
EXTENDS Integers, Sequences

CONSTANTS
    Names,         \* of connections
    Own,           \* those in the user's own file, which can go and come back
    Endpoints,     \* what a connection can be configured with
    At,            \* the endpoints of the connections there may be at the start
    None,
    Slow,          \* the names whose list may take more than 30 s
    MaxActs,       \* bound: what the user does, a panel closed apart
    MaxLag         \* bound: the events the screen is behind by

ASSUME NoneAssumption == None \notin Names \cup Endpoints
ASSUME OwnAssumption == Own \cup Slow \subseteq Names
ASSUME AtAssumption == At \in [Names -> Endpoints]
ASSUME BoundsAssumption == MaxActs \in Nat /\ MaxLag \in Nat \ {0}

VARIABLES
    conns,         \* the screen's connections, an endpoint or None for each name
    keyed,         \* the names with a key, which both threads read from disk
    mine,          \* the connection the screen takes for the session's
    open,          \* the picker is open
    settled,       \* since it opened: the names whose list has come, or won't
    loading,       \* and it says some list is still to come
    note,          \* the picker's note: "none", "coming" or "standing"
    acts,

    work,          \* the worker's queue
    events,        \* the worker's events, not yet seen by the screen

    cfg,           \* the worker's connections
    agent,         \* the connection the agent is on, None without an agent
    held,          \* a session is held for an agent to come (`session_hold`)
    book,          \* the list the agent's prices are from, None without one
    cache,         \* the list kept on disk for each name, None without one
    fetching,      \* the fetch that is current for a name, 0 for none
    told,          \* the names whose fetch was said to be slow
    generation,    \* of the newest fetch
    standing,      \* the names something stands against: no list, or an old one
    after,         \* the worker is between its work and the lists that came

    out,           \* the fetches on their threads
    answers        \* what the threads answered, not yet read

screenVars == <<conns, keyed, mine, open, settled, loading, note, acts>>
workerVars == <<cfg, agent, held, book, cache, fetching, told, generation, standing, after>>
vars == <<screenVars, workerVars, work, events, out, answers>>

Configs == [Names -> Endpoints \cup {None}]
Has(c) == {n \in Names : c[n] # None}

Requests == [kind : {"all", "one"}]
            \cup [kind : {"set"}, conns : Configs]
            \cup [kind : {"use"}, name : Names]

(* `ModelsListed`, with the `ModelsNote` that follows it: "same" for none.   *)
Notes == {"none", "coming", "standing"}
Events == [covered : SUBSET Names, failed : SUBSET Names, note : Notes \cup {"same"}]

Listed(covered, failed, n) == [covered |-> covered, failed |-> failed, note |-> n]

(* A fetch is for one name, or for several on one thread: `from` is the      *)
(* endpoint each is asked of, None for a name that is not. The code counts a *)
(* generation for each name; names share no slot, so one for the batch tells *)
(* the same fetches apart.                                                   *)
Fetches == [gen : Nat \ {0}, from : Configs]

(* A list, an empty one, or an error: the endpoint did not answer in 300 s.  *)
(* Which it was is chosen where the worker reads it: nothing looks before.   *)
Outcomes == {"list", "empty", "error"}

TypeOK ==
    /\ conns \in Configs
    /\ keyed \in SUBSET Names
    /\ mine \in Names
    /\ open \in BOOLEAN
    /\ settled \in SUBSET Names
    /\ loading \in BOOLEAN
    /\ note \in Notes
    /\ acts \in 0..MaxActs
    /\ work \in Seq(Requests)
    /\ events \in Seq(Events)
    /\ cfg \in Configs
    /\ agent \in Names \cup {None}
    /\ held \in BOOLEAN
    /\ book \in Endpoints \cup {None}
    /\ cache \in Configs
    /\ fetching \in [Names -> Nat]
    /\ told \in SUBSET Names
    /\ generation \in Nat
    /\ standing \in SUBSET Has(cfg)     \* nothing stands against what is gone
    /\ after \in BOOLEAN
    /\ out \in SUBSET Fetches
    /\ answers \in Seq(Fetches)

(* The worker is started with the screen's connections, and an agent if the  *)
(* session's has a key; a list of its models is the first work on the queue. *)
(* The session is taken from `session_hold` to build the agent, and where    *)
(* there is no key it is taken all the same, and dropped.                    *)
Init ==
    /\ conns \in Configs /\ Names \ Own \subseteq Has(conns)
    /\ \A n \in Has(conns) : conns[n] = At[n]
    /\ cfg = conns
    /\ keyed \in SUBSET Names
    /\ mine \in Has(conns)
    /\ open = FALSE /\ settled = {} /\ loading = FALSE /\ note = "none"
    /\ acts = 0
    /\ work = <<[kind |-> "one"]>>
    /\ events = <<>>
    /\ agent = IF mine \in keyed THEN mine ELSE None
    /\ held = FALSE
    /\ cache \in [Names -> {None}] \cup {conns}
    /\ book = IF agent = None THEN None ELSE cache[agent]
    /\ fetching = [n \in Names |-> 0]
    /\ told = {}
    /\ generation = 0
    /\ standing = {}
    /\ after = FALSE
    /\ out = {}
    /\ answers = <<>>

-----------------------------------------------------------------------------
(* The screen *)

Acts == acts < MaxActs /\ acts' = acts + 1

(* `/models`: a picker that says it is loading, and asks for every list.     *)
OpenModels ==
    /\ Acts
    /\ open' = TRUE /\ settled' = {} /\ loading' = TRUE
    /\ work' = Append(work, [kind |-> "all"])
    /\ UNCHANGED <<conns, keyed, mine, note, workerVars, events, out, answers>>

CloseModels ==
    /\ open
    /\ open' = FALSE
    /\ UNCHANGED <<conns, keyed, mine, settled, loading, note, acts, workerVars,
                   work, events, out, answers>>

(* `/provider`, which is another panel: a connection is added under a name   *)
(* that is free, or one of the user's own is removed, unless it is the       *)
(* session's; the worker is told.                                            *)
ToldOf(c) ==
    /\ Acts
    /\ ~open
    /\ conns' = c
    /\ work' = Append(work, [kind |-> "set", conns |-> c])
    /\ UNCHANGED <<keyed, mine, open, settled, loading, note, workerVars, events,
                   out, answers>>

AddConnection(n, e) == n \in Own /\ conns[n] = None /\ ToldOf([conns EXCEPT ![n] = e])
RemoveConnection(n) ==
    n \in Own /\ conns[n] # None /\ n # mine /\ ToldOf([conns EXCEPT ![n] = None])

(* The session moves to a connection, and its list is asked for. A key given *)
(* to a connection moves the session there.                                  *)
UseConnection(n) ==
    /\ Acts
    /\ ~open
    /\ conns[n] # None
    /\ keyed' \in {keyed, keyed \cup {n}} /\ n \in keyed'
    /\ mine' = n
    /\ work' = work \o <<[kind |-> "use", name |-> n], [kind |-> "one"]>>
    /\ UNCHANGED <<conns, open, settled, loading, note, workerVars, events, out, answers>>

(* A model chosen in the picker is run by the connection its row is of.      *)
SetModel(n) ==
    /\ Acts
    /\ open
    /\ conns[n] # None /\ n \in keyed
    /\ mine' = n
    /\ work' = Append(work, [kind |-> "use", name |-> n])
    /\ UNCHANGED <<conns, keyed, open, settled, loading, note, workerVars, events,
                   out, answers>>

(* An event: lists settle the picker's connections if it is open, and it     *)
(* loads until every connection with a key is settled. (A slow fetch is only *)
(* a note: it settles nothing, and leaves what is loading as it was.)        *)
SeeEvent ==
    /\ events # <<>>
    /\ events' = Tail(events)
    /\ LET e == Head(events)
       IN /\ note' = IF e.note = "same" THEN note ELSE e.note
          /\ IF open
             THEN /\ settled' = settled \cup e.covered \cup e.failed
                  /\ loading' = ~(Has(conns) \cap keyed \subseteq settled')
             ELSE UNCHANGED <<settled, loading>>
    /\ UNCHANGED <<conns, keyed, mine, open, acts, workerVars, work, out, answers>>

Screen ==
    \/ OpenModels \/ CloseModels \/ SeeEvent
    \/ \E n \in Names :
          \/ \E e \in Endpoints : AddConnection(n, e)
          \/ RemoveConnection(n) \/ UseConnection(n) \/ SetModel(n)

-----------------------------------------------------------------------------
(* The worker *)

(* Every fetch of an answer is used, whatever was asked since.               *)
CurrentWrong(a) == Has(a.from)

(* The names of an answer whose slots still hold it: not one removed since,  *)
(* nor one that a newer fetch is out for.                                    *)
Current(a) == {n \in Has(a.from) : fetching[n] = a.gen}

NoteAfter(against, slots) ==
    IF against # {} THEN "standing"
    ELSE IF \E n \in Names : slots[n] # 0 THEN "same"
    ELSE "none"

(* A fetch of the names nothing is out for, each asked as it is configured.  *)
Fetch(asked) ==
    LET new == {n \in asked : fetching[n] = 0}
    IN IF new = {}
       THEN UNCHANGED <<fetching, told, generation, out>>
       ELSE /\ generation' = generation + 1
            /\ fetching' = [n \in Names |-> IF n \in new THEN generation + 1
                                            ELSE fetching[n]]
            /\ told' = told \ new
            /\ out' = out \cup {[gen |-> generation + 1,
                                 from |-> [n \in Names |-> IF n \in new THEN cfg[n]
                                                           ELSE None]]}

(* With nobody to ask the picker is told nothing.                            *)
ShowWrong(asked) ==
    LET kept == {n \in asked : cache[n] # None}
    IN IF kept # {} THEN Append(events, Listed(kept, {}, "coming")) ELSE events

(* What is kept of the lists asked for is shown at once; with nobody to ask, *)
(* the picker is told that no list is coming.                                *)
Show(asked) ==
    LET kept == {n \in asked : cache[n] # None}
    IN IF kept # {} THEN Append(events, Listed(kept, {}, "coming"))
       ELSE IF asked = {} THEN Append(events, Listed({}, Has(cfg), "same"))
       ELSE events

Lag == Len(events) < MaxLag

Receive(kind) ==
    /\ ~after
    /\ work # <<>> /\ Head(work).kind = kind
    /\ work' = Tail(work)

(* `ListAllModels`: every connection with a key. What stands against one     *)
(* that has none now goes.                                                   *)
ListAllModels ==
    /\ Lag
    /\ Receive("all")
    /\ LET asked == Has(cfg) \cap keyed
       IN /\ events' = Show(asked)
          /\ Fetch(asked)
          /\ standing' = standing \cap asked
    /\ after' = TRUE
    /\ UNCHANGED <<screenVars, cfg, agent, held, book, cache, answers>>

(* `ListModels`: the session's connection. Without an agent the worker goes  *)
(* back to its queue at once.                                                *)
ListModels ==
    /\ Lag
    /\ Receive("one")
    /\ LET asked == IF agent = None THEN {} ELSE {agent}
       IN events' = Show(asked) /\ Fetch(asked)
    /\ after' = (agent # None)
    /\ UNCHANGED <<screenVars, cfg, agent, held, book, cache, standing, answers>>

(* What stands is not looked through when connections go.                    *)
SetConnectionsWrong ==
    /\ Receive("set")
    /\ cfg' = Head(work).conns
    /\ fetching' = [n \in Names |-> IF cfg'[n] # None THEN fetching[n] ELSE 0]
    /\ told' = told \cap Has(cfg')
    /\ after' = TRUE
    /\ UNCHANGED <<screenVars, agent, held, book, cache, generation, standing, events,
                   out, answers>>

(* `SetConnections`: the fetch of a connection that is gone is nobody's, and *)
(* stays so when the name comes back.                                        *)
SetConnections ==
    /\ Receive("set")
    /\ cfg' = Head(work).conns
    /\ standing' = standing \cap Has(cfg')
    /\ fetching' = [n \in Names |-> IF cfg'[n] # None THEN fetching[n] ELSE 0]
    /\ told' = told \cap Has(cfg')
    /\ after' = TRUE
    /\ UNCHANGED <<screenVars, agent, held, book, cache, generation, events, out, answers>>

(* `Reconnect`: the agent moves and is priced from that connection's list; a *)
(* session that is held gets an agent.                                       *)
Reconnect ==
    /\ Receive("use")
    /\ LET name == Head(work).name
       IN IF cfg[name] = None
          THEN UNCHANGED <<agent, held, book, after>>
          ELSE /\ IF agent # None \/ held
                  THEN agent' = name /\ book' = cache[name]
                  ELSE UNCHANGED <<agent, book>>
               /\ held' = (held /\ agent # None)
               /\ after' = TRUE
    /\ UNCHANGED <<screenVars, cfg, cache, fetching, told, generation, standing, events,
                   out, answers>>

(* 200 ms without work (left out while there is no answer to read either).   *)
NoWork ==
    /\ ~after
    /\ work = <<>> /\ answers # <<>>
    /\ after' = TRUE
    /\ UNCHANGED <<screenVars, cfg, agent, held, book, cache, fetching, told, generation,
                   standing, work, events, out, answers>>

(* Before it looks at its queue: a fetch out for 30 s is said to be slow.    *)
TellSlow(n) ==
    /\ ~after
    /\ Lag
    /\ n \in Slow \ told /\ fetching[n] # 0
    /\ told' = told \cup {n}
    /\ events' = Append(events, Listed({}, {}, "coming"))
    /\ UNCHANGED <<screenVars, cfg, agent, held, book, cache, fetching, generation,
                   standing, after, work, out, answers>>

(* An answer that came. Only those the slots still name are used: a list is  *)
(* kept, an empty one takes the one kept with it, an error leaves it and is  *)
(* noted. The note comes down when nothing stands and nothing is out.        *)
TakeAnswer ==
    /\ after
    /\ answers # <<>> /\ Lag
    /\ answers' = Tail(answers)
    /\ LET a == Head(answers)
           current == Current(a)
           used == current \cap Has(cfg)
       IN
       \E outcome \in [used -> Outcomes] :
       LET missed == {n \in used : outcome[n] = "error"}
           covered == {n \in used : n \in missed => cache[n] # None}
       IN /\ fetching' = [n \in Names |-> IF n \in current THEN 0 ELSE fetching[n]]
          /\ told' = told \ current
          /\ cache' = [n \in Names |-> IF n \notin used \ missed THEN cache[n]
                                       ELSE IF outcome[n] = "list" THEN a.from[n]
                                       ELSE None]
          /\ standing' = (standing \ used) \cup missed
          /\ book' = IF agent \in covered THEN cache'[agent] ELSE book
          /\ events' = Append(events, Listed(covered, used \ covered,
                                             NoteAfter(standing', fetching')))
    /\ UNCHANGED <<screenVars, cfg, agent, held, generation, after, work, out>>

NoAnswer ==
    /\ after
    /\ answers = <<>>
    /\ after' = FALSE
    /\ UNCHANGED <<screenVars, cfg, agent, held, book, cache, fetching, told, generation,
                   standing, work, events, out, answers>>

Pass == \/ ListAllModels \/ ListModels \/ SetConnections \/ Reconnect
        \/ NoWork \/ TakeAnswer \/ NoAnswer

Worker == Pass \/ \E n \in Names : TellSlow(n)

-----------------------------------------------------------------------------
(* The fetches. A thread answers for all its names at once, at the latest    *)
(* when the last of them has had its 300 s.                                  *)
Answer(f) ==
    /\ out' = out \ {f}
    /\ answers' = Append(answers, f)
    /\ UNCHANGED <<screenVars, workerVars, work, events>>

Threads == \E f \in out : Answer(f)

Next == Screen \/ Worker \/ Threads

Spec == Init /\ [][Next]_vars

(* The worker goes on: other work it is given ends, or is stopped. A thread  *)
(* answers, since each of its names has a timeout. The screen reads what it  *)
(* is sent. The user owes nothing, and nothing has to be slow.               *)
FairSpec == Spec /\ WF_vars(Pass) /\ WF_vars(Threads) /\ WF_vars(SeeEvent)

-----------------------------------------------------------------------------
(* A list is kept under a name only if it is from the endpoint the worker    *)
(* has for that name: whatever was removed, added again, asked twice or slow *)
(* meanwhile, nobody is shown or charged by another's list.                  *)
ListsAreTheirs ==
    [][\A n \in Names : cache'[n] \notin {cache[n], None} => cache'[n] = cfg[n]]_vars

(* The agent's connection is one the worker has, so a turn has somewhere to  *)
(* go: the screen's word for it moves before the worker's, and what it       *)
(* refuses to remove is the screen's.                                        *)
AgentIsConnected == agent # None => cfg[agent] # None

(* A picker that is loading stops, unless it is closed, and a note that says *)
(* a list is coming comes down: no fetch is lost, waited for twice, or left  *)
(* marked as out.                                                            *)
PickerSettles ==
    /\ open /\ loading ~> ~open \/ ~loading
    /\ note = "coming" ~> note # "coming"

(* A session that has moved to a connection with a key has an agent to run   *)
(* its turns (it does not: what a run without a key held is gone).           *)
AKeyGivesAnAgent ==
    work = <<>> /\ mine \in keyed => agent # None

=============================================================================
