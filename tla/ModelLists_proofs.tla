-------------------------- MODULE ModelLists_proofs ---------------------------
(* Proofs about ModelLists, for any connections and endpoints and any number *)
(* of things the user does.                                                  *)
EXTENDS ModelLists, SequenceTheorems, TLAPS

-----------------------------------------------------------------------------
(* The invariant.                                                            *)

\* A name whose endpoint two configurations differ on is missing from one.
Near(c, d) == \A n \in Names : c[n] # None /\ d[n] # None => c[n] = d[n]

\* How the queue w leads from the worker's connections c and agent a to the
\* screen's connections d and session's connection s: f and g are the
\* connections, and the session's, as the worker will have them after each
\* piece of work.
Leads(f, g, w, c, a, d, s) ==
    /\ f \in [0..Len(w) -> Configs] /\ g \in [0..Len(w) -> Names]
    /\ f[0] = c /\ f[Len(w)] = d
    /\ a # None => g[0] = a
    /\ g[Len(w)] = s
    /\ \A i \in 0..Len(w) : f[i][g[i]] # None
    /\ \A i \in 1..Len(w) :
          /\ f[i] = IF w[i].kind = "set" THEN w[i].conns ELSE f[i - 1]
          /\ Near(f[i - 1], f[i])
          /\ g[i] = IF w[i].kind = "use" THEN w[i].name ELSE g[i - 1]

\* The worker comes to what the screen has, by way of what the screen had.
Ahead == \E f, g : Leads(f, g, work, cfg, agent, conns, mine)

\* A fetch that a slot still holds was asked of the endpoint configured now:
\* with the connections c, the slots s and m fetches so far.
TheirsIn(f, c, s, m) ==
    /\ f.gen \in 1..m
    /\ \A n \in Names : f.from[n] # None /\ s[n] = f.gen => f.from[n] = c[n]

FetchesAreTheirs ==
    /\ \A n \in Names : fetching[n] <= generation
    /\ \A f \in out : TheirsIn(f, cfg, fetching, generation)
    /\ \A i \in 1..Len(answers) : TheirsIn(answers[i], cfg, fetching, generation)

IInv == TypeOK /\ Ahead /\ FetchesAreTheirs

-----------------------------------------------------------------------------
(* The queue, as data.                                                       *)

\* A piece of work is taken: the worker goes to where f and g say.
LEMMA LeadsOn ==
    ASSUME NEW w \in Seq(Requests), w # <<>>, NEW f, NEW g, NEW c, NEW a, NEW b, NEW d, NEW s,
           Leads(f, g, w, c, a, d, s), b # None => b = g[1]
    PROVE  \E f1, g1 : Leads(f1, g1, Tail(w), f[1], b, d, s)
<1> DEFINE n == Len(w)
           f1 == [i \in 0..(n - 1) |-> f[i + 1]]
           g1 == [i \in 0..(n - 1) |-> g[i + 1]]
<1>1. n \in Nat \ {0} /\ Len(Tail(w)) = n - 1
  BY LenProperties, EmptySeq, HeadTailProperties
<1>2. \A i \in 1..(n - 1) : Tail(w)[i] = w[i + 1]
  BY <1>1, HeadTailProperties
<1>3. f1 \in [0..(n - 1) -> Configs] /\ g1 \in [0..(n - 1) -> Names]
  BY <1>1 DEF Leads
<1>4. f1[0] = f[1] /\ f1[n - 1] = d /\ g1[0] = g[1] /\ g1[n - 1] = s
  BY <1>1 DEF Leads
<1>5. \A i \in 0..(n - 1) : f1[i][g1[i]] # None
  BY <1>1 DEF Leads
<1>6. ASSUME NEW i \in 1..(n - 1)
      PROVE  /\ f1[i] = IF Tail(w)[i].kind = "set" THEN Tail(w)[i].conns ELSE f1[i - 1]
             /\ Near(f1[i - 1], f1[i])
             /\ g1[i] = IF Tail(w)[i].kind = "use" THEN Tail(w)[i].name ELSE g1[i - 1]
  <2>1. i + 1 \in 1..n /\ (i + 1) - 1 = i /\ i - 1 \in 0..(n - 1) /\ i \in 0..(n - 1) /\ (i - 1) + 1 = i
    BY <1>1
  <2>2. f1[i] = f[i + 1] /\ f1[i - 1] = f[i] /\ g1[i] = g[i + 1] /\ g1[i - 1] = g[i]
    BY <2>1
  <2>3. /\ f[i + 1] = IF w[i + 1].kind = "set" THEN w[i + 1].conns ELSE f[i]
        /\ Near(f[i], f[i + 1])
        /\ g[i + 1] = IF w[i + 1].kind = "use" THEN w[i + 1].name ELSE g[i]
    BY <2>1 DEF Leads
  <2> QED BY <1>2, <2>2, <2>3
<1> HIDE DEF f1, g1
<1>7. Leads(f1, g1, Tail(w), f[1], b, d, s)
  BY <1>1, <1>3, <1>4, <1>5, <1>6 DEF Leads
<1> QED BY <1>7

\* A piece of work is sent, with what it makes of the connections and of the
\* session's.
LEMMA LeadsFurther ==
    ASSUME NEW w \in Seq(Requests), NEW r \in Requests, NEW f, NEW g, NEW c, NEW a,
           NEW d \in Configs, NEW d1 \in Configs, NEW s \in Names, NEW s1 \in Names,
           Leads(f, g, w, c, a, d, s), Near(d, d1), d1[s1] # None,
           d1 = IF r.kind = "set" THEN r.conns ELSE d,
           s1 = IF r.kind = "use" THEN r.name ELSE s
    PROVE  \E f1, g1 : Leads(f1, g1, Append(w, r), c, a, d1, s1)
<1> DEFINE n == Len(w)
           v == Append(w, r)
           f1 == [i \in 0..(n + 1) |-> IF i = n + 1 THEN d1 ELSE f[i]]
           g1 == [i \in 0..(n + 1) |-> IF i = n + 1 THEN s1 ELSE g[i]]
<1>1. n \in Nat /\ Len(v) = n + 1 /\ v[n + 1] = r /\ \A i \in 1..n : v[i] = w[i]
  BY LenProperties, AppendProperties
<1>2. f1 \in [0..(n + 1) -> Configs] /\ g1 \in [0..(n + 1) -> Names]
  BY <1>1 DEF Leads
<1>3. f1[0] = c /\ f1[n + 1] = d1 /\ g1[0] = g[0] /\ g1[n + 1] = s1
  BY <1>1 DEF Leads
<1>4. \A i \in 0..(n + 1) : f1[i][g1[i]] # None
  BY <1>1 DEF Leads
<1>5. ASSUME NEW i \in 1..(n + 1)
      PROVE  /\ f1[i] = IF v[i].kind = "set" THEN v[i].conns ELSE f1[i - 1]
             /\ Near(f1[i - 1], f1[i])
             /\ g1[i] = IF v[i].kind = "use" THEN v[i].name ELSE g1[i - 1]
  <2>1. CASE i = n + 1
    <3>1. f1[i] = d1 /\ f1[i - 1] = d /\ g1[i] = s1 /\ g1[i - 1] = s /\ v[i] = r
      BY <1>1, <2>1 DEF Leads
    <3> QED BY <3>1
  <2>2. CASE i # n + 1
    <3>1. f1[i] = f[i] /\ f1[i - 1] = f[i - 1] /\ g1[i] = g[i] /\ g1[i - 1] = g[i - 1]
      BY <1>1, <2>2
    <3>2. i \in 1..n /\ v[i] = w[i]
      BY <1>1, <2>2
    <3> QED BY <3>1, <3>2 DEF Leads
  <2> QED BY <2>1, <2>2
<1> HIDE DEF f1, g1, v
<1>6. Leads(f1, g1, v, c, a, d1, s1)
  BY <1>1, <1>2, <1>3, <1>4, <1>5 DEF Leads
<1> QED BY <1>6 DEF v

-----------------------------------------------------------------------------
(* Types.                                                                    *)

LEMMA WorkShape ==
    /\ [kind |-> "all"] \in Requests /\ [kind |-> "one"] \in Requests
    /\ \A c \in Configs : [kind |-> "set", conns |-> c] \in Requests
    /\ \A n \in Names : [kind |-> "use", name |-> n] \in Requests
  BY DEF Requests

LEMMA WorkMeans ==
    \A r \in Requests : /\ r.kind = "set" => r.conns \in Configs
                        /\ r.kind = "use" => r.name \in Names
  BY DEF Requests

LEMMA ConfigsHave == \A c \in Configs : Has(c) \subseteq Names
  BY DEF Has

LEMMA ListedIsAnEvent ==
    \A c \in SUBSET Names, f \in SUBSET Names, n \in Notes \cup {"same"} : Listed(c, f, n) \in Events
  BY DEF Listed, Events

LEMMA ShownAreEvents ==
    ASSUME TypeOK, NEW asked \in SUBSET Names
    PROVE  Show(asked) \in Seq(Events)
<1>1. Has(cfg) \subseteq Names
  BY ConfigsHave DEF TypeOK
<1>2. /\ Listed({n \in asked : cache[n] # None}, {}, "coming") \in Events
      /\ Listed({}, Has(cfg), "same") \in Events
  BY <1>1, ListedIsAnEvent DEF Notes
<1>3. events \in Seq(Events)
  BY DEF TypeOK
<1> QED BY <1>2, <1>3, AppendProperties DEF Show

LEMMA FetchTyped ==
    ASSUME TypeOK, NEW asked \in SUBSET Names, Fetch(asked)
    PROVE  /\ fetching' \in [Names -> Nat] /\ told' \in SUBSET Names
           /\ generation' \in Nat /\ out' \in SUBSET Fetches
<1> DEFINE new == {n \in asked : fetching[n] = 0}
           f == [gen |-> generation + 1, from |-> [n \in Names |-> IF n \in new THEN cfg[n] ELSE None]]
<1>1. CASE new = {}
  BY <1>1 DEF Fetch, TypeOK
<1>2. CASE new # {}
  <2>1. generation + 1 \in Nat \ {0}
    BY DEF TypeOK
  <2>2. f \in Fetches
    BY <2>1 DEF Fetches, Configs, TypeOK
  <2>3. /\ generation' = generation + 1
        /\ fetching' = [n \in Names |-> IF n \in new THEN generation + 1 ELSE fetching[n]]
        /\ told' = told \ new
        /\ out' = out \cup {f}
    BY <1>2 DEF Fetch
  <2> QED BY <2>1, <2>2, <2>3 DEF TypeOK
<1> QED BY <1>1, <1>2

ScreenTyped ==
    /\ conns \in Configs /\ keyed \in SUBSET Names /\ mine \in Names /\ open \in BOOLEAN
    /\ settled \in SUBSET Names /\ loading \in BOOLEAN /\ note \in Notes /\ acts \in 0..MaxActs

WorkerTyped ==
    /\ cfg \in Configs /\ agent \in Names \cup {None} /\ held \in BOOLEAN
    /\ book \in Endpoints \cup {None} /\ cache \in Configs
    /\ fetching \in [Names -> Nat] /\ told \in SUBSET Names /\ generation \in Nat
    /\ standing \in SUBSET Has(cfg) /\ after \in BOOLEAN

BetweenTyped ==
    /\ work \in Seq(Requests) /\ events \in Seq(Events)
    /\ out \in SUBSET Fetches /\ answers \in Seq(Fetches)

LEMMA TypeParts == TypeOK <=> ScreenTyped /\ WorkerTyped /\ BetweenTyped
  BY DEF TypeOK, ScreenTyped, WorkerTyped, BetweenTyped

LEMMA TypePartsNext == TypeOK' <=> ScreenTyped' /\ WorkerTyped' /\ BetweenTyped'
  BY TypeParts, PTL

LEMMA InitTyped == Init => TypeOK
<1> SUFFICES ASSUME Init PROVE TypeOK
  OBVIOUS
<1>1. conns \in Configs /\ mine \in Names
  BY ConfigsHave DEF Init
<1>2. cache \in Configs
  BY <1>1 DEF Init, Configs
<1>3. agent \in Names \cup {None}
  BY <1>1 DEF Init
<1>4. book \in Endpoints \cup {None}
  BY <1>2, <1>3 DEF Init, Configs
<1>5. ScreenTyped
  <2>1. acts \in 0..MaxActs
    BY BoundsAssumption DEF Init
  <2>2. keyed \in SUBSET Names /\ settled \in SUBSET Names /\ note \in Notes
    BY DEF Init, Notes
  <2>3. open \in BOOLEAN /\ loading \in BOOLEAN
    BY Zenon DEF Init
  <2> QED BY <1>1, <2>1, <2>2, <2>3 DEF ScreenTyped
<1>6. WorkerTyped
  BY <1>1, <1>2, <1>3, <1>4 DEF Init, WorkerTyped
<1>7. BetweenTyped
  BY WorkShape, EmptySeq DEF Init, BetweenTyped
<1> QED BY <1>5, <1>6, <1>7, TypeParts

LEMMA ActsBounded ==
    ASSUME TypeOK, Acts
    PROVE  acts' \in 0..MaxActs
  BY BoundsAssumption DEF Acts, TypeOK

LEMMA ScreenStepTyped ==
    ASSUME TypeOK, Screen
    PROVE  TypeOK'
<1> USE TypeParts, TypePartsNext
<1>1. CASE OpenModels
  <2>1. work' \in Seq(Requests)
    BY <1>1, WorkShape, AppendProperties DEF OpenModels, TypeOK
  <2> QED BY <2>1, <1>1, ActsBounded DEF OpenModels, workerVars, ScreenTyped, WorkerTyped, BetweenTyped, Has
<1>2. CASE CloseModels
  BY <1>2 DEF CloseModels, workerVars, ScreenTyped, WorkerTyped, BetweenTyped
<1>3. CASE SeeEvent
  <2>1. /\ Head(events) \in Events /\ Tail(events) \in Seq(Events)
    BY <1>3, HeadTailProperties DEF SeeEvent, TypeOK
  <2>2. settled' \in SUBSET Names /\ loading' \in BOOLEAN
    BY <1>3, <2>1 DEF SeeEvent, Events, TypeOK
  <2>3. note' \in Notes
    BY <1>3, <2>1 DEF SeeEvent, Events, TypeOK
  <2> QED BY <1>3, <2>1, <2>2, <2>3 DEF SeeEvent, workerVars, ScreenTyped, WorkerTyped, BetweenTyped
<1>4. ASSUME NEW c \in Configs, ToldOf(c) PROVE TypeOK'
  <2>1. work' \in Seq(Requests)
    BY <1>4, WorkShape, AppendProperties DEF ToldOf, TypeOK
  <2> QED BY <2>1, <1>4, ActsBounded DEF ToldOf, workerVars, ScreenTyped, WorkerTyped, BetweenTyped, Has
<1>5. ASSUME NEW n \in Names, NEW e \in Endpoints, AddConnection(n, e) PROVE TypeOK'
  <2>1. [conns EXCEPT ![n] = e] \in Configs
    BY DEF TypeOK, Configs
  <2> QED BY <2>1, <1>4, <1>5 DEF AddConnection
<1>6. ASSUME NEW n \in Names, RemoveConnection(n) PROVE TypeOK'
  <2>1. [conns EXCEPT ![n] = None] \in Configs
    BY DEF TypeOK, Configs
  <2> QED BY <2>1, <1>4, <1>6 DEF RemoveConnection
<1>7. ASSUME NEW n \in Names, UseConnection(n) PROVE TypeOK'
  <2>1. <<[kind |-> "use", name |-> n], [kind |-> "one"]>> \in Seq(Requests)
    BY WorkShape
  <2>2. work' \in Seq(Requests)
    BY <2>1, <1>7, ConcatProperties DEF UseConnection, TypeOK
  <2> QED BY <2>2, <1>7, ActsBounded DEF UseConnection, workerVars, ScreenTyped, WorkerTyped, BetweenTyped, Has
<1>8. ASSUME NEW n \in Names, SetModel(n) PROVE TypeOK'
  <2>1. work' \in Seq(Requests)
    BY <1>8, WorkShape, AppendProperties DEF SetModel, TypeOK
  <2> QED BY <2>1, <1>8, ActsBounded DEF SetModel, workerVars, ScreenTyped, WorkerTyped, BetweenTyped, Has
<1> QED BY <1>1, <1>2, <1>3, <1>5, <1>6, <1>7, <1>8 DEF Screen

\* What is left of the queue, and what was taken from it.
LEMMA Received ==
    ASSUME TypeOK, NEW kind, Receive(kind)
    PROVE  /\ work # <<>> /\ Head(work) = work[1] /\ Head(work) \in Requests /\ Head(work).kind = kind
           /\ work' = Tail(work) /\ work' \in Seq(Requests)
  BY HeadTailProperties DEF Receive, TypeOK

LEMMA WorkerStepTyped ==
    ASSUME TypeOK, Worker
    PROVE  TypeOK'
<1> USE TypeParts, TypePartsNext
<1>1. CASE ListAllModels
  <2> DEFINE asked == Has(cfg) \cap keyed
  <2>1. asked \in SUBSET Names
    BY ConfigsHave DEF TypeOK
  <2>2. work' \in Seq(Requests)
    BY <1>1, Received DEF ListAllModels
  <2>3. events' \in Seq(Events)
    BY <1>1, <2>1, ShownAreEvents DEF ListAllModels
  <2>4. Fetch(asked)
    BY <1>1 DEF ListAllModels
  <2>5. /\ fetching' \in [Names -> Nat] /\ told' \in SUBSET Names
        /\ generation' \in Nat /\ out' \in SUBSET Fetches
    BY <2>1, <2>4, FetchTyped
  <2>6. WorkerTyped'
    BY <1>1, <2>5 DEF ListAllModels, WorkerTyped, Has
  <2> QED BY <1>1, <2>2, <2>3, <2>5, <2>6 DEF ListAllModels, screenVars, ScreenTyped, BetweenTyped
<1>2. CASE ListModels
  <2> DEFINE asked == IF agent = None THEN {} ELSE {agent}
  <2>1. asked \in SUBSET Names
    BY DEF TypeOK
  <2>2. work' \in Seq(Requests)
    BY <1>2, Received DEF ListModels
  <2>3. events' = Show(asked) /\ Fetch(asked)
    BY <1>2 DEF ListModels
  <2>4. events' \in Seq(Events)
    BY <2>1, <2>3, ShownAreEvents
  <2>5. /\ fetching' \in [Names -> Nat] /\ told' \in SUBSET Names
        /\ generation' \in Nat /\ out' \in SUBSET Fetches
    BY <2>1, <2>3, FetchTyped
  <2>6. WorkerTyped'
    BY <1>2, <2>5 DEF ListModels, WorkerTyped, Has
  <2> QED BY <1>2, <2>2, <2>4, <2>5, <2>6 DEF ListModels, screenVars, ScreenTyped, BetweenTyped
<1>3. CASE SetConnections
  <2>1. cfg' \in Configs /\ work' \in Seq(Requests)
    BY <1>3, Received, WorkMeans DEF SetConnections
  <2>2. WorkerTyped'
    BY <1>3, <2>1 DEF SetConnections, WorkerTyped, Has
  <2> QED BY <1>3, <2>1, <2>2 DEF SetConnections, screenVars, ScreenTyped, BetweenTyped
<1>4. CASE Reconnect
  <2>1. Head(work).name \in Names /\ work' \in Seq(Requests)
    BY <1>4, Received, WorkMeans DEF Reconnect
  <2>2. agent' \in Names \cup {None} /\ book' \in Endpoints \cup {None}
    BY <1>4, <2>1 DEF Reconnect, TypeOK, Configs
  <2>3. held' \in BOOLEAN /\ after' \in BOOLEAN
    BY <1>4, Zenon DEF Reconnect, TypeOK
  <2> QED BY <1>4, <2>1, <2>2, <2>3 DEF Reconnect, screenVars, ScreenTyped, WorkerTyped, BetweenTyped, Has
<1>5. CASE NoWork
  BY <1>5 DEF NoWork, screenVars, ScreenTyped, WorkerTyped, BetweenTyped, Has
<1>6. CASE NoAnswer
  BY <1>6 DEF NoAnswer, screenVars, ScreenTyped, WorkerTyped, BetweenTyped, Has
<1>7. CASE TakeAnswer
  <2> DEFINE a == Head(answers)
             current == Current(a)
             used == current \cap Has(cfg)
  <2>1. a \in Fetches /\ answers' \in Seq(Fetches)
    BY <1>7, HeadTailProperties DEF TakeAnswer, TypeOK
  <2>2. PICK outcome \in [used -> Outcomes] :
          LET missed == {n \in used : outcome[n] = "error"}
              covered == {n \in used : n \in missed => cache[n] # None}
          IN /\ fetching' = [n \in Names |-> IF n \in current THEN 0 ELSE fetching[n]]
             /\ told' = told \ current
             /\ cache' = [n \in Names |-> IF n \notin used \ missed THEN cache[n]
                                          ELSE IF outcome[n] = "list" THEN a.from[n]
                                          ELSE None]
             /\ standing' = (standing \ used) \cup missed
             /\ book' = IF agent \in covered THEN cache'[agent] ELSE book
             /\ events' = Append(events, Listed(covered, used \ covered,
                                                NoteAfter(standing', fetching')))
    BY <1>7 DEF TakeAnswer
  <2> DEFINE missed == {n \in used : outcome[n] = "error"}
             covered == {n \in used : n \in missed => cache[n] # None}
  <2>3. used \subseteq Has(cfg) /\ used \subseteq Names /\ covered \subseteq Names /\ missed \subseteq used
    BY ConfigsHave DEF TypeOK
  <2>4. cache' \in Configs
    BY <2>1, <2>2 DEF Configs, Fetches, TypeOK
  <2>5. fetching' \in [Names -> Nat] /\ told' \in SUBSET Names
    BY <2>2 DEF TypeOK
  <2>6. standing' \in SUBSET Has(cfg)
    BY <2>2, <2>3 DEF TypeOK
  <2>7. book' \in Endpoints \cup {None}
    BY <2>2, <2>3, <2>4 DEF TypeOK, Configs
  <2>8. NoteAfter(standing', fetching') \in Notes \cup {"same"}
    BY DEF NoteAfter, Notes
  <2>9. Listed(covered, used \ covered, NoteAfter(standing', fetching')) \in Events
    BY <2>3, <2>8, ListedIsAnEvent
  <2>10. events' \in Seq(Events)
    BY <2>2, <2>9, AppendProperties DEF TypeOK
  <2>11. UNCHANGED <<screenVars, cfg, agent, held, generation, after, work, out>>
    BY <1>7 DEF TakeAnswer
  <2> HIDE DEF a, current, used, missed, covered
  <2>12. ScreenTyped' /\ WorkerTyped'
    BY <2>4, <2>5, <2>6, <2>7, <2>11 DEF screenVars, ScreenTyped, WorkerTyped, Has
  <2>13. BetweenTyped'
    BY <2>1, <2>10, <2>11 DEF BetweenTyped
  <2> QED BY <2>12, <2>13
<1>8. ASSUME NEW n \in Names, TellSlow(n) PROVE TypeOK'
  <2>1. events' \in Seq(Events)
    BY <1>8, ListedIsAnEvent, AppendProperties DEF TellSlow, TypeOK, Notes
  <2> QED BY <1>8, <2>1 DEF TellSlow, screenVars, ScreenTyped, WorkerTyped, BetweenTyped, Has
<1> QED BY <1>1, <1>2, <1>3, <1>4, <1>5, <1>6, <1>7, <1>8 DEF Worker, Pass

LEMMA ThreadStepTyped ==
    ASSUME TypeOK, Threads
    PROVE  TypeOK'
<1>1. PICK f \in out : Answer(f)
  BY DEF Threads
<1>2. answers' \in Seq(Fetches) /\ out' \in SUBSET Fetches
  BY <1>1, AppendProperties DEF Answer, TypeOK
<1> QED BY <1>1, <1>2, TypeParts, TypePartsNext DEF Answer, screenVars, workerVars, ScreenTyped, WorkerTyped, BetweenTyped, Has

LEMMA StillTyped ==
    ASSUME TypeOK, UNCHANGED vars
    PROVE  TypeOK'
  BY TypeParts, TypePartsNext DEF vars, screenVars, workerVars, ScreenTyped, WorkerTyped, BetweenTyped, Has

(* The screen's and the worker's state, the queues and the fetches stay of   *)
(* their types, and no note stands against a connection that is gone.        *)
THEOREM TypeCorrect == Spec => []TypeOK
<1>1. TypeOK /\ [Next]_vars => TypeOK'
  BY ScreenStepTyped, WorkerStepTyped, ThreadStepTyped, StillTyped DEF Next
<1> QED BY <1>1, InitTyped, PTL DEF Spec

-----------------------------------------------------------------------------
(* The queue leads the worker to what the screen has.                        *)

LEMMA InitAhead == Init => Ahead
<1> SUFFICES ASSUME Init PROVE Ahead
  OBVIOUS
<1> DEFINE f == [i \in 0..1 |-> conns]
           g == [i \in 0..1 |-> mine]
<1>1. conns \in Configs /\ mine \in Names /\ conns[mine] # None
  BY DEF Init, Has
<1>2. Len(work) = 1 /\ work[1].kind = "one"
  BY DEF Init
<1>3. f \in [0..Len(work) -> Configs] /\ g \in [0..Len(work) -> Names]
  BY <1>1, <1>2
<1>4. f[0] = cfg /\ f[Len(work)] = conns /\ (agent # None => g[0] = agent) /\ g[Len(work)] = mine
  BY <1>2 DEF Init
<1>5. \A i \in 0..Len(work) : f[i][g[i]] # None
  BY <1>1, <1>2
<1>6. \A i \in 1..Len(work) :
          /\ f[i] = IF work[i].kind = "set" THEN work[i].conns ELSE f[i - 1]
          /\ Near(f[i - 1], f[i])
          /\ g[i] = IF work[i].kind = "use" THEN work[i].name ELSE g[i - 1]
  BY <1>2 DEF Near
<1>7. Leads(f, g, work, cfg, agent, conns, mine)
  BY <1>3, <1>4, <1>5, <1>6 DEF Leads
<1> QED BY <1>7 DEF Ahead

\* Work that is neither connections nor a move leads nowhere.
LEMMA LeadsAsWell ==
    ASSUME TypeOK, Ahead, NEW r \in Requests, r.kind \in {"all", "one"},
           work' = Append(work, r), UNCHANGED <<cfg, agent, conns, mine>>
    PROVE  Ahead'
<1>1. PICK f, g : Leads(f, g, work, cfg, agent, conns, mine)
  BY DEF Ahead
<1>2. conns[mine] # None
  BY <1>1, LenProperties DEF Leads, TypeOK
<1>3. work \in Seq(Requests) /\ conns \in Configs /\ mine \in Names /\ Near(conns, conns)
  BY DEF TypeOK, Near
<1>4. \E f1, g1 : Leads(f1, g1, work', cfg, agent, conns, mine)
  BY <1>1, <1>2, <1>3, LeadsFurther
<1> QED BY <1>4 DEF Ahead

\* A move to a connection the screen has.
LEMMA LeadsToAMove ==
    ASSUME TypeOK, Ahead, NEW n \in Names, conns[n] # None
    PROVE  \E f, g : Leads(f, g, Append(work, [kind |-> "use", name |-> n]), cfg, agent, conns, n)
<1>1. PICK f, g : Leads(f, g, work, cfg, agent, conns, mine)
  BY DEF Ahead
<1>2. work \in Seq(Requests) /\ conns \in Configs /\ mine \in Names /\ Near(conns, conns)
  BY DEF TypeOK, Near
<1>3. [kind |-> "use", name |-> n] \in Requests
  BY WorkShape
<1> QED BY <1>1, <1>2, <1>3, LeadsFurther

LEMMA ScreenKeepsAhead ==
    ASSUME TypeOK, Ahead, Screen
    PROVE  Ahead'
<1>0. /\ work \in Seq(Requests) /\ conns \in Configs /\ mine \in Names
      /\ Len(work) \in Nat
  BY LenProperties DEF TypeOK
<1>1. conns[mine] # None
  BY <1>0 DEF Ahead, Leads
<1>2. CASE OpenModels
  BY <1>2, WorkShape, LeadsAsWell DEF OpenModels, workerVars
<1>3. CASE CloseModels \/ SeeEvent
  BY <1>3 DEF CloseModels, SeeEvent, workerVars, Ahead
<1>4. ASSUME NEW d \in Configs, ToldOf(d), Near(conns, d), d[mine] # None
      PROVE  Ahead'
  <2> DEFINE r == [kind |-> "set", conns |-> d]
  <2>1. PICK f, g : Leads(f, g, work, cfg, agent, conns, mine)
    BY DEF Ahead
  <2>2. r \in Requests
    BY WorkShape
  <2>3. \E f1, g1 : Leads(f1, g1, Append(work, r), cfg, agent, d, mine)
    BY <1>0, <1>4, <2>1, <2>2, LeadsFurther
  <2>4. work' = Append(work, r) /\ conns' = d /\ UNCHANGED <<cfg, agent, mine>>
    BY <1>4 DEF ToldOf, workerVars
  <2> QED BY <2>3, <2>4 DEF Ahead
<1>5. ASSUME NEW n \in Names, NEW e \in Endpoints, AddConnection(n, e)
      PROVE  Ahead'
  <2> DEFINE d == [conns EXCEPT ![n] = e]
  <2>1. d \in Configs /\ Near(conns, d) /\ d[mine] # None
    BY <1>0, <1>1, <1>5, NoneAssumption DEF AddConnection, Configs, Near
  <2> QED BY <1>4, <1>5, <2>1 DEF AddConnection
<1>6. ASSUME NEW n \in Names, RemoveConnection(n)
      PROVE  Ahead'
  <2> DEFINE d == [conns EXCEPT ![n] = None]
  <2>1. d \in Configs /\ Near(conns, d) /\ d[mine] # None
    BY <1>0, <1>1, <1>6 DEF RemoveConnection, Configs, Near
  <2> QED BY <1>4, <1>6, <2>1 DEF RemoveConnection
<1>7. ASSUME NEW n \in Names, SetModel(n)
      PROVE  Ahead'
  <2>1. conns[n] # None /\ work' = Append(work, [kind |-> "use", name |-> n]) /\ mine' = n
    BY <1>7 DEF SetModel
  <2>2. UNCHANGED <<cfg, agent, conns>>
    BY <1>7 DEF SetModel, workerVars
  <2> QED BY <2>1, <2>2, LeadsToAMove DEF Ahead
<1>8. ASSUME NEW n \in Names, UseConnection(n)
      PROVE  Ahead'
  <2> DEFINE u == [kind |-> "use", name |-> n]
             o == [kind |-> "one"]
             v == Append(work, u)
  <2>1. conns[n] # None /\ work' = work \o <<u, o>> /\ mine' = n
    BY <1>8 DEF UseConnection
  <2>2. UNCHANGED <<cfg, agent, conns>>
    BY <1>8 DEF UseConnection, workerVars
  <2>3. u \in Requests /\ o \in Requests /\ v \in Seq(Requests)
    BY <1>0, WorkShape, AppendProperties
  <2>4. work' = Append(v, o)
    BY <1>0, <2>1, <2>3
  <2>5. PICK f, g : Leads(f, g, v, cfg, agent, conns, n)
    BY <2>1, LeadsToAMove
  <2>6. Near(conns, conns) /\ o.kind = "one"
    BY DEF Near
  <2> HIDE DEF u, v, o
  <2>7. \E f1, g1 : Leads(f1, g1, Append(v, o), cfg, agent, conns, n)
    BY <1>0, <2>1, <2>3, <2>5, <2>6, LeadsFurther
  <2> QED BY <2>1, <2>2, <2>4, <2>7 DEF Ahead
<1> QED BY <1>2, <1>3, <1>5, <1>6, <1>7, <1>8 DEF Screen

\* What taking a piece of work does to the connections and the agent is what
\* the queue said.
LEMMA TakenAsSaid ==
    ASSUME TypeOK, Ahead, work # <<>>, work' = Tail(work), UNCHANGED <<conns, mine>>,
           cfg' = IF work[1].kind = "set" THEN work[1].conns ELSE cfg,
           agent' # None =>
              agent' = IF work[1].kind = "use" THEN work[1].name ELSE agent
    PROVE  Ahead' /\ Near(cfg, cfg')
<1>1. PICK f, g : Leads(f, g, work, cfg, agent, conns, mine)
  BY DEF Ahead
<1>2. work \in Seq(Requests) /\ 1 \in 1..Len(work) /\ 1 - 1 = 0
  BY EmptySeq, LenProperties DEF TypeOK
<1>3. f[1] = cfg' /\ Near(f[0], f[1]) /\ f[0] = cfg
  BY <1>1, <1>2 DEF Leads
<1>4. agent' # None => agent' = g[1]
  BY <1>1, <1>2 DEF Leads
<1>5. \E f1, g1 : Leads(f1, g1, Tail(work), f[1], agent', conns, mine)
  BY <1>1, <1>2, <1>4, LeadsOn
<1> QED BY <1>3, <1>5 DEF Ahead

LEMMA WorkerKeepsAhead ==
    ASSUME TypeOK, Ahead, Worker
    PROVE  Ahead' /\ Near(cfg, cfg')
<1>0. Near(cfg, cfg)
  BY DEF Near
<1>1. CASE ListAllModels
  BY <1>1, Received, TakenAsSaid DEF ListAllModels, screenVars
<1>2. CASE ListModels
  BY <1>2, Received, TakenAsSaid DEF ListModels, screenVars
<1>3. CASE SetConnections
  BY <1>3, Received, TakenAsSaid DEF SetConnections, screenVars
<1>4. CASE Reconnect
  <2>1. work # <<>> /\ Head(work) = work[1] /\ work[1].kind = "use" /\ work' = Tail(work)
    BY <1>4, Received DEF Reconnect
  <2>2. UNCHANGED <<conns, mine, cfg>>
    BY <1>4 DEF Reconnect, screenVars
  <2>3. cfg[work[1].name] # None
    <3>1. PICK f, g : Leads(f, g, work, cfg, agent, conns, mine)
      BY DEF Ahead
    <3>2. 1 \in 1..Len(work) /\ 1 - 1 = 0 /\ 1 \in 0..Len(work)
      BY <2>1, EmptySeq, LenProperties DEF TypeOK
    <3>3. f[1] = cfg /\ g[1] = work[1].name
      BY <2>1, <3>1, <3>2 DEF Leads
    <3> QED BY <3>1, <3>2, <3>3 DEF Leads
  <2>4. agent' # None => agent' = work[1].name
    BY <1>4, <2>1, <2>3 DEF Reconnect
  <2> QED BY <2>1, <2>2, <2>4, TakenAsSaid
<1>5. CASE NoWork \/ TakeAnswer \/ NoAnswer
  BY <1>0, <1>5 DEF NoWork, TakeAnswer, NoAnswer, screenVars, Ahead
<1>6. ASSUME NEW n \in Names, TellSlow(n) PROVE Ahead' /\ Near(cfg, cfg')
  BY <1>0, <1>6 DEF TellSlow, screenVars, Ahead
<1> QED BY <1>1, <1>2, <1>3, <1>4, <1>5, <1>6 DEF Worker, Pass

LEMMA AheadAgrees == TypeOK /\ Ahead => AgentIsConnected
<1> SUFFICES ASSUME TypeOK, NEW f, NEW g, Leads(f, g, work, cfg, agent, conns, mine)
             PROVE  AgentIsConnected
  BY DEF Ahead
<1>1. 0 \in 0..Len(work)
  BY LenProperties DEF TypeOK
<1> QED BY <1>1 DEF Leads, AgentIsConnected

-----------------------------------------------------------------------------
(* The fetches.                                                              *)

\* A fetch that is sent is current, and none that was out is the newer for it.
LEMMA FetchKeeps ==
    ASSUME TypeOK, FetchesAreTheirs, NEW asked \in SUBSET Names, Fetch(asked),
           UNCHANGED <<cfg, answers>>
    PROVE  FetchesAreTheirs'
<1> DEFINE new == {n \in asked : fetching[n] = 0}
           f == [gen |-> generation + 1, from |-> [n \in Names |-> IF n \in new THEN cfg[n] ELSE None]]
<1>1. CASE new = {}
  BY <1>1 DEF Fetch, FetchesAreTheirs, TheirsIn
<1>2. CASE new # {}
  <2>1. /\ generation' = generation + 1
        /\ fetching' = [n \in Names |-> IF n \in new THEN generation + 1 ELSE fetching[n]]
        /\ out' = out \cup {f}
    BY <1>2 DEF Fetch
  <2>2. generation \in Nat /\ fetching \in [Names -> Nat]
    BY DEF TypeOK
  <2>3. \A n \in Names : fetching'[n] <= generation'
    BY <2>1, <2>2 DEF FetchesAreTheirs
  <2>4. ASSUME NEW h, TheirsIn(h, cfg, fetching, generation)
        PROVE  TheirsIn(h, cfg', fetching', generation')
    BY <2>1, <2>2, <2>4 DEF TheirsIn
  <2>5. TheirsIn(f, cfg', fetching', generation')
    BY <2>1, <2>2 DEF TheirsIn
  <2> HIDE DEF f
  <2>6. /\ \A h \in out' : TheirsIn(h, cfg', fetching', generation')
        /\ \A i \in 1..Len(answers') : TheirsIn(answers'[i], cfg', fetching', generation')
    BY <2>1, <2>4, <2>5 DEF FetchesAreTheirs
  <2> QED BY <2>3, <2>6 DEF FetchesAreTheirs
<1> QED BY <1>1, <1>2

\* Slots are emptied, and connections go or come.
LEMMA SlotsKeep ==
    ASSUME TypeOK, FetchesAreTheirs, Near(cfg, cfg'), UNCHANGED <<generation, out>>,
           \A n \in Names : \/ fetching'[n] = 0
                            \/ fetching'[n] = fetching[n] /\ cfg'[n] # None,
           \A i \in 1..Len(answers') : \E j \in 1..Len(answers) : answers'[i] = answers[j]
    PROVE  FetchesAreTheirs'
<1>1. generation \in Nat /\ fetching \in [Names -> Nat]
  BY DEF TypeOK
<1>2. ASSUME NEW h, TheirsIn(h, cfg, fetching, generation)
      PROVE  TheirsIn(h, cfg', fetching', generation')
  BY <1>1, <1>2 DEF TheirsIn, Near
<1>3. \A n \in Names : fetching'[n] <= generation'
  BY <1>1 DEF FetchesAreTheirs
<1>4. \A h \in out' : TheirsIn(h, cfg', fetching', generation')
  BY <1>2 DEF FetchesAreTheirs
<1>5. \A i \in 1..Len(answers') : TheirsIn(answers'[i], cfg', fetching', generation')
  BY <1>2 DEF FetchesAreTheirs
<1> QED BY <1>3, <1>4, <1>5 DEF FetchesAreTheirs

LEMMA StillTheirs ==
    ASSUME FetchesAreTheirs, UNCHANGED <<cfg, fetching, generation, out, answers>>
    PROVE  FetchesAreTheirs'
  BY DEF FetchesAreTheirs, TheirsIn

LEMMA WorkerKeepsFetches ==
    ASSUME TypeOK, Ahead, FetchesAreTheirs, Worker
    PROVE  FetchesAreTheirs'
<1>1. CASE ListAllModels
  <2>1. Has(cfg) \cap keyed \in SUBSET Names
    BY ConfigsHave DEF TypeOK
  <2> QED BY <1>1, <2>1, FetchKeeps DEF ListAllModels
<1>2. CASE ListModels
  <2>1. (IF agent = None THEN {} ELSE {agent}) \in SUBSET Names
    BY DEF TypeOK
  <2> QED BY <1>2, <2>1, FetchKeeps DEF ListModels
<1>3. CASE SetConnections
  <2>1. Near(cfg, cfg')
    BY WorkerKeepsAhead
  <2> QED BY <1>3, <2>1, SlotsKeep DEF SetConnections
<1>4. CASE TakeAnswer
  <2>1. /\ \A n \in Names : fetching'[n] = 0 \/ fetching'[n] = fetching[n]
        /\ answers # <<>> /\ answers' = Tail(answers) /\ UNCHANGED <<cfg, generation, out>>
    BY <1>4 DEF TakeAnswer, TypeOK
  <2>2. \A i \in 1..Len(answers') : \E j \in 1..Len(answers) : answers'[i] = answers[j]
    <3>1. Len(answers) \in Nat \ {0} /\ Len(answers') = Len(answers) - 1
      BY <2>1, EmptySeq, LenProperties, HeadTailProperties DEF TypeOK
    <3>2. \A i \in 1..Len(answers') : i + 1 \in 1..Len(answers) /\ answers'[i] = answers[i + 1]
      BY <2>1, <3>1, HeadTailProperties DEF TypeOK
    <3> QED BY <3>2
  <2>3. generation \in Nat /\ fetching \in [Names -> Nat]
    BY DEF TypeOK
  <2>4. ASSUME NEW h, TheirsIn(h, cfg, fetching, generation)
        PROVE  TheirsIn(h, cfg', fetching', generation')
    BY <2>1, <2>3, <2>4 DEF TheirsIn
  <2>5. \A n \in Names : fetching'[n] <= generation'
    BY <2>1, <2>3 DEF FetchesAreTheirs
  <2>6. /\ \A h \in out' : TheirsIn(h, cfg', fetching', generation')
        /\ \A i \in 1..Len(answers') : TheirsIn(answers'[i], cfg', fetching', generation')
    BY <2>1, <2>2, <2>4 DEF FetchesAreTheirs
  <2> QED BY <2>5, <2>6 DEF FetchesAreTheirs
<1>5. CASE Reconnect \/ NoWork \/ NoAnswer
  BY <1>5, StillTheirs DEF Reconnect, NoWork, NoAnswer
<1>6. ASSUME NEW n \in Names, TellSlow(n) PROVE FetchesAreTheirs'
  BY <1>6, StillTheirs DEF TellSlow
<1> QED BY <1>1, <1>2, <1>3, <1>4, <1>5, <1>6 DEF Worker, Pass

LEMMA ScreenKeepsFetches ==
    ASSUME FetchesAreTheirs, Screen
    PROVE  FetchesAreTheirs'
<1>1. UNCHANGED <<workerVars, out, answers>>
  BY DEF Screen, OpenModels, CloseModels, SeeEvent, AddConnection, RemoveConnection,
         ToldOf, UseConnection, SetModel
<1> QED BY <1>1, StillTheirs DEF workerVars

LEMMA ThreadsKeep ==
    ASSUME TypeOK, Ahead, FetchesAreTheirs, Threads
    PROVE  Ahead' /\ FetchesAreTheirs'
<1>1. PICK f \in out : Answer(f)
  BY DEF Threads
<1>2. UNCHANGED <<conns, mine, cfg, agent, work, fetching, generation>>
  BY <1>1 DEF Answer, screenVars, workerVars
<1>3. out' = out \ {f} /\ answers' = Append(answers, f)
  BY <1>1 DEF Answer
<1>4. f \in Fetches /\ TheirsIn(f, cfg, fetching, generation)
  BY DEF TypeOK, FetchesAreTheirs
<1>5. ASSUME NEW h, TheirsIn(h, cfg, fetching, generation)
      PROVE  TheirsIn(h, cfg', fetching', generation')
  BY <1>2, <1>5 DEF TheirsIn
<1>6. \A i \in 1..Len(answers') : TheirsIn(answers'[i], cfg, fetching, generation)
  BY <1>3, <1>4, AppendProperties, LenProperties DEF TypeOK, FetchesAreTheirs
<1>7. Ahead'
  BY <1>2 DEF Ahead
<1>8. FetchesAreTheirs'
  BY <1>2, <1>3, <1>5, <1>6 DEF FetchesAreTheirs
<1> QED BY <1>7, <1>8

-----------------------------------------------------------------------------
LEMMA InitInv == Init => IInv
<1> SUFFICES ASSUME Init PROVE FetchesAreTheirs
  BY InitTyped, InitAhead DEF IInv
<1> QED BY DEF Init, FetchesAreTheirs

LEMMA NextInv == IInv /\ [Next]_vars => IInv'
<1> SUFFICES ASSUME TypeOK, Ahead, FetchesAreTheirs, [Next]_vars
             PROVE  TypeOK' /\ Ahead' /\ FetchesAreTheirs'
  BY DEF IInv
<1>1. CASE Screen
  BY <1>1, ScreenStepTyped, ScreenKeepsAhead, ScreenKeepsFetches
<1>2. CASE Worker
  BY <1>2, WorkerStepTyped, WorkerKeepsAhead, WorkerKeepsFetches
<1>3. CASE Threads
  BY <1>3, ThreadStepTyped, ThreadsKeep
<1>4. CASE UNCHANGED vars
  <2>1. UNCHANGED <<conns, mine, cfg, agent, work>>
    BY <1>4 DEF vars, screenVars, workerVars
  <2>2. UNCHANGED <<cfg, fetching, generation, out, answers>>
    BY <1>4 DEF vars, workerVars
  <2> QED BY <1>4, <2>1, <2>2, StillTyped, StillTheirs DEF Ahead
<1> QED BY <1>1, <1>2, <1>3, <1>4 DEF Next

LEMMA Invariant == Spec => []IInv
  BY InitInv, NextInv, PTL DEF Spec

\* A step writes a list of the endpoint that is configured, or none.
KeepsListsTheirs ==
    \A n \in Names : cache'[n] \notin {cache[n], None} => cache'[n] = cfg[n]

LEMMA ListsKept == IInv /\ [Next]_vars => KeepsListsTheirs
<1> SUFFICES ASSUME TypeOK, FetchesAreTheirs, [Next]_vars PROVE KeepsListsTheirs
  BY DEF IInv
<1>1. CASE TakeAnswer
  <2> DEFINE a == Head(answers)
  <2>1. a = answers[1] /\ 1 \in 1..Len(answers)
    BY <1>1, EmptySeq, LenProperties, HeadTailProperties DEF TakeAnswer, TypeOK
  <2>2. TheirsIn(a, cfg, fetching, generation)
    BY <2>1 DEF FetchesAreTheirs
  <2> HIDE DEF a
  <2>3. \A n \in Names : \/ cache'[n] \in {cache[n], None}
                         \/ cache'[n] = a.from[n] /\ n \in Current(a)
    <3> DEFINE used == Current(a) \cap Has(cfg)
    <3>1. PICK outcome \in [used -> Outcomes] :
            LET missed == {n \in used : outcome[n] = "error"}
            IN cache' = [n \in Names |-> IF n \notin used \ missed THEN cache[n]
                                         ELSE IF outcome[n] = "list" THEN a.from[n]
                                         ELSE None]
      BY <1>1, Zenon DEF TakeAnswer, a
    <3> QED BY <3>1
  <2>4. \A n \in Names : n \in Current(a) => a.from[n] = cfg[n]
    BY <2>2 DEF TheirsIn, Current, Has
  <2> QED BY <2>3, <2>4 DEF KeepsListsTheirs
<1>2. CASE UNCHANGED cache
  BY <1>2 DEF KeepsListsTheirs
<1>3. Screen \/ Threads \/ UNCHANGED vars => UNCHANGED cache
  BY DEF Screen, OpenModels, CloseModels, SeeEvent, AddConnection, RemoveConnection, ToldOf,
         UseConnection, SetModel, Threads, Answer, vars, workerVars
<1>4. Worker => TakeAnswer \/ UNCHANGED cache
  BY DEF Worker, Pass, ListAllModels, ListModels, SetConnections, Reconnect, NoWork, NoAnswer,
         TellSlow
<1> QED BY <1>1, <1>2, <1>3, <1>4 DEF Next

(* Whatever is removed, added again elsewhere, asked twice or late, a list   *)
(* kept under a connection's name is of the endpoint it then has.            *)
THEOREM ListsStayTheirs == Spec => ListsAreTheirs
<1>1. IInv /\ [Next]_vars => [KeepsListsTheirs]_vars
  BY ListsKept
<1>2. Spec => [][KeepsListsTheirs]_vars
  BY <1>1, Invariant, PTL DEF Spec
<1> QED BY <1>2 DEF ListsAreTheirs, KeepsListsTheirs

(* The agent's connection is never one that the worker was told is gone.     *)
THEOREM AgentStaysConnected == Spec => []AgentIsConnected
<1>1. IInv => AgentIsConnected
  BY AheadAgrees DEF IInv
<1> QED BY <1>1, Invariant, PTL

=============================================================================
