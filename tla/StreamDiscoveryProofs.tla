------------------------- MODULE StreamDiscoveryProofs -------------------------
(***************************************************************************)
(* Proofs about StreamDiscovery, for any nodes, streams, owners, cache     *)
(* limit and time to live.                                                 *)
(***************************************************************************)
EXTENDS StreamDiscovery, FiniteSetTheorems, TLAPS

TaskRecs == [pc : Labels, anns : SUBSET Announcements, todo : SUBSET Streams]

\* Announcers work on streams of their own node, receivers on what was gossiped.
Provenance ==
    \A n \in Nodes :
        /\ \A s \in own[n] : Owner[s] = n
        /\ \A t \in {"caller", "loop"} :
              /\ \A a \in task[n][t].anns : Owner[a.stream] = n
              /\ \A s \in task[n][t].todo : Owner[s] = n
        /\ \A r \in Receivers : task[n][r].anns \subseteq net

\* Nothing carries a time that is still to come.
NoFuture ==
    /\ \A n \in Nodes, t \in Tasks : \A a \in task[n][t].anns : a.at <= now
    /\ \A a \in net : a.at <= now
    /\ \A n \in Nodes, s \in Streams : cache[n][s] <= now

\* A node caches at most MaxCached streams of other nodes.
CacheBounded ==
    \A n \in Nodes : Cardinality({s \in Cached(n) : Owner[s] # n}) <= MaxCached

\* The announcement an announcer is about to cache is no younger than the removal
\* of its stream, if the stream has been removed meanwhile.
LateCaching ==
    \A n \in Nodes, t \in {"caller", "loop"} :
        task[n][t].pc = "cache" =>
            \A a \in task[n][t].anns : ~ Alive(a.stream) => a.at <= ended[a.stream]

IInv == TypeOK /\ Provenance /\ NoFuture /\ LateCaching /\ CacheBounded /\ EndedExpires

-----------------------------------------------------------------------------
\* The caller, the loop and the receivers are different tasks.
LEMMA TaskKinds ==
    /\ "caller" \in Tasks /\ "loop" \in Tasks /\ Receivers \subseteq Tasks
    /\ "caller" \notin Receivers /\ "loop" \notin Receivers
    /\ \A t \in Tasks : t \notin Receivers => t \in {"caller", "loop"}
  BY ReceiversAssumption DEF Tasks

\* What Become does to the tasks.
LEMMA BecomeEffect ==
    ASSUME TypeOK, NEW n \in Nodes, NEW t \in Tasks, NEW r \in TaskRecs, Become(n, t, r)
    PROVE  /\ task' \in [Nodes -> [Tasks -> TaskRecs]]
           /\ \A m \in Nodes, u \in Tasks :
                 ~ (m = n /\ u = t) => task'[m][u] = task[m][u]
           /\ task'[n][t] = r
  BY DEF TypeOK, Become, TaskRecs

\* What Goto does to the tasks.
LEMMA GotoEffect ==
    ASSUME TypeOK, NEW n \in Nodes, NEW t \in Tasks, NEW l \in Labels, Goto(n, t, l)
    PROVE  /\ task' \in [Nodes -> [Tasks -> TaskRecs]]
           /\ \A m \in Nodes, u \in Tasks :
                 /\ task'[m][u].anns = task[m][u].anns
                 /\ task'[m][u].todo = task[m][u].todo
                 /\ ~ (m = n /\ u = t) => task'[m][u].pc = task[m][u].pc
           /\ task'[n][t].pc = l
  <1> DEFINE r == [task[n][t] EXCEPT !.pc = l]
  <1>1. task[n][t] \in TaskRecs
    BY DEF TypeOK, TaskRecs
  <1>2. /\ r \in TaskRecs /\ r.pc = l
        /\ r.anns = task[n][t].anns /\ r.todo = task[n][t].todo
    BY <1>1 DEF TaskRecs
  <1>3. Become(n, t, r)
    BY DEF Goto
  <1> HIDE DEF r
  <1> QED
    BY <1>2, <1>3, BecomeEffect

\* Where announce_stream returns to: nothing is being announced any more.
LEMMA ReturnEffect ==
    ASSUME TypeOK, NEW n \in Nodes, NEW t \in {"caller", "loop"}, Return(n, t)
    PROVE  \E r \in TaskRecs :
              /\ Become(n, t, r)
              /\ r.pc \in {"next", "idle"}
              /\ r.anns = {}
              /\ r.todo \subseteq task[n][t].todo
  <1> DEFINE r == IF t = "loop" THEN [task[n][t] EXCEPT !.pc = "next", !.anns = {}]
                  ELSE AtLabel("idle")
  <1>1. task[n][t] \in TaskRecs
    BY DEF TypeOK, TaskRecs, Tasks
  <1>2. r \in TaskRecs /\ r.pc \in {"next", "idle"} /\ r.anns = {}
        /\ r.todo \subseteq task[n][t].todo
    BY <1>1 DEF TaskRecs, AtLabel, Labels
  <1>3. Become(n, t, r)
    BY DEF Return
  <1> HIDE DEF r
  <1> QED
    BY <1>2, <1>3

\* The streams of other nodes that a node caches: a finite set, no larger than
\* the cache.
LEMMA ForeignFinite ==
    ASSUME NEW n \in Nodes
    PROVE  /\ IsFiniteSet(Cached(n)) /\ IsFiniteSet({s \in Cached(n) : Owner[s] # n})
           /\ Cardinality(Cached(n)) \in Nat
           /\ Cardinality({s \in Cached(n) : Owner[s] # n}) <= Cardinality(Cached(n))
           /\ Cardinality({s \in Cached(n) : Owner[s] # n}) \in Nat
  <1>1. Cached(n) \subseteq Streams /\ {s \in Cached(n) : Owner[s] # n} \subseteq Cached(n)
    BY DEF Cached
  <1> QED
    BY <1>1, StreamsAssumption, FS_Subset, FS_CardinalityType

\* A cache in which no stream of another node appears anew stays within the limit.
LEMMA FewerForeign ==
    ASSUME CacheBounded,
           \A n \in Nodes : \A s \in Cached(n)' : Owner[s] = n \/ s \in Cached(n)
    PROVE  CacheBounded'
  <1> SUFFICES ASSUME NEW n \in Nodes
               PROVE  Cardinality({s \in Cached(n)' : Owner[s] # n}) <= MaxCached
    BY DEF CacheBounded
  <1> DEFINE A == {s \in Cached(n)' : Owner[s] # n}
             B == {s \in Cached(n) : Owner[s] # n}
  <1>1. A \subseteq B
    OBVIOUS
  <1>2. IsFiniteSet(B) /\ Cardinality(B) \in Nat /\ Cardinality(B) <= MaxCached
    BY ForeignFinite DEF CacheBounded
  <1>3. Cardinality(A) \in Nat /\ Cardinality(A) <= Cardinality(B)
    BY <1>1, <1>2, FS_Subset, FS_CardinalityType
  <1> HIDE DEF A, B
  <1>4. Cardinality(A) <= MaxCached
    BY <1>2, <1>3, LimitsAssumption
  <1> QED
    BY <1>4 DEF A

-----------------------------------------------------------------------------
\* No announcer starts or ends the moment between publishing and own_streams.
SameAnnouncers ==
    \A n \in Nodes, t \in {"caller", "loop"} :
        /\ (task'[n][t].pc = "own") <=> (task[n][t].pc = "own")
        /\ task[n][t].pc = "own" => task'[n][t].anns = task[n][t].anns

\* Then the same streams are alive.
LEMMA AliveSame ==
    ASSUME own' = own, SameAnnouncers
    PROVE  \A s \in Streams : Alive(s)' <=> Alive(s)
  BY OwnerAssumption DEF SameAnnouncers, Alive

\* A step that gossips nothing, caches nothing and leaves own_streams alone
\* preserves the invariant: it only moves tasks, forgets cache entries or lets
\* time pass.
LEMMA QuietStep ==
    ASSUME IInv, TypeOK', Provenance', SameAnnouncers,
           own' = own, net' = net, ended' = ended, now <= now',
           \A n \in Nodes, s \in Streams : cache'[n][s] \in {cache[n][s], Absent},
           \A n \in Nodes, t \in Tasks : \A a \in task'[n][t].anns : a.at <= now',
           \A n \in Nodes, t \in {"caller", "loop"} : task'[n][t].pc = "cache" =>
               task[n][t].pc = "cache" /\ task'[n][t].anns = task[n][t].anns
    PROVE  IInv'
  <1>0. /\ now \in Nat /\ now' \in Nat
        /\ \A a \in net : a.at \in Nat
        /\ \A n \in Nodes, s \in Streams : cache[n][s] \in Int
    BY LimitsAssumption DEF IInv, TypeOK, Times, Announcements, Absent
  <1>1. NoFuture'
    <2>1. \A a \in net' : a.at <= now'
      BY <1>0 DEF IInv, NoFuture
    <2>2. ASSUME NEW n \in Nodes, NEW s \in Streams PROVE cache'[n][s] <= now'
      <3>1. cache[n][s] <= now
        BY DEF IInv, NoFuture
      <3>3. cache[n][s] \in Int
        BY <1>0
      <3>2. cache'[n][s] = cache[n][s] \/ cache'[n][s] = -1
        BY DEF Absent
      <3> QED
        BY <1>0, <3>1, <3>2, <3>3
    <2> QED
      BY <2>1, <2>2 DEF NoFuture
  <1>2. LateCaching'
    <2> SUFFICES ASSUME NEW n \in Nodes, NEW t \in {"caller", "loop"},
                        task'[n][t].pc = "cache", NEW a \in task'[n][t].anns,
                        ~ Alive(a.stream)'
                 PROVE  a.at <= ended'[a.stream]
      BY DEF LateCaching
    <2>1. a \in task[n][t].anns /\ task[n][t].pc = "cache"
      OBVIOUS
    <2>2. a.stream \in Streams
      BY <2>1 DEF IInv, TypeOK, Announcements, Tasks
    <2> QED
      BY <2>1, <2>2, AliveSame DEF IInv, LateCaching
  <1>3. CacheBounded'
    <2>1. \A n \in Nodes : \A s \in Cached(n)' : s \in Cached(n)
      BY DEF Cached
    <2> QED
      BY <2>1, FewerForeign DEF IInv
  <1>4. EndedExpires'
    <2> SUFFICES ASSUME NEW s \in Streams, ~ Alive(s)'
                 PROVE  /\ \A a \in net' : a.stream = s => a.at <= ended'[s]
                        /\ \A n \in Nodes : cache'[n][s] <= ended'[s]
      BY DEF EndedExpires
    <2>1. ~ Alive(s)
      BY AliveSame
    <2>2. ended[s] \in Nat
      BY DEF IInv, TypeOK, Times
    <2> QED
      BY <2>1, <2>2 DEF IInv, EndedExpires, Absent
  <1> QED
    BY <1>1, <1>2, <1>3, <1>4 DEF IInv

\* The same for a step of one task that neither publishes nor caches.
LEMMA MoveStep ==
    ASSUME IInv, NEW n \in Nodes, NEW t \in Tasks, NEW r \in TaskRecs, Become(n, t, r),
           r.pc \notin {"own", "cache"}, task[n][t].pc # "own",
           \A a \in r.anns : /\ a.at <= now
                             /\ IF t \in Receivers THEN a \in net ELSE Owner[a.stream] = n,
           t \notin Receivers => \A s \in r.todo : Owner[s] = n,
           UNCHANGED <<now, own, net, ended>>,
           is_running' \in [Nodes -> BOOLEAN],
           cache' \in [Nodes -> [Streams -> Times \cup {Absent}]],
           \A m \in Nodes, s \in Streams : cache'[m][s] \in {cache[m][s], Absent}
    PROVE  IInv'
  <1>0. TypeOK /\ now \in Int
    BY DEF IInv, TypeOK, Times
  <1>1. /\ task' \in [Nodes -> [Tasks -> TaskRecs]]
        /\ \A m \in Nodes, u \in Tasks : ~ (m = n /\ u = t) => task'[m][u] = task[m][u]
        /\ task'[n][t] = r
    BY <1>0, BecomeEffect
  <1>2. TypeOK'
    BY <1>0, <1>1 DEF TypeOK, TaskRecs
  <1>3. Provenance'
    <2> SUFFICES ASSUME NEW m \in Nodes
                 PROVE  /\ \A s \in own'[m] : Owner[s] = m
                        /\ \A u \in {"caller", "loop"} :
                              /\ \A a \in task'[m][u].anns : Owner[a.stream] = m
                              /\ \A s \in task'[m][u].todo : Owner[s] = m
                        /\ \A q \in Receivers : task'[m][q].anns \subseteq net'
      BY DEF Provenance
    <2>1. \A s \in own'[m] : Owner[s] = m
      BY DEF IInv, Provenance
    <2>2. ASSUME NEW u \in {"caller", "loop"}
          PROVE  /\ \A a \in task'[m][u].anns : Owner[a.stream] = m
                 /\ \A s \in task'[m][u].todo : Owner[s] = m
      <3>1. CASE m = n /\ u = t
        BY <1>1, <3>1, ReceiversAssumption
      <3>2. CASE ~ (m = n /\ u = t)
        BY <1>1, <3>2 DEF IInv, Provenance, Tasks
      <3> QED
        BY <3>1, <3>2
    <2>3. ASSUME NEW q \in Receivers PROVE task'[m][q].anns \subseteq net'
      <3>1. CASE m = n /\ t = q
        BY <1>1, <3>1
      <3>2. CASE ~ (m = n /\ t = q)
        <4>1. task'[m][q] = task[m][q]
          BY <1>1, <3>2, TaskKinds
        <4> QED
          BY <4>1 DEF IInv, Provenance
      <3> QED
        BY <3>1, <3>2
    <2> QED
      BY <2>1, <2>2, <2>3
  <1>4. SameAnnouncers
    BY <1>1 DEF SameAnnouncers, Tasks
  <1>5. \A m \in Nodes, u \in Tasks : \A a \in task'[m][u].anns : a.at <= now'
    BY <1>1 DEF IInv, NoFuture
  <1>6. \A m \in Nodes, u \in {"caller", "loop"} : task'[m][u].pc = "cache" =>
            task[m][u].pc = "cache" /\ task'[m][u].anns = task[m][u].anns
    BY <1>1 DEF Tasks
  <1> QED
    BY <1>0, <1>2, <1>3, <1>4, <1>5, <1>6, QuietStep

\* The same for a step that only changes a label.
LEMMA GotoStep ==
    ASSUME IInv, NEW n \in Nodes, NEW t \in Tasks, NEW l \in Labels, Goto(n, t, l),
           l \notin {"own", "cache"}, task[n][t].pc # "own",
           UNCHANGED <<now, own, net, ended>>,
           is_running' \in [Nodes -> BOOLEAN],
           cache' \in [Nodes -> [Streams -> Times \cup {Absent}]],
           \A m \in Nodes, s \in Streams : cache'[m][s] \in {cache[m][s], Absent}
    PROVE  IInv'
  <1> DEFINE r == [task[n][t] EXCEPT !.pc = l]
  <1>1. task[n][t] \in TaskRecs
    BY DEF IInv, TypeOK, TaskRecs
  <1>2. /\ r \in TaskRecs /\ r.pc = l
        /\ r.anns = task[n][t].anns /\ r.todo = task[n][t].todo
    BY <1>1 DEF TaskRecs
  <1>3. Become(n, t, r)
    BY DEF Goto
  <1> HIDE DEF r
  <1>4. \A a \in r.anns : /\ a.at <= now
                          /\ IF t \in Receivers THEN a \in net ELSE Owner[a.stream] = n
    BY <1>2 DEF IInv, NoFuture, Provenance, Tasks
  <1>5. t \notin Receivers => \A s \in r.todo : Owner[s] = n
    BY <1>2 DEF IInv, Provenance, Tasks
  <1> QED
    BY <1>2, <1>3, <1>4, <1>5, MoveStep

\* The caches, the flags and the clock have their types.
LEMMA Types ==
    ASSUME IInv
    PROVE  /\ TypeOK
           /\ is_running \in [Nodes -> BOOLEAN]
           /\ cache \in [Nodes -> [Streams -> Times \cup {Absent}]]
           /\ now \in Times /\ now \in Nat
           /\ \A n \in Nodes, t \in Tasks : task[n][t] \in TaskRecs
  BY LimitsAssumption DEF IInv, TypeOK, TaskRecs, Times

\* Cleaning keeps an entry or forgets it.
LEMMA CleanedEffect ==
    ASSUME IInv, NEW n \in Nodes, cache' = [cache EXCEPT ![n] = Cleaned(n)]
    PROVE  /\ cache' \in [Nodes -> [Streams -> Times \cup {Absent}]]
           /\ \A m \in Nodes, s \in Streams : cache'[m][s] \in {cache[m][s], Absent}
  BY Types DEF Cleaned

\* The start of announce_stream by the caller.
LEMMA AnnounceInv ==
    ASSUME IInv, NEW n \in Nodes, NEW s \in Streams, announce_stream(n, s)
    PROVE  IInv'
  <1> DEFINE a == [stream |-> s, at |-> now]
             r == [AtLabel("publish") EXCEPT !.anns = {a}]
  <1>1. a \in Announcements /\ a.stream = s /\ a.at = now
    BY Types DEF Announcements
  <1>2. r \in TaskRecs /\ r.pc = "publish" /\ r.anns = {a} /\ r.todo = {}
    BY <1>1 DEF TaskRecs, AtLabel, Labels
  <1>3. /\ task[n]["caller"].pc = "idle" /\ Owner[s] = n /\ Become(n, "caller", r)
        /\ UNCHANGED <<now, own, cache, is_running, net, ended>>
    BY DEF announce_stream
  <1> HIDE DEF a, r
  <1> QED
    BY <1>1, <1>2, <1>3, Types, MoveStep, TaskKinds

\* Receiving gossip, and the cleaning before it is inserted.
LEMMA ReceiveInv ==
    ASSUME IInv, NEW n \in Nodes, NEW q \in Receivers,
           (\E a \in net : process_announcement(n, q, a)) \/ CleanForInsert(n, q)
    PROVE  IInv'
  <1>1. ASSUME NEW a \in net, process_announcement(n, q, a) PROVE IInv'
    <2> DEFINE l == IF Cardinality(Cached(n)) >= MaxCached THEN "clean" ELSE "insert"
               r == [pc |-> l, anns |-> {a}, todo |-> {}]
    <2>1. a \in Announcements /\ a.at <= now
      BY DEF IInv, TypeOK, NoFuture
    <2>2. r \in TaskRecs /\ r.pc \in {"clean", "insert"} /\ r.anns = {a} /\ r.todo = {}
      BY <2>1 DEF TaskRecs, Labels
    <2>3. /\ task[n][q].pc = "idle" /\ Become(n, q, r)
          /\ UNCHANGED <<now, own, cache, is_running, net, ended>>
      BY <1>1 DEF process_announcement
    <2> HIDE DEF r
    <2> QED
      BY <2>1, <2>2, <2>3, Types, MoveStep DEF Tasks
  <1>2. CASE CleanForInsert(n, q)
    BY <1>2, Types, CleanedEffect, GotoStep DEF CleanForInsert, Tasks, Labels
  <1> QED
    BY <1>1, <1>2

\* The steps of the service loop outside announce_stream, and stop.
LEMMA LoopInv ==
    ASSUME IInv, NEW n \in Nodes,
           \/ spawn(n) \/ LoopStart(n) \/ LoopCheck(n) \/ cleanup_expired(n)
           \/ ReannounceRound(n) \/ Reannounce(n)
    PROVE  IInv'
  <1>1. CASE spawn(n)
    BY <1>1, Types, GotoStep DEF spawn, Tasks, Labels
  <1>2. CASE LoopStart(n)
    BY <1>2, Types, GotoStep DEF LoopStart, Tasks, Labels
  <1>3. CASE LoopCheck(n)
    BY <1>3, Types, GotoStep DEF LoopCheck, Tasks, Labels
  <1>4. CASE cleanup_expired(n)
    BY <1>4, Types, CleanedEffect, GotoStep DEF cleanup_expired, Tasks, Labels
  <1>5. CASE ReannounceRound(n)
    <2> DEFINE r == [AtLabel("next") EXCEPT !.todo = own[n]]
    <2>1. r \in TaskRecs /\ r.pc = "next" /\ r.anns = {} /\ r.todo = own[n]
      BY DEF TaskRecs, AtLabel, Labels, IInv, TypeOK
    <2>2. /\ task[n]["loop"].pc = "select" /\ Become(n, "loop", r)
          /\ UNCHANGED <<now, own, cache, is_running, net, ended>>
      BY <1>5 DEF ReannounceRound
    <2>3. \A s \in own[n] : Owner[s] = n
      BY DEF IInv, Provenance
    <2> HIDE DEF r
    <2> QED
      BY <2>1, <2>2, <2>3, Types, MoveStep DEF Tasks
  <1>6. CASE Reannounce(n)
    <2>0. /\ task[n]["loop"].pc = "next"
          /\ UNCHANGED <<now, own, cache, is_running, net, ended>>
      BY <1>6 DEF Reannounce
    <2>1. CASE task[n]["loop"].todo = {}
      <3> DEFINE r == AtLabel("check")
      <3>1. r \in TaskRecs /\ r.pc = "check" /\ r.anns = {} /\ r.todo = {}
        BY DEF TaskRecs, AtLabel, Labels
      <3>2. Become(n, "loop", r)
        BY <1>6, <2>1 DEF Reannounce
      <3> HIDE DEF r
      <3> QED
        BY <2>0, <3>1, <3>2, Types, MoveStep DEF Tasks
    <2>2. CASE task[n]["loop"].todo # {}
      <3>1. PICK s \in task[n]["loop"].todo :
              Become(n, "loop", [pc |-> "publish", anns |-> {[stream |-> s, at |-> now]},
                                 todo |-> task[n]["loop"].todo \ {s}])
        BY <1>6, <2>2 DEF Reannounce
      <3> DEFINE a == [stream |-> s, at |-> now]
                 r == [pc |-> "publish", anns |-> {a}, todo |-> task[n]["loop"].todo \ {s}]
      <3>2. s \in Streams /\ task[n]["loop"].todo \subseteq Streams
        BY Types DEF TaskRecs, Tasks
      <3>3. a \in Announcements /\ a.stream = s /\ a.at = now
        BY <3>2, Types DEF Announcements
      <3>4. /\ r \in TaskRecs /\ r.pc = "publish" /\ r.anns = {a}
            /\ r.todo \subseteq task[n]["loop"].todo
        BY <3>2, <3>3 DEF TaskRecs, Labels
      <3>5. \A x \in task[n]["loop"].todo : Owner[x] = n
        BY DEF IInv, Provenance
      <3>6. Become(n, "loop", r)
        BY <3>1
      <3> HIDE DEF a, r
      <3> QED
        BY <2>0, <3>3, <3>4, <3>5, <3>6, Types, MoveStep, TaskKinds
    <2> QED
      BY <2>1, <2>2
  <1> QED
    BY <1>1, <1>2, <1>3, <1>4, <1>5, <1>6

\* stop, and the passing of time.
LEMMA StopTickInv ==
    ASSUME IInv, (\E n \in Nodes : stop(n)) \/ Tick
    PROVE  IInv'
  <1>0. UNCHANGED <<own, cache, task, net, ended>> /\ now <= now' /\ TypeOK'
    <2>1. ASSUME NEW n \in Nodes, stop(n)
          PROVE  UNCHANGED <<own, cache, task, net, ended>> /\ now <= now' /\ TypeOK'
      BY <2>1, Types DEF stop, TypeOK
    <2>2. CASE Tick
      <3>1. now' \in Times /\ now <= now'
        BY <2>2, Types, LimitsAssumption DEF Tick, Times
      <3> QED
        BY <2>2, <3>1, Types DEF Tick, TypeOK
    <2> QED
      BY <2>1, <2>2
  <1>1. Provenance'
    BY <1>0 DEF IInv, Provenance
  <1>2. SameAnnouncers
    BY <1>0 DEF SameAnnouncers
  <1>3. \A n \in Nodes, t \in Tasks : \A a \in task'[n][t].anns : a.at <= now'
    <2>1. now' \in Nat
      BY <1>0, LimitsAssumption DEF TypeOK, Times
    <2>2. \A n \in Nodes, t \in Tasks : \A a \in task[n][t].anns : a.at \in Nat
      BY LimitsAssumption DEF IInv, TypeOK, Announcements, Times
    <2> QED
      BY <1>0, <2>1, <2>2, Types DEF IInv, NoFuture
  <1> QED
    BY <1>0, <1>1, <1>2, <1>3, QuietStep

-----------------------------------------------------------------------------
\* remove_stream: from now on the stream counts as ended now, and no copy can be
\* younger.
LEMMA RemoveInv ==
    ASSUME IInv, NEW n \in Nodes, NEW s \in Streams, remove_stream(n, s)
    PROVE  IInv'
  <1> DEFINE a == [stream |-> s, at |-> now]
             r == [AtLabel("uncache") EXCEPT !.anns = {a}]
  <1>1. a \in Announcements /\ a.stream = s /\ a.at = now
    BY Types DEF Announcements
  <1>2. r \in TaskRecs /\ r.pc = "uncache" /\ r.anns = {a} /\ r.todo = {}
    BY <1>1 DEF TaskRecs, AtLabel, Labels
  <1>3. /\ task[n]["caller"].pc = "idle" /\ Owner[s] = n /\ Become(n, "caller", r)
        /\ own' = [own EXCEPT ![n] = @ \ {s}]
        /\ ended' = [ended EXCEPT ![s] = now]
        /\ UNCHANGED <<now, cache, is_running, net>>
    BY DEF remove_stream
  <1> HIDE DEF a, r
  <1>4. /\ task' \in [Nodes -> [Tasks -> TaskRecs]]
        /\ \A m \in Nodes, u \in Tasks :
              ~ (m = n /\ u = "caller") => task'[m][u] = task[m][u]
        /\ task'[n]["caller"] = r
    BY <1>2, <1>3, Types, BecomeEffect, TaskKinds
  <1>5. TypeOK'
    BY <1>3, <1>4, Types DEF TypeOK, TaskRecs
  <1>6. Provenance'
    <2>1. \A m \in Nodes : \A x \in own'[m] : Owner[x] = m
      BY <1>3, Types DEF IInv, Provenance, TypeOK
    <2>2. \A m \in Nodes, u \in {"caller", "loop"} :
             /\ \A b \in task'[m][u].anns : Owner[b.stream] = m
             /\ \A x \in task'[m][u].todo : Owner[x] = m
      BY <1>1, <1>2, <1>3, <1>4 DEF IInv, Provenance, Tasks
    <2>3. ASSUME NEW m \in Nodes, NEW q \in Receivers PROVE task'[m][q].anns \subseteq net'
      <3>1. task'[m][q] = task[m][q]
        BY <1>4, TaskKinds
      <3> QED
        BY <1>3, <3>1 DEF IInv, Provenance
    <2> QED
      BY <2>1, <2>2, <2>3 DEF Provenance
  <1>7. NoFuture'
    <2>1. ASSUME NEW m \in Nodes, NEW u \in Tasks, NEW b \in task'[m][u].anns
          PROVE  b.at <= now
      <3>1. CASE m = n /\ u = "caller"
        BY <1>1, <1>2, <1>4, <3>1, Types
      <3>2. CASE ~ (m = n /\ u = "caller")
        BY <1>4, <3>2 DEF IInv, NoFuture
      <3> QED
        BY <3>1, <3>2
    <2> QED
      BY <1>3, <2>1 DEF IInv, NoFuture
  \* A stream that is not alive afterwards was not alive before, or is s
  <1>8. ASSUME NEW x \in Streams, ~ Alive(x)', x # s
        PROVE  ~ Alive(x)
    <2>1. Owner[x] \in Nodes
      BY OwnerAssumption
    <2>2. x \in own[Owner[x]] => x \in own'[Owner[x]]
      BY <1>3, <1>8, <2>1, Types DEF TypeOK
    <2>3. ASSUME NEW u \in {"caller", "loop"}, task[Owner[x]][u].pc = "own"
          PROVE  task'[Owner[x]][u] = task[Owner[x]][u]
      BY <1>3, <1>4, <2>1, <2>3 DEF Tasks
    <2> QED
      BY <1>8, <2>2, <2>3 DEF Alive
  <1>9. \A x \in Streams : ended'[x] = IF x = s THEN now ELSE ended[x]
    BY <1>3, Types DEF TypeOK
  <1>10. LateCaching'
    <2> SUFFICES ASSUME NEW m \in Nodes, NEW u \in {"caller", "loop"},
                        task'[m][u].pc = "cache", NEW b \in task'[m][u].anns,
                        ~ Alive(b.stream)'
                 PROVE  b.at <= ended'[b.stream]
      BY DEF LateCaching
    <2>1. task'[m][u] = task[m][u]
      BY <1>2, <1>4 DEF Tasks
    <2>2. b.stream \in Streams /\ b.at <= now
      BY <2>1, Types DEF IInv, NoFuture, TaskRecs, Announcements, Tasks
    <2>3. CASE b.stream = s
      BY <1>9, <2>2, <2>3
    <2>4. CASE b.stream # s
      BY <1>8, <1>9, <2>1, <2>2, <2>4 DEF IInv, LateCaching
    <2> QED
      BY <2>3, <2>4
  <1>11. CacheBounded'
    BY <1>3, FewerForeign DEF IInv, Cached
  <1>12. EndedExpires'
    <2> SUFFICES ASSUME NEW x \in Streams, ~ Alive(x)'
                 PROVE  /\ \A b \in net' : b.stream = x => b.at <= ended'[x]
                        /\ \A m \in Nodes : cache'[m][x] <= ended'[x]
      BY DEF EndedExpires
    <2>1. CASE x = s
      BY <1>3, <1>9, <2>1 DEF IInv, NoFuture
    <2>2. CASE x # s
      BY <1>3, <1>8, <1>9, <2>2 DEF IInv, EndedExpires
    <2> QED
      BY <2>1, <2>2
  <1> QED
    BY <1>5, <1>6, <1>7, <1>10, <1>11, <1>12 DEF IInv

\* The second half of remove_stream.
LEMMA UncacheInv ==
    ASSUME IInv, NEW n \in Nodes, Uncache(n)
    PROVE  IInv'
  <1>1. PICK a \in task[n]["caller"].anns : cache' = [cache EXCEPT ![n][a.stream] = Absent]
    BY DEF Uncache
  <1>2. a.stream \in Streams
    BY Types DEF TaskRecs, Announcements, Tasks
  <1>3. /\ cache' \in [Nodes -> [Streams -> Times \cup {Absent}]]
        /\ \A m \in Nodes, x \in Streams : cache'[m][x] \in {cache[m][x], Absent}
    BY <1>1, <1>2, Types
  <1> DEFINE r == AtLabel("idle")
  <1>4. r \in TaskRecs /\ r.pc = "idle" /\ r.anns = {} /\ r.todo = {}
    BY DEF TaskRecs, AtLabel, Labels
  <1>5. /\ task[n]["caller"].pc = "uncache" /\ Become(n, "caller", r)
        /\ UNCHANGED <<now, own, is_running, net, ended>>
    BY DEF Uncache
  <1> HIDE DEF r
  <1> QED
    BY <1>3, <1>4, <1>5, Types, MoveStep DEF Tasks

\* Publishing: the stream is alive from here on, so its new copy is no concern; on
\* an error nothing has changed.
LEMMA PublishInv ==
    ASSUME IInv, NEW n \in Nodes, NEW t \in {"caller", "loop"}, Publish(n, t)
    PROVE  IInv'
  <1>0. task[n][t].pc = "publish" /\ UNCHANGED <<now, own, cache, is_running, ended>>
        /\ t \in Tasks
    BY DEF Publish, Tasks
  <1>1. CASE UNCHANGED net /\ Return(n, t)
    <2>1. PICK r \in TaskRecs :
              /\ Become(n, t, r) /\ r.pc \in {"next", "idle"} /\ r.anns = {}
              /\ r.todo \subseteq task[n][t].todo
      BY <1>1, Types, ReturnEffect
    <2>2. \A s \in r.todo : Owner[s] = n
      BY <2>1 DEF IInv, Provenance
    <2> QED
      BY <1>0, <1>1, <2>1, <2>2, Types, MoveStep
  <1>2. CASE net' = net \cup task[n][t].anns /\ Goto(n, t, "own")
    <2>1. /\ task' \in [Nodes -> [Tasks -> TaskRecs]]
          /\ \A m \in Nodes, u \in Tasks :
                 /\ task'[m][u].anns = task[m][u].anns
                 /\ task'[m][u].todo = task[m][u].todo
                 /\ ~ (m = n /\ u = t) => task'[m][u].pc = task[m][u].pc
          /\ task'[n][t].pc = "own"
      BY <1>0, <1>2, Types, GotoEffect DEF Labels
    <2>2. TypeOK'
      BY <1>0, <1>2, <2>1, Types DEF TypeOK, TaskRecs
    <2>3. Provenance'
      BY <1>0, <1>2, <2>1, TaskKinds DEF IInv, Provenance
    <2>4. NoFuture'
      BY <1>0, <1>2, <2>1 DEF IInv, NoFuture
    <2>5. ASSUME NEW x \in Streams, ~ Alive(x)'
          PROVE  ~ Alive(x) /\ \A a \in task[n][t].anns : a.stream # x
      <3>1. Owner[x] \in Nodes
        BY OwnerAssumption
      <3>2. ~ Alive(x)
        BY <1>0, <2>1, <2>5, <3>1 DEF Alive, Tasks
      <3>3. ASSUME NEW a \in task[n][t].anns, a.stream = x PROVE FALSE
        <4>1. Owner[x] = n
          BY <3>3 DEF IInv, Provenance
        <4>2. task'[Owner[x]][t].pc = "own" /\ a \in task'[Owner[x]][t].anns
          BY <1>0, <2>1, <4>1
        <4> QED
          BY <2>5, <3>3, <4>2 DEF Alive
      <3> QED
        BY <3>2, <3>3
    <2>6. LateCaching'
      <3> SUFFICES ASSUME NEW m \in Nodes, NEW u \in {"caller", "loop"},
                          task'[m][u].pc = "cache", NEW b \in task'[m][u].anns,
                          ~ Alive(b.stream)'
                   PROVE  b.at <= ended'[b.stream]
        BY DEF LateCaching
      <3>1. b \in task[m][u].anns /\ task[m][u].pc = "cache" /\ u \in Tasks
        BY <2>1 DEF Tasks
      <3>2. b.stream \in Streams
        BY <3>1, Types DEF TaskRecs, Announcements
      <3> QED
        BY <1>0, <2>5, <3>1, <3>2 DEF IInv, LateCaching
    <2>7. CacheBounded'
      BY <1>0, FewerForeign DEF IInv, Cached
    <2>8. EndedExpires'
      BY <1>0, <1>2, <2>5 DEF IInv, EndedExpires
    <2> QED
      BY <2>2, <2>3, <2>4, <2>6, <2>7, <2>8 DEF IInv
  <1> QED
    BY <1>1, <1>2 DEF Publish

\* Into own_streams: the stream stays alive.
LEMMA AddOwnInv ==
    ASSUME IInv, NEW n \in Nodes, NEW t \in {"caller", "loop"}, AddOwn(n, t)
    PROVE  IInv'
  <1> DEFINE new == {a.stream : a \in task[n][t].anns}
  <1>0. /\ task[n][t].pc = "own" /\ UNCHANGED <<now, cache, is_running, net, ended>>
        /\ own' = [own EXCEPT ![n] = @ \cup new]
        /\ Goto(n, t, "cache") /\ t \in Tasks
    BY DEF AddOwn, Tasks
  <1>1. new \subseteq Streams /\ \A s \in new : Owner[s] = n
    BY <1>0, Types DEF IInv, Provenance, TaskRecs, Announcements
  <1>2. /\ task' \in [Nodes -> [Tasks -> TaskRecs]]
        /\ \A m \in Nodes, u \in Tasks :
               /\ task'[m][u].anns = task[m][u].anns
               /\ task'[m][u].todo = task[m][u].todo
               /\ ~ (m = n /\ u = t) => task'[m][u].pc = task[m][u].pc
        /\ task'[n][t].pc = "cache"
    BY <1>0, Types, GotoEffect DEF Labels
  <1>3. \A m \in Nodes : own'[m] = IF m = n THEN own[m] \cup new ELSE own[m]
    BY <1>0, Types DEF TypeOK
  <1>4. TypeOK'
    BY <1>0, <1>1, <1>2, Types DEF TypeOK, TaskRecs
  <1>5. Provenance'
    <2>1. \A m \in Nodes : \A s \in own'[m] : Owner[s] = m
      BY <1>1, <1>3 DEF IInv, Provenance
    <2>2. \A m \in Nodes, u \in Tasks :
             task'[m][u].anns = task[m][u].anns /\ task'[m][u].todo = task[m][u].todo
      BY <1>2
    <2> QED
      BY <1>0, <2>1, <2>2, TaskKinds DEF IInv, Provenance
  <1>6. NoFuture'
    BY <1>0, <1>2 DEF IInv, NoFuture
  <1>7. ASSUME NEW x \in Streams, ~ Alive(x)'
        PROVE  ~ Alive(x) /\ \A a \in task[n][t].anns : a.stream # x
    <2>1. Owner[x] \in Nodes
      BY OwnerAssumption
    <2>2. x \notin own'[Owner[x]]
      BY <1>7 DEF Alive
    <2>3. x \notin new /\ x \notin own[Owner[x]]
      BY <1>1, <1>3, <2>1, <2>2
    <2>4. ASSUME NEW u \in {"caller", "loop"}, task[Owner[x]][u].pc = "own",
                 x \in {a.stream : a \in task[Owner[x]][u].anns}
          PROVE  FALSE
      <3>1. CASE Owner[x] = n /\ u = t
        BY <2>3, <2>4, <3>1
      <3>2. CASE ~ (Owner[x] = n /\ u = t)
        BY <1>2, <1>7, <2>1, <2>4, <3>2 DEF Alive, Tasks
      <3> QED
        BY <3>1, <3>2
    <2> QED
      BY <2>3, <2>4 DEF Alive
  <1>8. LateCaching'
    <2> SUFFICES ASSUME NEW m \in Nodes, NEW u \in {"caller", "loop"},
                        task'[m][u].pc = "cache", NEW b \in task'[m][u].anns,
                        ~ Alive(b.stream)'
                 PROVE  b.at <= ended'[b.stream]
      BY DEF LateCaching
    <2>1. b \in task[m][u].anns /\ u \in Tasks
      BY <1>2 DEF Tasks
    <2>2. b.stream \in Streams
      BY <2>1, Types DEF TaskRecs, Announcements
    <2>3. ~ (m = n /\ u = t)
      BY <1>7, <2>1, <2>2
    <2>4. task[m][u].pc = "cache"
      BY <1>2, <2>1, <2>3
    <2> QED
      BY <1>0, <1>7, <2>1, <2>2, <2>4 DEF IInv, LateCaching
  <1>9. CacheBounded'
    BY <1>0, FewerForeign DEF IInv, Cached
  <1>10. EndedExpires'
    BY <1>0, <1>7 DEF IInv, EndedExpires
  <1> QED
    BY <1>4, <1>5, <1>6, <1>8, <1>9, <1>10 DEF IInv

\* A step of one task that puts x into one cache with the time v, which is neither
\* to come nor younger than the removal of x.
LEMMA CacheStep ==
    ASSUME IInv, NEW n \in Nodes, NEW t \in Tasks, NEW r \in TaskRecs, Become(n, t, r),
           r.pc \notin {"own", "cache"}, task[n][t].pc # "own", r.anns = {},
           r.todo \subseteq task[n][t].todo,
           UNCHANGED <<now, own, is_running, net, ended>>,
           NEW x \in Streams, NEW v \in Times, v <= now, ~ Alive(x) => v <= ended[x],
           cache' = [cache EXCEPT ![n][x] = v], CacheBounded'
    PROVE  IInv'
  <1>1. /\ task' \in [Nodes -> [Tasks -> TaskRecs]]
        /\ \A m \in Nodes, u \in Tasks : ~ (m = n /\ u = t) => task'[m][u] = task[m][u]
        /\ task'[n][t] = r
    BY Types, BecomeEffect
  <1>2. \A m \in Nodes, s \in Streams :
            cache'[m][s] = IF m = n /\ s = x THEN v ELSE cache[m][s]
    BY Types
  <1>3. TypeOK'
    <2>1. cache' \in [Nodes -> [Streams -> Times \cup {Absent}]]
      BY Types
    <2> QED
      BY <1>1, <2>1, Types DEF TypeOK, TaskRecs
  <1>4. Provenance'
    <2>1. \A m \in Nodes, u \in Tasks :
             /\ task'[m][u].anns \subseteq task[m][u].anns
             /\ task'[m][u].todo \subseteq task[m][u].todo
      BY <1>1
    <2> QED
      BY <2>1 DEF IInv, Provenance, Tasks
  <1>5. NoFuture'
    <2>1. \A m \in Nodes, u \in Tasks : \A a \in task'[m][u].anns : a.at <= now'
      BY <1>1 DEF IInv, NoFuture
    <2>2. \A m \in Nodes, s \in Streams : cache'[m][s] <= now'
      BY <1>2 DEF IInv, NoFuture
    <2> QED
      BY <2>1, <2>2 DEF IInv, NoFuture
  <1>6. SameAnnouncers
    BY <1>1 DEF SameAnnouncers, Tasks
  <1>7. LateCaching'
    <2> SUFFICES ASSUME NEW m \in Nodes, NEW u \in {"caller", "loop"},
                        task'[m][u].pc = "cache", NEW b \in task'[m][u].anns,
                        ~ Alive(b.stream)'
                 PROVE  b.at <= ended'[b.stream]
      BY DEF LateCaching
    <2>1. task'[m][u] = task[m][u] /\ u \in Tasks
      BY <1>1 DEF Tasks
    <2>2. b.stream \in Streams
      BY <2>1, Types DEF TaskRecs, Announcements
    <2> QED
      BY <1>6, <2>1, <2>2, AliveSame DEF IInv, LateCaching
  <1>8. EndedExpires'
    <2> SUFFICES ASSUME NEW s \in Streams, ~ Alive(s)'
                 PROVE  /\ \A a \in net' : a.stream = s => a.at <= ended'[s]
                        /\ \A m \in Nodes : cache'[m][s] <= ended'[s]
      BY DEF EndedExpires
    <2>1. ~ Alive(s)
      BY <1>6, AliveSame
    <2> QED
      BY <1>2, <2>1 DEF IInv, EndedExpires
  <1> QED
    BY <1>3, <1>4, <1>5, <1>7, <1>8 DEF IInv

\* The end of announce_stream: the node caches its own stream, outside the limit.
LEMMA CacheOwnInv ==
    ASSUME IInv, NEW n \in Nodes, NEW t \in {"caller", "loop"}, CacheOwn(n, t)
    PROVE  IInv'
  <1>0. /\ task[n][t].pc = "cache" /\ t \in Tasks /\ Return(n, t)
        /\ UNCHANGED <<now, own, is_running, net, ended>>
    BY DEF CacheOwn, Tasks
  <1>1. PICK a \in task[n][t].anns : cache' = [cache EXCEPT ![n][a.stream] = a.at]
    BY DEF CacheOwn
  <1>2. a \in Announcements /\ a.stream \in Streams /\ a.at \in Times
    BY <1>0, Types DEF TaskRecs, Announcements
  <1>3. /\ Owner[a.stream] = n /\ a.at <= now
        /\ ~ Alive(a.stream) => a.at <= ended[a.stream]
    BY <1>0 DEF IInv, Provenance, NoFuture, LateCaching
  <1>4. PICK r \in TaskRecs :
            /\ Become(n, t, r) /\ r.pc \in {"next", "idle"} /\ r.anns = {}
            /\ r.todo \subseteq task[n][t].todo
    BY <1>0, Types, ReturnEffect
  <1>5. CacheBounded'
    <2>1. \A m \in Nodes : \A s \in Cached(m)' : Owner[s] = m \/ s \in Cached(m)
      BY <1>1, <1>2, <1>3, Types DEF Cached
    <2> QED
      BY <2>1, FewerForeign DEF IInv
  <1> QED
    BY <1>0, <1>1, <1>2, <1>3, <1>4, <1>5, CacheStep

\* The end of process_announcement: the limit is tested again, and the announcement
\* was gossiped.
LEMMA InsertInv ==
    ASSUME IInv, NEW n \in Nodes, NEW q \in Receivers, Insert(n, q)
    PROVE  IInv'
  <1> DEFINE r == AtLabel("idle")
  <1>1. r \in TaskRecs /\ r.pc = "idle" /\ r.anns = {} /\ r.todo = {}
    BY DEF TaskRecs, AtLabel, Labels
  <1>2. /\ task[n][q].pc = "insert" /\ Become(n, q, r)
        /\ UNCHANGED <<now, own, is_running, net, ended>>
    BY DEF Insert
  <1> HIDE DEF r
  <1>3. PICK a \in task[n][q].anns :
            cache' = IF Cardinality(Cached(n)) < MaxCached
                     THEN [cache EXCEPT ![n][a.stream] = a.at] ELSE cache
    BY DEF Insert
  <1>4. a \in net /\ a \in Announcements
    BY DEF IInv, Provenance, TypeOK
  <1>5. a.stream \in Streams /\ a.at \in Times
    BY <1>4 DEF Announcements
  <1>6. a.at <= now /\ (~ Alive(a.stream) => a.at <= ended[a.stream])
    BY <1>4, <1>5 DEF IInv, NoFuture, EndedExpires
  <1>7. CASE Cardinality(Cached(n)) < MaxCached
    <2>1. cache' = [cache EXCEPT ![n][a.stream] = a.at]
      BY <1>3, <1>7
    <2>2. CacheBounded'
      <3> SUFFICES ASSUME NEW m \in Nodes
                   PROVE  Cardinality({s \in Cached(m)' : Owner[s] # m}) <= MaxCached
        BY DEF CacheBounded
      <3>1. CASE m # n
        <4>1. Cached(m)' = Cached(m)
          BY <2>1, <3>1, Types DEF Cached
        <4> QED
          BY <4>1 DEF IInv, CacheBounded
      <3>2. CASE m = n
        <4> DEFINE A == {s \in Cached(n)' : Owner[s] # n}
                   B == Cached(n) \cup {a.stream}
        <4>1. A \subseteq B
          BY <1>5, <2>1, Types DEF Cached
        <4>2. /\ IsFiniteSet(Cached(n)) /\ Cardinality(Cached(n)) \in Nat
          BY ForeignFinite
        <4>3. /\ IsFiniteSet(B) /\ Cardinality(B) \in Nat
              /\ Cardinality(B) <= Cardinality(Cached(n)) + 1
          <5>1. /\ IsFiniteSet(B)
                /\ \/ Cardinality(B) = Cardinality(Cached(n))
                   \/ Cardinality(B) = Cardinality(Cached(n)) + 1
            BY <4>2, FS_AddElement
          <5> HIDE DEF B
          <5> QED
            BY <4>2, <5>1
        <4>4. Cardinality(A) \in Nat /\ Cardinality(A) <= Cardinality(B)
          BY <4>1, <4>3, FS_Subset, FS_CardinalityType
        <4> HIDE DEF A, B
        <4>5. Cardinality(A) <= MaxCached
          BY <1>7, <4>2, <4>3, <4>4, LimitsAssumption
        <4> QED
          BY <3>2, <4>5 DEF A
      <3> QED
        BY <3>1, <3>2
    <2> QED
      BY <1>1, <1>2, <1>5, <1>6, <2>1, <2>2, CacheStep DEF Tasks
  <1>8. CASE ~ (Cardinality(Cached(n)) < MaxCached)
    <2>1. cache' = cache
      BY <1>3, <1>8
    <2> QED
      BY <1>1, <1>2, <2>1, Types, MoveStep DEF Tasks
  <1> QED
    BY <1>7, <1>8

-----------------------------------------------------------------------------
\* The initial states satisfy the inductive invariant.
LEMMA InitInv == Init => IInv
  <1> SUFFICES ASSUME Init PROVE IInv
    OBVIOUS
  <1>1. TypeOK /\ Provenance
    BY LimitsAssumption
       DEF Init, TypeOK, Provenance, Times, Tasks, Labels, AtLabel, Absent
  <1>2. NoFuture /\ LateCaching
    BY DEF Init, NoFuture, LateCaching, AtLabel, Absent, Tasks
  <1>3. CacheBounded
    <2> SUFFICES ASSUME NEW n \in Nodes
                 PROVE  Cardinality({s \in Cached(n) : Owner[s] # n}) <= MaxCached
      BY DEF CacheBounded
    <2>1. {s \in Cached(n) : Owner[s] # n} = {}
      BY DEF Init, Cached
    <2> QED
      BY <2>1, FS_EmptySet, LimitsAssumption
  <1>4. EndedExpires
    BY DEF Init, EndedExpires, Absent
  <1> QED
    BY <1>1, <1>2, <1>3, <1>4 DEF IInv

\* Every step preserves it.
LEMMA StepInv == IInv /\ [Next]_vars => IInv'
  <1> SUFFICES ASSUME IInv, [Next]_vars PROVE IInv'
    OBVIOUS
  <1>1. CASE UNCHANGED vars
    BY <1>1 DEF vars, IInv, TypeOK, Provenance, NoFuture, LateCaching, CacheBounded,
                EndedExpires, Alive, Cached
  <1>2. ASSUME NEW n \in Nodes, NEW s \in Streams,
               announce_stream(n, s) \/ remove_stream(n, s)
        PROVE  IInv'
    BY <1>2, AnnounceInv, RemoveInv
  <1>3. ASSUME NEW n \in Nodes, NEW t \in {"caller", "loop"}, Announcing(n, t)
        PROVE  IInv'
    BY <1>3, PublishInv, AddOwnInv, CacheOwnInv DEF Announcing
  <1>4. ASSUME NEW n \in Nodes, Uncache(n) PROVE IInv'
    BY <1>4, UncacheInv
  <1>5. ASSUME NEW n \in Nodes, NEW q \in Receivers,
               \/ \E a \in net : process_announcement(n, q, a)
               \/ CleanForInsert(n, q) \/ Insert(n, q)
        PROVE  IInv'
    BY <1>5, ReceiveInv, InsertInv
  <1>6. ASSUME NEW n \in Nodes, spawn(n) \/ Loop(n) PROVE IInv'
    BY <1>3, <1>6, LoopInv DEF Loop
  <1>7. CASE (\E n \in Nodes : stop(n)) \/ Tick
    BY <1>7, StopTickInv
  <1> QED
    BY <1>1, <1>2, <1>3, <1>4, <1>5, <1>6, <1>7 DEF Next

\* The inductive invariant holds in every behaviour.
LEMMA Invariant == Spec => []IInv
  BY InitInv, StepInv, PTL DEF Spec

\* Every value keeps its type, whatever the interleaving of the caller, the service
\* loop and the receivers of every node.
THEOREM TypeCorrect == Spec => []TypeOK
  <1>1. IInv => TypeOK
    BY DEF IInv
  <1> QED
    BY <1>1, Invariant, PTL

\* process_announcement keeps the cache of foreign streams within
\* max_cached_streams, for any limit and any number of streams, although other
\* receivers, the service loop and the node's own announcements change the cache
\* between its test and its insertion: it tests again under the lock it inserts
\* under (stream_discovery.rs:270).
THEOREM CacheAlwaysBounded == Spec => []CacheBounded
  <1>1. IInv => CacheBounded
    BY DEF IInv
  <1> QED
    BY <1>1, Invariant, PTL

\* After remove_stream no announcement of the stream is younger than the removal,
\* unless the owner has the stream (again), for any number of nodes and streams:
\* every listing of an ended stream is gone once the time to live has passed.
THEOREM EndedAlwaysExpires == Spec => []EndedExpires
  <1>1. IInv => EndedExpires
    BY DEF IInv
  <1> QED
    BY <1>1, Invariant, PTL
=============================================================================
