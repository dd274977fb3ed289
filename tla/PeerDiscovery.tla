----------------------------- MODULE PeerDiscovery -----------------------------
(***************************************************************************)
(* Peer discovery (core/src/discovery): the DiscoveryManager, which starts *)
(* and stops the two mechanisms and passes their events on, the DHT's      *)
(* swarm loop (dht.rs) and the refresh task of the bootstrap mechanism     *)
(* (bootstrap.rs).                                                         *)
(*                                                                         *)
(* Every start of the manager makes new mechanisms and a new worker, so    *)
(* they carry the number of that start; the old ones live on as long as    *)
(* some task has them.  One action per stretch of code between two awaits. *)
(* The worker holds the mutexes of both mechanisms while it waits for an   *)
(* event, at most a second.                                                *)
(*                                                                         *)
(* The network is external.  An event is counted, not described, except    *)
(* for the peers it reports.  Addresses, protocols and logs are left out.  *)
(***************************************************************************)
EXTENDS Naturals, FiniteSets

CONSTANTS
    Peers,            \* other nodes
    Self,             \* this node, which announces itself
    BootstrapNodes,   \* number of bootstrap nodes configured
    EventCapacity,    \* mpsc::channel(32), event_buffer_size, and a sender's own slot
    ManagerCapacity,  \* mpsc::channel(100)
    MaxCalls,         \* bound: starts, announcements and queries
    MaxEvents         \* bound: events of the mechanisms

ASSUME DiscoveryAssumption ==
    /\ Self \notin Peers /\ IsFiniteSet(Peers)
    /\ {BootstrapNodes, MaxCalls, MaxEvents} \subseteq Nat
    /\ {EventCapacity, ManagerCapacity} \subseteq Nat \ {0}

Mechanisms == {"dht", "bootstrap"}
Starts == 1..MaxCalls
Instances == Starts \X Mechanisms
Known == Peers \cup {Self}

VARIABLES
    enabled,   \* the mechanisms configured, for good
    ctl,       \* where the manager's caller is
    starts,    \* starts so far
    current,   \* the instance the manager has of each mechanism, 0 for none
    running,   \* the manager's flag
    aborted,   \* whether a start has failed half way
    flag,      \* each instance's running
    task,      \* each instance's task: where it is, what it reports and has to do
    swarm,     \* where the swarm of each DHT is
    queries,   \* queries the manager's DHT has asked and tracks
    chan,      \* events in each instance's channel
    accepted,  \* events the mechanisms' channels have taken so far
    passed,    \* events the workers have passed on
    lost,      \* events dropped with each instance's channel
    cache,     \* the peers of the manager's instance of each mechanism
    reported,  \* the peers it has reported
    calls,     \* announcements and queries so far
    worker,    \* where the manager's worker of each start is; in send it has an event
    shutdown,  \* starts whose shutdown channel has lost its sender
    queue      \* events in the manager's channel

manager == <<enabled, ctl, starts, current, running, aborted, shutdown, calls>>
channels == <<chan, accepted, passed, lost>>
mechs == <<flag, task, swarm, queries, channels, cache, reported>>
vars == <<manager, mechs, worker, queue>>

NoTask == [at |-> "none", report |-> {}, todo |-> {}, back |-> "none", left |-> 0]

Init ==
    /\ enabled \in (SUBSET Mechanisms) \ {{}}
    /\ ctl = "idle" /\ starts = 0 /\ running = FALSE /\ aborted = FALSE
    /\ current = [m \in Mechanisms |-> 0]
    /\ flag = [i \in Instances |-> FALSE]
    /\ task = [i \in Instances |-> NoTask]
    /\ swarm = [g \in Starts |-> "none"]
    /\ queries = {} /\ calls = 0
    /\ chan = [i \in Instances |-> 0] /\ lost = [i \in Instances |-> 0]
    /\ accepted = 0 /\ passed = 0
    /\ cache = [m \in Mechanisms |-> [p \in Known |-> "absent"]]
    /\ reported = [m \in Mechanisms |-> {}]
    /\ worker = [g \in Starts |-> "none"]
    /\ shutdown = {} /\ queue = 0

-----------------------------------------------------------------------------
(* Caches and channels *)

\* The cache of an instance the manager no longer has is out of everyone's reach
IsCurrent(i) == current[i[2]] = i[1]
Put(i, S, x) ==
    cache' = IF ~IsCurrent(i) THEN cache
             ELSE [cache EXCEPT ![i[2]] = [p \in Known |-> IF p \in S THEN x ELSE @[p]]]
Store(i, S) == Put(i, S, "fresh")
Emptied(m) ==
    /\ cache' = [cache EXCEPT ![m] = [p \in Known |-> "absent"]]
    /\ reported' = [reported EXCEPT ![m] = {}]

\* A mechanism, and the receiver of its channel with it, lives as long as the manager,
\* a worker or the start that makes it has it
Working(g) == worker[g] \notin {"none", "gone"}
Kept(i) == IsCurrent(i) \/ Working(i[1]) \/ (i[1] = starts /\ ctl = "flag_dht")

\* Room for more events, within the bound; none when the receiver is gone
Room(i) == LET c == EventCapacity - chan[i]
               b == MaxEvents - accepted
           IN IF ~Kept(i) THEN 0 ELSE IF c < b THEN c ELSE b
Accept(i, n) ==
    /\ chan' = [chan EXCEPT ![i] = @ + n]
    /\ accepted' = accepted + n
    /\ UNCHANGED <<passed, lost>>

\* The last owner of the mechanisms in S lets go of them: what is in their channels is
\* dropped
Drop(S) ==
    /\ chan' = [i \in Instances |-> IF i \in S THEN 0 ELSE chan[i]]
    /\ lost' = [i \in Instances |-> IF i \in S THEN lost[i] + chan[i] ELSE lost[i]]
    /\ UNCHANGED <<accepted, passed>>

\* What the readers of a mechanism see
lookup_peer(m) == {p \in Known : cache[m][p] # "absent"}
discovered_peers(m) == {p \in Known : cache[m][p] = "fresh"}
find_peers(m) == IF m = "dht" THEN lookup_peer(m) ELSE discovered_peers(m)

\* An entry of the bootstrap mechanism gets older than the expiration.  The DHT removes
\* none, and nothing but its discovered_peers leaves the old ones out: they are all kept
\* as fresh here, so it answers with more than it does
Age(p) ==
    /\ cache["bootstrap"][p] = "fresh"
    /\ cache' = [cache EXCEPT !["bootstrap"][p] = "stale"]
    /\ UNCHANGED <<manager, flag, task, swarm, queries, channels, reported, worker, queue>>

\* The DHT's loop looks at the flag between two events, and not while it waits for one
Onward(i, at) == IF at = "poll" /\ ~flag[i] THEN "leave" ELSE at

SetTask(i, t) == task' = [task EXCEPT ![i] = t]
TaskTo(i, at) == task' = [task EXCEPT ![i].at = at]
Report(i, S, back) == [task[i] EXCEPT !.at = "send", !.report = S, !.back = back]

\* Mutant: the sender does not wait for room
SendAtOnce(i) ==
    /\ task[i].at = "send" /\ accepted < MaxEvents
    /\ Accept(i, 1)
    /\ reported' = IF IsCurrent(i) THEN [reported EXCEPT ![i[2]] = @ \cup task[i].report] ELSE reported
    /\ SetTask(i, [task[i] EXCEPT !.at = Onward(i, task[i].back), !.report = {}])
    /\ UNCHANGED <<manager, flag, swarm, queries, cache, worker, queue>>

\* event_sender.send(...).await, of either mechanism.  It waits for room, and comes back
\* with an error nobody looks at when the receiver is gone
send(i) ==
    /\ task[i].at = "send"
    /\ \/ Room(i) > 0 /\ Accept(i, 1)
       \/ ~Kept(i) /\ UNCHANGED channels
    /\ reported' = IF IsCurrent(i) THEN [reported EXCEPT ![i[2]] = @ \cup task[i].report] ELSE reported
    /\ SetTask(i, [task[i] EXCEPT !.at = Onward(i, task[i].back), !.report = {}])
    /\ UNCHANGED <<manager, flag, swarm, queries, cache, worker, queue>>

-----------------------------------------------------------------------------
(* The DHT's run_swarm_loop *)

\* The flag is set after the task is spawned: a loop that looks first ends for good.
\* Otherwise the swarm is taken out of its mutex
loop_check(g) ==
    LET i == <<g, "dht">> IN
    /\ task[i].at = "check"
    /\ IF flag[i]
       THEN /\ swarm[g] = "mutex"
            /\ swarm' = [swarm EXCEPT ![g] = "task"]
            /\ TaskTo(i, "poll")
       ELSE TaskTo(i, "gone") /\ UNCHANGED swarm
    /\ UNCHANGED <<manager, flag, queries, channels, cache, reported, worker, queue>>

\* A loop that has seen the flag down puts the swarm back
loop_leave(g) ==
    LET i == <<g, "dht">> IN
    /\ task[i].at = "leave"
    /\ swarm' = [swarm EXCEPT ![g] = "mutex"]
    /\ TaskTo(i, "check")
    /\ UNCHANGED <<manager, flag, queries, channels, cache, reported, worker, queue>>

\* Mutant: the peer is entered without a word
EstablishedSilently(g, p) ==
    LET i == <<g, "dht">> IN
    /\ task[i].at = "poll"
    /\ Store(i, {p})
    /\ TaskTo(i, Onward(i, "poll"))
    /\ UNCHANGED <<manager, flag, swarm, queries, channels, reported, worker, queue>>

\* ConnectionEstablished
peer_seen(g, p) ==
    LET i == <<g, "dht">> IN
    /\ task[i].at = "poll"
    /\ Store(i, {p})
    /\ SetTask(i, Report(i, {p}, "poll"))
    /\ UNCHANGED <<manager, flag, swarm, queries, channels, reported, worker, queue>>

\* RoutingUpdated of Kademlia, which reports an update
routing_updated(g, p) == peer_seen(g, p)

\* ConnectionClosed: PeerExpired, but the peer stays in the cache
connection_closed(g) ==
    LET i == <<g, "dht">> IN
    /\ task[i].at = "poll"
    /\ SetTask(i, Report(i, {}, "poll"))
    /\ UNCHANGED <<manager, flag, swarm, queries, channels, cache, reported, worker, queue>>

\* The closest peers are found one query
closest_peers(g, S) ==
    LET i == <<g, "dht">> IN
    /\ task[i].at = "poll" /\ IsCurrent(i) /\ "find" \in queries
    /\ SetTask(i, [task[i] EXCEPT !.at = "found", !.todo = S])
    /\ UNCHANGED <<manager, flag, swarm, queries, channels, cache, reported, worker, queue>>

\* ... entered and reported one by one, and the query forgotten at the end
closest_next(g) ==
    LET i == <<g, "dht">> IN
    /\ task[i].at = "found"
    /\ \/ \E p \in task[i].todo :
             /\ Store(i, {p})
             /\ SetTask(i, [Report(i, {p}, "found") EXCEPT !.todo = @ \ {p}])
             /\ UNCHANGED queries
       \/ /\ task[i].todo = {}
          /\ queries' = IF IsCurrent(i) THEN queries \ {"find"} ELSE queries
          /\ TaskTo(i, Onward(i, "poll"))
          /\ UNCHANGED cache
    /\ UNCHANGED <<manager, flag, swarm, channels, reported, worker, queue>>

\* A query that gives no peers
query_done(g, q) ==
    LET i == <<g, "dht">> IN
    /\ task[i].at = "poll" /\ IsCurrent(i) /\ q \in queries
    /\ queries' = queries \ {q}
    /\ TaskTo(i, Onward(i, "poll"))
    /\ UNCHANGED <<manager, flag, swarm, channels, cache, reported, worker, queue>>

\* A query is asked only when the swarm is in its mutex, so never while the loop has it
Ask(q) == queries' = IF swarm[current["dht"]] = "mutex" THEN queries \cup {q} ELSE queries

-----------------------------------------------------------------------------
(* The refresh task of the bootstrap mechanism *)

AfterNode(i) == IF task[i].left > 1 THEN "dial" ELSE "expire"

refresh(g) ==
    LET i == <<g, "bootstrap">> IN
    /\ task[i].at = "tick"
    /\ SetTask(i, [task[i] EXCEPT !.at = IF BootstrapNodes = 0 THEN "expire" ELSE "dial",
                                  !.left = BootstrapNodes])
    /\ UNCHANGED <<manager, flag, swarm, queries, channels, cache, reported, worker, queue>>

\* connect_to_bootstrap: any connection counts as the bootstrap node's
bootstrap_connected(g, p) ==
    LET i == <<g, "bootstrap">> IN
    /\ task[i].at = "dial"
    /\ SetTask(i, [Report(i, {p}, "insert") EXCEPT !.todo = @ \cup {p}])
    /\ UNCHANGED <<manager, flag, swarm, queries, channels, cache, reported, worker, queue>>

\* A peer connected earlier identifies itself in the meantime
bootstrap_identified(g, p) ==
    LET i == <<g, "bootstrap">> IN
    /\ task[i].at = "dial" /\ p \notin task[i].todo
    /\ SetTask(i, [Report(i, {p}, "dial") EXCEPT !.todo = @ \cup {p}])
    /\ UNCHANGED <<manager, flag, swarm, queries, channels, cache, reported, worker, queue>>

\* The dial, the connection or the timeout: an Error event, and what was found is lost
bootstrap_failed(g) ==
    LET i == <<g, "bootstrap">> IN
    /\ task[i].at = "dial"
    /\ SetTask(i, [Report(i, {}, AfterNode(i)) EXCEPT !.todo = {}, !.left = @ - 1])
    /\ UNCHANGED <<manager, flag, swarm, queries, channels, cache, reported, worker, queue>>

bootstrap_insert(g) ==
    LET i == <<g, "bootstrap">> IN
    /\ task[i].at = "insert"
    /\ Store(i, task[i].todo)
    /\ SetTask(i, [task[i] EXCEPT !.at = AfterNode(i), !.todo = {}, !.left = @ - 1])
    /\ UNCHANGED <<manager, flag, swarm, queries, channels, reported, worker, queue>>

\* The expired entries are listed under the lock ...
expire_list(g) ==
    LET i == <<g, "bootstrap">> IN
    /\ task[i].at = "expire"
    /\ SetTask(i, [task[i] EXCEPT !.at = "remove",
                                  !.todo = IF ~IsCurrent(i) THEN {}
                                           ELSE {p \in Known : cache[i[2]][p] = "stale"}])
    /\ UNCHANGED <<manager, flag, swarm, queries, channels, cache, reported, worker, queue>>

\* ... and removed under it again, also one that was announced in between.  The events
\* are tried until the channel is full
expire_remove(g) ==
    LET i == <<g, "bootstrap">>
        n == Cardinality(task[i].todo)
    IN
    /\ task[i].at = "remove"
    /\ Put(i, task[i].todo, "absent")
    /\ Accept(i, IF n < Room(i) THEN n ELSE Room(i))
    /\ SetTask(i, [task[i] EXCEPT !.at = "tick", !.todo = {}])
    /\ UNCHANGED <<manager, flag, swarm, queries, reported, worker, queue>>

-----------------------------------------------------------------------------
(* DiscoveryManager: start and stop; &mut self, so one caller at a time *)

Current(m) == <<current[m], m>>
Has(m) == current[m] # 0

\* A worker in its select holds the mutexes of its own mechanisms
LockFree(m) == Has(m) => worker[current[m]] # "select"

start ==
    /\ ctl = "idle" /\ ~running /\ starts + calls < MaxCalls
    /\ starts' = starts + 1
    /\ ctl' = IF "dht" \in enabled THEN "start_dht" ELSE "start_bootstrap"
    /\ UNCHANGED <<enabled, current, running, aborted, shutdown, calls, mechs, worker, queue>>

\* init_swarm fails: the manager keeps whatever it had ...
dht_fails ==
    /\ ctl = "start_dht"
    /\ ctl' = "idle"
    /\ UNCHANGED <<enabled, starts, current, running, aborted, shutdown, calls, mechs, worker, queue>>

\* ... and the DHT it has just started
bootstrap_fails ==
    /\ ctl = "start_bootstrap"
    /\ ctl' = "idle"
    /\ aborted' = (aborted \/ "dht" \in enabled)
    /\ UNCHANGED <<enabled, starts, current, running, shutdown, calls, mechs, worker, queue>>

\* DhtDiscovery::start spawns its loop ...
dht_spawn ==
    /\ ctl = "start_dht"
    /\ swarm' = [swarm EXCEPT ![starts] = "mutex"]
    /\ TaskTo(<<starts, "dht">>, "check")
    /\ ctl' = "flag_dht"
    /\ UNCHANGED <<enabled, starts, current, running, aborted, shutdown, calls, flag, queries, channels,
                   cache, reported, worker, queue>>

\* The instance the manager gives up for a new one, unless a worker still has it
Replaced(m) == {i \in Instances : i = Current(m) /\ ~Working(i[1])}

\* ... and then says that it runs
dht_start ==
    /\ ctl = "flag_dht"
    /\ flag' = [flag EXCEPT ![<<starts, "dht">>] = TRUE]
    /\ current' = [current EXCEPT !["dht"] = starts]
    /\ Emptied("dht") /\ queries' = {} /\ Drop(Replaced("dht"))
    /\ ctl' = IF "bootstrap" \in enabled THEN "start_bootstrap" ELSE "start_worker"
    /\ UNCHANGED <<enabled, starts, running, aborted, shutdown, calls, task, swarm, worker, queue>>

bootstrap_start ==
    /\ ctl = "start_bootstrap"
    /\ TaskTo(<<starts, "bootstrap">>, "tick")
    /\ flag' = [flag EXCEPT ![<<starts, "bootstrap">>] = TRUE]
    /\ current' = [current EXCEPT !["bootstrap"] = starts]
    /\ Emptied("bootstrap") /\ Drop(Replaced("bootstrap"))
    /\ ctl' = "start_worker"
    /\ UNCHANGED <<enabled, starts, running, aborted, shutdown, calls, swarm, queries, worker, queue>>

\* The flag's lock has been held since start, so the worker finds it up.  The shutdown
\* channel of the worker before is replaced
start_worker ==
    /\ ctl = "start_worker"
    /\ worker' = [worker EXCEPT ![starts] = "check"]
    /\ shutdown' = 1..starts - 1
    /\ running' = TRUE
    /\ ctl' = "idle"
    /\ UNCHANGED <<enabled, starts, current, aborted, calls, mechs, queue>>

stop ==
    /\ ctl = "idle" /\ \E m \in enabled : Has(m)
    /\ ctl' = "stop_dht"
    /\ UNCHANGED <<enabled, starts, current, running, aborted, shutdown, calls, mechs, worker, queue>>

\* A DHT that does not run is an error, and the rest is left as it is
dht_stop ==
    /\ ctl = "stop_dht" /\ LockFree("dht")
    /\ LET i == Current("dht") IN
       IF ~Has("dht") THEN ctl' = "stop_bootstrap" /\ UNCHANGED flag
       ELSE IF ~flag[i] THEN ctl' = "idle" /\ UNCHANGED flag
       ELSE ctl' = "abort_dht" /\ flag' = [flag EXCEPT ![i] = FALSE]
    /\ UNCHANGED <<enabled, starts, current, running, aborted, shutdown, calls, task, swarm, queries,
                   channels, cache, reported, worker, queue>>

EndTask(i) == SetTask(i, [NoTask EXCEPT !.at = "gone"])

\* Mutant: the loop is left to see the flag
LeaveTheLoop ==
    /\ ctl = "abort_dht"
    /\ ctl' = "stop_bootstrap"
    /\ UNCHANGED <<enabled, starts, current, running, aborted, shutdown, calls, flag, task, swarm,
                   queries, channels, cache, reported, worker, queue>>

\* The task is aborted where it waits and awaited, and the swarm dropped
dht_abort ==
    /\ ctl = "abort_dht"
    /\ EndTask(Current("dht"))
    /\ swarm' = [swarm EXCEPT ![current["dht"]] = "none"]
    /\ ctl' = "stop_bootstrap"
    /\ UNCHANGED <<enabled, starts, current, running, aborted, shutdown, calls, flag, queries,
                   channels, cache, reported, worker, queue>>

bootstrap_stop ==
    /\ ctl = "stop_bootstrap" /\ LockFree("bootstrap")
    /\ LET i == Current("bootstrap") IN
       IF Has("bootstrap") /\ flag[i]
       THEN EndTask(i) /\ flag' = [flag EXCEPT ![i] = FALSE]
       ELSE UNCHANGED <<flag, task>>
    /\ ctl' = "stop_flag"
    /\ UNCHANGED <<enabled, starts, current, running, aborted, shutdown, calls, swarm, queries, channels,
                   cache, reported, worker, queue>>

stop_done ==
    /\ ctl = "stop_flag"
    /\ running' = FALSE
    /\ ctl' = "idle"
    /\ UNCHANGED <<enabled, starts, current, aborted, shutdown, calls, mechs, worker, queue>>

-----------------------------------------------------------------------------
(* DiscoveryManager: announce, and queries of a DHT *)

Call == starts + calls < MaxCalls /\ calls' = calls + 1

\* An id that is none, or a swarm that refuses to provide the record, is an error that
\* ends the announcement: the bootstrap mechanism does not get it
announce_dht ==
    /\ ctl = "idle" /\ LockFree("dht") /\ \E m \in enabled : Has(m)
    /\ Call
    /\ \/ /\ ~Has("dht")
          /\ ctl' = "announce"
          /\ UNCHANGED <<cache, queries>>
       \/ /\ Has("dht")
          /\ UNCHANGED <<ctl, cache, queries>>
       \/ /\ Has("dht") /\ Store(Current("dht"), {Self})
          /\ \/ ctl' = "announce" /\ Ask("provide")
             \/ swarm[current["dht"]] = "mutex" /\ UNCHANGED <<ctl, queries>>
    /\ UNCHANGED <<enabled, starts, current, running, aborted, shutdown, flag, task, swarm,
                   channels, reported, worker, queue>>

announce_bootstrap ==
    /\ ctl = "announce" /\ LockFree("bootstrap")
    /\ IF Has("bootstrap") THEN Store(Current("bootstrap"), {Self}) ELSE UNCHANGED cache
    /\ ctl' = "idle"
    /\ UNCHANGED <<enabled, starts, current, running, aborted, shutdown, calls, flag, task, swarm,
                   queries, channels, reported, worker, queue>>

\* A query of the manager's DHT, which has effect only before its loop has the swarm
dht_query ==
    /\ ctl = "idle" /\ Has("dht") /\ LockFree("dht") /\ swarm[current["dht"]] = "mutex"
    /\ Call /\ Ask("find")
    /\ UNCHANGED <<enabled, ctl, starts, current, running, aborted, shutdown, flag, task, swarm,
                   channels, cache, reported, worker, queue>>

\* A peer in the cache is not asked for
dht_lookup == \E p \in Known : p \notin lookup_peer("dht") /\ dht_query
dht_find == dht_query

-----------------------------------------------------------------------------
(* The worker *)

WorkerTo(g, at) == worker' = [worker EXCEPT ![g] = at]

\* tokio's mutexes are handed on in order: a stop that waits for one has it before the
\* worker has it again
Overtaken(g) == \/ ctl = "stop_dht" /\ current["dht"] = g
                \/ ctl = "stop_bootstrap" /\ current["bootstrap"] = g

\* A worker that ends lets go of its mechanisms
WorkerEnds(g) == WorkerTo(g, "gone") /\ Drop({i \in Instances : i[1] = g /\ ~IsCurrent(i)})

worker_check(g) ==
    /\ worker[g] = "check"
    /\ IF running THEN ~Overtaken(g) /\ WorkerTo(g, "select") /\ UNCHANGED channels
                  ELSE WorkerEnds(g)
    /\ UNCHANGED <<manager, flag, task, swarm, queries, cache, reported, queue>>

\* next_event of the branch that wins; the other one has taken nothing
worker_take(g, m) ==
    /\ worker[g] = "select" /\ chan[<<g, m>>] > 0
    /\ ~(ctl = "abort_dht" /\ <<g, m>> = Current("dht"))
    /\ chan' = [chan EXCEPT ![<<g, m>>] = @ - 1]
    /\ WorkerTo(g, "send")
    /\ UNCHANGED <<manager, accepted, passed, lost, flag, task, swarm, queries, cache, reported, queue>>

\* Mutant: no timeout
WaitForEver(g) ==
    /\ worker[g] = "select" /\ g \in shutdown
    /\ WorkerEnds(g)
    /\ UNCHANGED <<manager, flag, task, swarm, queries, cache, reported, queue>>

\* A second without an event, or the shutdown channel
worker_timeout(g) ==
    /\ worker[g] = "select"
    /\ \/ WorkerTo(g, "check") /\ UNCHANGED channels
       \/ g \in shutdown /\ WorkerEnds(g)
    /\ UNCHANGED <<manager, flag, task, swarm, queries, cache, reported, queue>>

\* Mutant: what finds no room is dropped
SendOrDrop(g) ==
    /\ worker[g] = "send"
    /\ IF queue < ManagerCapacity
       THEN queue' = queue + 1 /\ passed' = passed + 1
       ELSE UNCHANGED <<queue, passed>>
    /\ WorkerTo(g, "check")
    /\ UNCHANGED <<manager, chan, accepted, lost, flag, task, swarm, queries, cache, reported>>

\* event_tx.send(event).await, with no mutex held
worker_send(g) ==
    /\ worker[g] = "send" /\ queue < ManagerCapacity
    /\ queue' = queue + 1
    /\ passed' = passed + 1
    /\ WorkerTo(g, "check")
    /\ UNCHANGED <<manager, chan, accepted, lost, flag, task, swarm, queries, cache, reported>>

next_event ==
    /\ queue > 0
    /\ queue' = queue - 1
    /\ UNCHANGED <<manager, mechs, worker>>

-----------------------------------------------------------------------------
Dht(g) == \/ loop_check(g) \/ loop_leave(g) \/ closest_next(g) \/ connection_closed(g)
          \/ \E p \in Peers : peer_seen(g, p) \/ routing_updated(g, p)
          \/ \E S \in SUBSET Peers : closest_peers(g, S)
          \/ \E q \in {"find", "provide"} : query_done(g, q)
connect_to_bootstrap(g) ==
    bootstrap_failed(g) \/ \E p \in Peers : bootstrap_connected(g, p) \/ bootstrap_identified(g, p)
Bootstrap(g) == \/ refresh(g) \/ connect_to_bootstrap(g) \/ bootstrap_insert(g)
                \/ expire_list(g) \/ expire_remove(g)
Start == \/ start \/ dht_fails \/ dht_spawn \/ dht_start
         \/ bootstrap_fails \/ bootstrap_start \/ start_worker
Stop == stop \/ dht_stop \/ dht_abort \/ bootstrap_stop \/ stop_done
Announce == announce_dht \/ announce_bootstrap
Worker(g) == worker_check(g) \/ worker_timeout(g) \/ worker_send(g)
             \/ \E m \in Mechanisms : worker_take(g, m)

Next ==
    \/ \E i \in Instances : send(i)
    \/ \E p \in Known : Age(p)
    \/ \E g \in Starts : Dht(g) \/ Bootstrap(g) \/ Worker(g)
    \/ Start \/ Stop \/ Announce \/ dht_lookup \/ dht_find \/ next_event

\* The worker's timers fire, and a call goes on as soon as it can
Fairness ==
    /\ \A g \in Starts : WF_vars(Worker(g))
    /\ WF_vars(dht_stop \/ dht_abort \/ bootstrap_stop \/ stop_done)

Spec == Init /\ [][Next]_vars /\ Fairness

-----------------------------------------------------------------------------
Locations == {"none", "check", "poll", "leave", "found", "send", "tick", "dial", "insert",
              "expire", "remove", "gone"}

TypeOK ==
    /\ enabled \subseteq Mechanisms
    /\ ctl \in {"idle", "start_dht", "flag_dht", "start_bootstrap", "start_worker", "stop_dht",
                "abort_dht", "stop_bootstrap", "stop_flag", "announce"}
    /\ starts \in 0..MaxCalls /\ current \in [Mechanisms -> 0..MaxCalls]
    /\ {running, aborted} \subseteq BOOLEAN
    /\ \A i \in Instances : task[i].at \in Locations /\ chan[i] \in 0..EventCapacity
    /\ swarm \in [Starts -> {"none", "mutex", "task"}]
    /\ \A g \in Starts : worker[g] \in {"none", "check", "select", "send", "gone"}
    /\ queue \in 0..ManagerCapacity

Active(i) == task[i].at \notin {"none", "gone"}

\* The events of each start that are in its channels, were dropped with them or are in the
\* hands of its worker
Left(i) == chan[i] + lost[i]
Held == [g \in Starts |-> Left(<<g, "dht">>) + Left(<<g, "bootstrap">>)
                            + (IF worker[g] = "send" THEN 1 ELSE 0)]
Sums(w) == LET sum[n \in 0..MaxCalls] == IF n = 0 THEN 0 ELSE sum[n - 1] + w[n] IN sum
Total(w) == Sums(w)[MaxCalls]

\* Every event a mechanism's channel has taken is in it still, in the hands of a worker or
\* in the manager's channel, unless it was dropped with the channel; and that happens to
\* no mechanism the manager or a worker still has, although the worker drops the branch of
\* its select that did not win, mechanisms are stopped and replaced, and the worker of one
\* start lives on into the next (DiscoveryManager::start).
LostOnlyWhenReplaced ==
    /\ accepted = passed + Total(Held)
    /\ \A i \in Instances : lost[i] > 0 => ~IsCurrent(i) /\ ~Working(i[1])

\* Unless a start failed half way, whatever still runs is what the manager has, and
\* nothing runs once stop is through the mechanisms (DhtDiscovery::stop and
\* BootstrapDiscovery::stop abort and await their tasks).
StopIsThorough ==
    ~aborted =>
        /\ \A i \in Instances : Active(i) => i[1] = starts
        /\ ctl = "stop_flag" => \A i \in Instances : ~Active(i)

\* What a running mechanism answers to lookup_peer, find_peers or discovered_peers has
\* been reported in an event, is being reported, or is this node itself.
AnswersWereReported ==
    \A m \in Mechanisms : Has(m) /\ flag[Current(m)] =>
        lookup_peer(m) \cup find_peers(m) \cup discovered_peers(m)
            \subseteq {Self} \cup reported[m] \cup task[Current(m)].report

\* stop returns: the worker gives the mutexes of the mechanisms back within a second,
\* also when nobody takes the manager's events.
StopReturns == ctl = "stop_dht" ~> ctl = "idle"
=============================================================================
