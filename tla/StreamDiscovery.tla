---------------------------- MODULE StreamDiscovery ----------------------------
(***************************************************************************)
(* Stream discovery (core/src/discovery/stream_discovery.rs): publishers   *)
(* announce their streams on a gossip topic and announce them again from   *)
(* time to time, every node caches what it hears until it expires.         *)
(*                                                                         *)
(* The tasks of a node share the own_streams and streams maps: the caller  *)
(* (the web server starts and stops a stream), the service loop that spawn *)
(* starts, and any number of receivers of gossip, since the server and     *)
(* every viewer of a remote stream have a loop of their own.  Every lock   *)
(* is released before the next await, so each locked block is an action.   *)
(* Titles, codecs and metadata are left out: an announcement is a stream   *)
(* and the time announced_at.                                              *)
(***************************************************************************)
EXTENDS Integers, FiniteSets

CONSTANTS
    Nodes, Streams,
    Owner,       \* the node that publishes each stream
    Receivers,   \* the loops of a node that receive gossip
    Ttl,         \* ttl_secs (300)
    MaxCached,   \* config.max_cached_streams (1000)
    MaxTime      \* bound: the clock stops here

ASSUME OwnerAssumption == Owner \in [Streams -> Nodes]
ASSUME LimitsAssumption == {Ttl, MaxCached, MaxTime} \subseteq Nat
ASSUME StreamsAssumption == IsFiniteSet(Streams)
ASSUME ReceiversAssumption == "caller" \notin Receivers /\ "loop" \notin Receivers

VARIABLES
    now,         \* the clock, the same on all nodes
    own,         \* own_streams
    cache,       \* the streams map: announced_at, or Absent
    is_running,
    task,        \* where each task is
    net,         \* announcements gossiped so far; each may reach a node any
                 \* number of times, late, or never
    ended        \* when remove_stream last took the stream out of own_streams

vars == <<now, own, cache, is_running, task, net, ended>>

Absent == -1
Times == 0..MaxTime
Announcements == [stream : Streams, at : Times]
Tasks == {"caller", "loop"} \cup Receivers
Labels == {"idle", "publish", "own", "cache", "uncache", "clean", "insert",
           "start", "check", "select", "next", "gone"}

\* A task: its label, the stream and time it works on, the announcements of a
\* re-announcement round still to send
AtLabel(l) == [pc |-> l, anns |-> {}, todo |-> {}]

Cached(n) == {s \in Streams : cache[n][s] # Absent}
is_expired(at) == now > at + Ttl

\* What list_streams, get_stream and the searches show
Listed(n) == {s \in Cached(n) : ~ is_expired(cache[n][s])}

Become(n, t, r) == task' = [task EXCEPT ![n][t] = r]
Goto(n, t, l) == Become(n, t, [task[n][t] EXCEPT !.pc = l])

\* announce_stream returns: the caller is done, the loop goes on with its round
Return(n, t) ==
    Become(n, t, IF t = "loop" THEN [task[n][t] EXCEPT !.pc = "next", !.anns = {}]
                 ELSE AtLabel("idle"))

-----------------------------------------------------------------------------
(* announce_stream, run by the caller or by the loop *)

announce_stream(n, s) ==
    /\ task[n]["caller"].pc = "idle"
    /\ Owner[s] = n
    /\ Become(n, "caller", [AtLabel("publish") EXCEPT !.anns = {[stream |-> s, at |-> now]}])
    /\ UNCHANGED <<now, own, cache, is_running, net, ended>>

\* publish_to_topic; on an error announce_stream returns at once
Publish(n, t) ==
    /\ task[n][t].pc = "publish"
    /\ \/ net' = net \cup task[n][t].anns /\ Goto(n, t, "own")
       \/ UNCHANGED net /\ Return(n, t)
    /\ UNCHANGED <<now, own, cache, is_running, ended>>

AddOwn(n, t) ==
    /\ task[n][t].pc = "own"
    /\ own' = [own EXCEPT ![n] = @ \cup {a.stream : a \in task[n][t].anns}]
    /\ Goto(n, t, "cache")
    /\ UNCHANGED <<now, cache, is_running, net, ended>>

\* Mutant: the cache holds the second after which the announcement is invalid
CacheExpiry(n, t) ==
    /\ task[n][t].pc = "cache"
    /\ \E a \in task[n][t].anns : cache' = [cache EXCEPT ![n][a.stream] = a.at + Ttl + 1]
    /\ Return(n, t)
    /\ UNCHANGED <<now, own, is_running, net, ended>>

\* Mutant: the cache entry gets a timestamp of its own
CacheNow(n, t) ==
    /\ task[n][t].pc = "cache"
    /\ \E a \in task[n][t].anns : cache' = [cache EXCEPT ![n][a.stream] = now]
    /\ Return(n, t)
    /\ UNCHANGED <<now, own, is_running, net, ended>>

\* The cache limit does not hold for a node's own streams.
CacheOwn(n, t) ==
    /\ task[n][t].pc = "cache"
    /\ \E a \in task[n][t].anns : cache' = [cache EXCEPT ![n][a.stream] = a.at]
    /\ Return(n, t)
    /\ UNCHANGED <<now, own, is_running, net, ended>>

-----------------------------------------------------------------------------
(* remove_stream *)

remove_stream(n, s) ==
    /\ task[n]["caller"].pc = "idle"
    /\ Owner[s] = n
    /\ own' = [own EXCEPT ![n] = @ \ {s}]
    /\ ended' = [ended EXCEPT ![s] = now]
    /\ Become(n, "caller", [AtLabel("uncache") EXCEPT !.anns = {[stream |-> s, at |-> now]}])
    /\ UNCHANGED <<now, cache, is_running, net>>

Uncache(n) ==
    /\ task[n]["caller"].pc = "uncache"
    /\ \E a \in task[n]["caller"].anns : cache' = [cache EXCEPT ![n][a.stream] = Absent]
    /\ Become(n, "caller", AtLabel("idle"))
    /\ UNCHANGED <<now, own, is_running, net, ended>>

-----------------------------------------------------------------------------
(* process_announcement *)

Cleaned(n) == [s \in Streams |-> IF is_expired(cache[n][s]) THEN Absent ELSE cache[n][s]]

\* Gossip does not hand a node its own messages.  An expired announcement is
\* ignored; the limit is read under one lock and used under another.
process_announcement(n, r, a) ==
    /\ task[n][r].pc = "idle"
    /\ a \in net
    /\ Owner[a.stream] # n
    /\ ~ is_expired(a.at)
    /\ Become(n, r,
          [pc |-> IF Cardinality(Cached(n)) >= MaxCached THEN "clean" ELSE "insert",
           anns |-> {a}, todo |-> {}])
    /\ UNCHANGED <<now, own, cache, is_running, net, ended>>

CleanForInsert(n, r) ==
    /\ task[n][r].pc = "clean"
    /\ cache' = [cache EXCEPT ![n] = Cleaned(n)]
    /\ Goto(n, r, "insert")
    /\ UNCHANGED <<now, own, is_running, net, ended>>

\* A full cache ignores the announcement, even of a stream it holds.
Insert(n, r) ==
    /\ task[n][r].pc = "insert"
    /\ \E a \in task[n][r].anns :
          cache' = IF Cardinality(Cached(n)) < MaxCached
                   THEN [cache EXCEPT ![n][a.stream] = a.at] ELSE cache
    /\ Become(n, r, AtLabel("idle"))
    /\ UNCHANGED <<now, own, is_running, net, ended>>

-----------------------------------------------------------------------------
(* The service loop: spawn and stop *)

\* The spawned task sets the flag, whenever it is first polled.
spawn(n) ==
    /\ task[n]["loop"].pc = "idle"
    /\ Goto(n, "loop", "start")
    /\ UNCHANGED <<now, own, cache, is_running, net, ended>>

LoopStart(n) ==
    /\ task[n]["loop"].pc = "start"
    /\ is_running' = [is_running EXCEPT ![n] = TRUE]
    /\ Goto(n, "loop", "check")
    /\ UNCHANGED <<now, own, cache, net, ended>>

\* Mutant: the loop does not look at the flag
LoopForEver(n) ==
    /\ task[n]["loop"].pc = "check"
    /\ Goto(n, "loop", "select")
    /\ UNCHANGED <<now, own, cache, is_running, net, ended>>

LoopCheck(n) ==
    /\ task[n]["loop"].pc = "check"
    /\ Goto(n, "loop", IF is_running[n] THEN "select" ELSE "gone")
    /\ UNCHANGED <<now, own, cache, is_running, net, ended>>

\* cleanup_timer
cleanup_expired(n) ==
    /\ task[n]["loop"].pc = "select"
    /\ cache' = [cache EXCEPT ![n] = Cleaned(n)]
    /\ Goto(n, "loop", "check")
    /\ UNCHANGED <<now, own, is_running, net, ended>>

\* announce_timer: the round works on a copy of own_streams
ReannounceRound(n) ==
    /\ task[n]["loop"].pc = "select"
    /\ Become(n, "loop", [AtLabel("next") EXCEPT !.todo = own[n]])
    /\ UNCHANGED <<now, own, cache, is_running, net, ended>>

Reannounce(n) ==
    /\ task[n]["loop"].pc = "next"
    /\ IF task[n]["loop"].todo = {} THEN Become(n, "loop", AtLabel("check"))
       ELSE \E s \in task[n]["loop"].todo :
              Become(n, "loop", [pc |-> "publish", anns |-> {[stream |-> s, at |-> now]},
                                 todo |-> task[n]["loop"].todo \ {s}])
    /\ UNCHANGED <<now, own, cache, is_running, net, ended>>

stop(n) ==
    /\ is_running' = [is_running EXCEPT ![n] = FALSE]
    /\ UNCHANGED <<now, own, cache, task, net, ended>>

Tick ==
    /\ now < MaxTime
    /\ now' = now + 1
    /\ UNCHANGED <<own, cache, is_running, task, net, ended>>

-----------------------------------------------------------------------------
Init ==
    /\ now = 0
    /\ own = [n \in Nodes |-> {}]
    /\ cache = [n \in Nodes |-> [s \in Streams |-> Absent]]
    /\ is_running = [n \in Nodes |-> FALSE]
    /\ task = [n \in Nodes |-> [t \in Tasks |-> AtLabel("idle")]]
    /\ net = {}
    /\ ended = [s \in Streams |-> 0]

Announcing(n, t) == Publish(n, t) \/ AddOwn(n, t) \/ CacheOwn(n, t)

Loop(n) == \/ LoopStart(n) \/ LoopCheck(n) \/ cleanup_expired(n) \/ ReannounceRound(n)
           \/ Reannounce(n) \/ Announcing(n, "loop")

Next == \/ \E n \in Nodes :
              \/ \E s \in Streams : announce_stream(n, s) \/ remove_stream(n, s)
              \/ Announcing(n, "caller")
              \/ Uncache(n)
              \/ \E r \in Receivers : \/ \E a \in net : process_announcement(n, r, a)
                                     \/ CleanForInsert(n, r) \/ Insert(n, r)
              \/ spawn(n) \/ Loop(n) \/ stop(n)
        \/ Tick

\* The runtime polls the service loop; nothing makes callers call or gossip
\* arrive.
Spec == Init /\ [][Next]_vars /\ \A n \in Nodes : WF_vars(Loop(n))

-----------------------------------------------------------------------------
(* Properties *)

TypeOK ==
    /\ now \in Times
    /\ own \in [Nodes -> SUBSET Streams]
    /\ cache \in [Nodes -> [Streams -> Times \cup {Absent}]]
    /\ is_running \in [Nodes -> BOOLEAN]
    /\ task \in [Nodes -> [Tasks -> [pc : Labels, anns : SUBSET Announcements,
                                     todo : SUBSET Streams]]]
    /\ net \subseteq Announcements
    /\ ended \in [Streams -> Times]

\* The owner has s in own_streams, or has published it and is about to add it
Alive(s) == \/ s \in own[Owner[s]]
            \/ \E t \in {"caller", "loop"} :
                  /\ task[Owner[s]][t].pc = "own"
                  /\ s \in {a.stream : a \in task[Owner[s]][t].anns}

\* Once the owner has let go of a stream, no copy of its announcement is younger
\* than that moment, in gossip or in any cache, so nobody lists it for longer
\* than its time to live.  The announcement is stamped before it is published and
\* cached, and removal may come between any two of these steps.
EndedExpires ==
    \A s \in Streams : ~ Alive(s) =>
        /\ \A a \in net : a.stream = s => a.at <= ended[s]
        /\ \A n \in Nodes : cache[n][s] <= ended[s]

\* stop ends the service loop, unless the loop has yet to set the flag itself.
StopEnds ==
    \A n \in Nodes :
        (task[n]["loop"].pc \notin {"idle", "start"} /\ ~ is_running[n])
            ~> task[n]["loop"].pc = "gone"
=============================================================================
