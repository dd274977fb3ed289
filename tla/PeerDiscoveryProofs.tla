-------------------------- MODULE PeerDiscoveryProofs --------------------------
(***************************************************************************)
(* Proofs about PeerDiscovery, for any peers, capacities and bounds.       *)
(***************************************************************************)
EXTENDS PeerDiscovery, FiniteSetTheorems, NaturalsInduction, WellFoundedInduction, TLAPS

Places == {"idle", "start_dht", "flag_dht", "start_bootstrap", "start_worker", "stop_dht",
           "abort_dht", "stop_bootstrap", "stop_flag", "announce"}
Starting == {"start_dht", "flag_dht", "start_bootstrap", "start_worker"}
AtRest == {"idle", "announce", "stop_dht"}
Works == [at : Locations, report : SUBSET Known, todo : SUBSET Known, back : Locations, left : Int]

ManagerTypes ==
    /\ enabled \subseteq Mechanisms /\ enabled # {}
    /\ ctl \in Places
    /\ starts \in Nat /\ calls \in Nat /\ starts + calls <= MaxCalls
    /\ current \in [Mechanisms -> 0..MaxCalls]
    /\ running \in BOOLEAN /\ aborted \in BOOLEAN

MechanismTypes ==
    /\ flag \in [Instances -> BOOLEAN]
    /\ task \in [Instances -> Works]
    /\ swarm \in [Starts -> {"none", "mutex", "task"}]
    /\ chan \in [Instances -> 0..EventCapacity]
    /\ accepted \in 0..MaxEvents
    /\ cache \in [Mechanisms -> [Known -> {"absent", "fresh", "stale"}]]
    /\ reported \in [Mechanisms -> SUBSET Known]

WorkerTypes ==
    /\ worker \in [Starts -> {"none", "check", "select", "send", "gone"}]
    /\ queue \in 0..ManagerCapacity

Types == ManagerTypes /\ MechanismTypes /\ WorkerTypes

\* A mechanism has a task or says that it runs
Alive(i) == Active(i) \/ flag[i]
NoneAlive == \A i \in Instances : ~Alive(i)
\* The manager has the mechanism of the latest start, and it runs
Up(m) == current[m] = starts /\ flag[<<starts, m>>]

\* Where a start or a stop is, and what is alive there
Stages ==
    /\ ctl \in Starting => starts >= 1 /\ ~running
    /\ running => starts >= 1
    /\ \A m \in Mechanisms : current[m] <= starts
    /\ ctl \in {"start_dht", "flag_dht"} => "dht" \in enabled
    /\ ctl = "start_bootstrap" => "bootstrap" \in enabled
    /\ ctl = "abort_dht" => Has("dht") /\ ~flag[Current("dht")]

Living ==
    /\ \A i \in Instances : Alive(i) => i[1] = starts /\ i[2] \in enabled
    /\ ctl \in AtRest /\ ~running => NoneAlive
    /\ ctl \in {"start_dht", "stop_flag"} => NoneAlive
    /\ ctl \in {"flag_dht", "start_bootstrap"} => \A i \in Instances : Alive(i) => i[2] = "dht"
    /\ ctl = "start_bootstrap" /\ "dht" \in enabled => Up("dht")
    /\ ctl = "start_worker" \/ (running /\ ctl \in AtRest) => \A m \in enabled : Up(m)
    /\ ctl = "abort_dht" => current["dht"] = starts /\ ("bootstrap" \in enabled => Up("bootstrap"))
    /\ ctl = "stop_bootstrap" =>
          \A i \in Instances : Alive(i) => i[2] = "bootstrap" /\ Up("bootstrap")

\* Instances that are still to be started
ToCome(i) ==
    \/ i[1] > starts
    \/ i[1] = starts /\ ctl = "start_dht"
    \/ i[1] = starts /\ ctl \in {"flag_dht", "start_bootstrap"} /\ i[2] = "bootstrap"
Untouched == \A i \in Instances : ToCome(i) => task[i] = NoTask /\ ~flag[i]

StageInv == Stages /\ (~aborted => Living) /\ Untouched

\* What an instance that runs has found it has reported, or is reporting
Said(i) == {Self} \cup reported[i[2]] \cup task[i].report
Honest(i) ==
    IsCurrent(i) /\ flag[i] =>
        /\ lookup_peer(i[2]) \subseteq Said(i)
        /\ i[2] = "bootstrap" /\ task[i].at # "remove" => task[i].todo \subseteq Said(i)
Quiet(i) == task[i].at # "send" => task[i].report = {}
AnswerInv == \A i \in Instances : Honest(i) /\ Quiet(i)

-----------------------------------------------------------------------------
LEMMA Constants ==
    /\ Instances = Starts \X Mechanisms /\ Starts = 1..MaxCalls
    /\ Mechanisms = {"dht", "bootstrap"} /\ "dht" # "bootstrap"
    /\ MaxCalls \in Nat /\ MaxEvents \in Nat /\ BootstrapNodes \in Nat
    /\ EventCapacity \in Nat \ {0} /\ ManagerCapacity \in Nat \ {0}
    /\ Self \in Known /\ Peers \subseteq Known
  BY DiscoveryAssumption DEF Instances, Starts, Mechanisms, Known

LEMMA InstanceFacts ==
    /\ \A g \in Starts, m \in Mechanisms :
          <<g, m>> \in Instances /\ <<g, m>>[1] = g /\ <<g, m>>[2] = m
    /\ \A i \in Instances : i[1] \in Starts /\ i[2] \in Mechanisms /\ i = <<i[1], i[2]>>
  BY DEF Instances

LEMMA WorkFacts ==
    ASSUME NEW t \in Works, NEW a \in Locations, NEW b \in Locations, NEW n \in Int,
           NEW R \in SUBSET Known, NEW S \in SUBSET Known
    PROVE  /\ [t EXCEPT !.at = a] \in Works
           /\ [t EXCEPT !.at = a, !.report = R] \in Works
           /\ [t EXCEPT !.at = a, !.report = R, !.back = b] \in Works
           /\ [t EXCEPT !.at = a, !.todo = S] \in Works
           /\ [t EXCEPT !.at = a, !.left = n] \in Works
           /\ [t EXCEPT !.at = a, !.todo = S, !.left = n] \in Works
           /\ [t EXCEPT !.todo = S] \in Works
           /\ [t EXCEPT !.todo = S, !.left = n] \in Works
  BY DEF Works

LEMMA NoTaskFacts ==
    /\ NoTask \in Works /\ [NoTask EXCEPT !.at = "gone"] \in Works
    /\ NoTask.at = "none" /\ NoTask.report = {} /\ NoTask.todo = {}
    /\ [NoTask EXCEPT !.at = "gone"].at = "gone" /\ [NoTask EXCEPT !.at = "gone"].report = {}
  BY DEF NoTask, Works, Locations

-----------------------------------------------------------------------------
(* The beginning *)

LEMMA TypesInit == Init => Types
  <1> SUFFICES ASSUME Init PROVE Types
    OBVIOUS
  <1>1. ManagerTypes
    <2>0. enabled \subseteq Mechanisms /\ enabled # {}
      BY DEF Init
    <2>1. running \in BOOLEAN /\ aborted \in BOOLEAN
      BY DEF Init
    <2>2. starts = 0 /\ calls = 0 /\ ctl = "idle"
      BY DEF Init
    <2>3. current \in [Mechanisms -> 0..MaxCalls]
      BY Constants DEF Init
    <2> QED
      BY <2>0, <2>1, <2>2, <2>3, Constants DEF ManagerTypes, Places
  <1>2. MechanismTypes
    BY Constants, NoTaskFacts DEF Init, MechanismTypes
  <1>3. WorkerTypes
    BY Constants DEF Init, WorkerTypes
  <1> QED
    BY <1>1, <1>2, <1>3 DEF Types

LEMMA StageInit == Init => StageInv
  <1> SUFFICES ASSUME Init PROVE StageInv
    OBVIOUS
  <1>1. NoneAlive
    BY NoTaskFacts DEF Init, NoneAlive, Alive, Active
  <1>2. Stages /\ Untouched
    BY <1>1 DEF Init, Stages, Untouched, Starting
  <1>3. Living
    BY <1>1 DEF Init, Living, NoneAlive, AtRest
  <1> QED
    BY <1>2, <1>3 DEF StageInv

LEMMA AnswerInit == Init => AnswerInv
  BY NoTaskFacts DEF Init, AnswerInv, Honest, Quiet

-----------------------------------------------------------------------------
(* Steps of a task: it is there before, and manager and flags stay *)

LEMMA StageKept ==
    ASSUME StageInv, UNCHANGED <<manager, flag>>,
           \A i \in Instances : task'[i] = task[i] \/ Active(i)
    PROVE  StageInv'
  <1>1. \A i \in Instances : Alive(i)' => Alive(i)
    BY DEF Alive, Active
  <1>2. Stages'
    BY DEF StageInv, Stages, manager, Has, Current
  <1>3. ASSUME ~aborted' PROVE Living'
    <2>1. Living
      BY <1>3 DEF StageInv, manager
    <2>2. (NoneAlive => NoneAlive') /\ (Up("dht") => Up("dht")') /\ (Up("bootstrap") => Up("bootstrap")')
      BY <1>1 DEF NoneAlive, Up, manager
    <2>3. \A m \in enabled : Up(m) => Up(m)'
      BY DEF Up, manager
    <2> QED
      BY <1>1, <2>1, <2>2, <2>3 DEF Living, manager
  <1>4. Untouched'
    <2> SUFFICES ASSUME NEW i \in Instances, ToCome(i)' PROVE (task[i] = NoTask /\ ~flag[i])'
      BY DEF Untouched
    <2>1. task[i] = NoTask /\ ~flag[i]
      BY DEF StageInv, Untouched, ToCome, manager
    <2> QED
      BY <2>1, NoTaskFacts DEF Active
  <1> QED
    BY <1>2, <1>3, <1>4 DEF StageInv

\* What a task does with its cache, and the others stay as they are
LEMMA AnswerKept ==
    ASSUME Types, AnswerInv, NEW i \in Instances, NEW t \in Works,
           task' = [task EXCEPT ![i] = t], UNCHANGED <<current, flag>>,
           IsCurrent(i) \/ (cache' = cache /\ reported' = reported),
           \A m \in Mechanisms : m # i[2] => cache'[m] = cache[m] /\ reported'[m] = reported[m],
           t.at # "send" => t.report = {},
           IsCurrent(i) /\ flag[i] => Honest(i)'
    PROVE  AnswerInv'
  <1> SUFFICES ASSUME NEW j \in Instances PROVE Honest(j)' /\ Quiet(j)'
    BY DEF AnswerInv
  <1>1. CASE j = i
    <2>1. task'[i] = t
      BY DEF Types, MechanismTypes
    <2>2. Quiet(j)'
      BY <1>1, <2>1 DEF Quiet
    <2>3. Honest(j)'
      BY <1>1 DEF Honest, IsCurrent
    <2> QED
      BY <2>2, <2>3
  <1>2. CASE j # i
    <2>1. task'[j] = task[j]
      BY <1>2 DEF Types, MechanismTypes
    <2>2. Quiet(j)'
      BY <2>1 DEF Quiet, AnswerInv
    <2>3. SUFFICES ASSUME (IsCurrent(j) /\ flag[j])' PROVE Honest(j)'
      BY <2>2 DEF Honest
    <2>4. j[2] # i[2] \/ ~IsCurrent(i)
      BY <1>2, <2>3, InstanceFacts DEF IsCurrent
    <2>5. cache'[j[2]] = cache[j[2]] /\ reported'[j[2]] = reported[j[2]]
      BY <2>4, InstanceFacts
    <2>6. Honest(j) /\ IsCurrent(j) /\ flag[j]
      BY <2>3 DEF AnswerInv, IsCurrent
    <2>7. lookup_peer(j[2])' = lookup_peer(j[2]) /\ Said(j)' = Said(j)
      BY <2>1, <2>5 DEF lookup_peer, Said
    <2> QED
      BY <2>1, <2>2, <2>6, <2>7 DEF Honest
  <1> QED
    BY <1>1, <1>2

\* A cache that an instance writes to keeps its shape
LEMMA PutTypes ==
    ASSUME Types, NEW i \in Instances, NEW S \in SUBSET Known,
           NEW x \in {"absent", "fresh", "stale"}, Put(i, S, x)
    PROVE  /\ cache' \in [Mechanisms -> [Known -> {"absent", "fresh", "stale"}]]
           /\ IsCurrent(i) \/ cache' = cache
           /\ \A m \in Mechanisms : m # i[2] => cache'[m] = cache[m]
           /\ IsCurrent(i) => \A p \in Known :
                 cache'[i[2]][p] = IF p \in S THEN x ELSE cache[i[2]][p]
  <1>1. i[2] \in Mechanisms
    BY InstanceFacts
  <1> QED
    BY <1>1 DEF Put, Types, MechanismTypes

-----------------------------------------------------------------------------
(* Every step of a task *)

IInv == Types /\ StageInv /\ AnswerInv

\* A step of task i to t: the manager, the flags and what the worker has stay
LEMMA TaskStep ==
    ASSUME IInv, NEW i \in Instances, NEW t \in Works, Active(i),
           task' = [task EXCEPT ![i] = t], UNCHANGED <<manager, flag, worker, queue>>,
           swarm' \in [Starts -> {"none", "mutex", "task"}],
           chan' \in [Instances -> 0..EventCapacity], accepted' \in 0..MaxEvents,
           cache' \in [Mechanisms -> [Known -> {"absent", "fresh", "stale"}]],
           reported' \in [Mechanisms -> SUBSET Known],
           IsCurrent(i) \/ (cache' = cache /\ reported' = reported),
           \A m \in Mechanisms : m # i[2] => cache'[m] = cache[m] /\ reported'[m] = reported[m],
           t.at # "send" => t.report = {},
           IsCurrent(i) /\ flag[i] => Honest(i)'
    PROVE  IInv'
  <1>1. Types'
    <2>1. task' \in [Instances -> Works]
      BY DEF IInv, Types, MechanismTypes
    <2>2. ManagerTypes'
      BY DEF IInv, Types, ManagerTypes, manager
    <2> QED
      BY <2>1, <2>2 DEF IInv, Types, MechanismTypes, WorkerTypes
  <1>2. StageInv'
    <2>1. \A j \in Instances : task'[j] = task[j] \/ Active(j)
      BY DEF IInv, Types, MechanismTypes
    <2> QED
      BY <2>1, StageKept DEF IInv
  <1>3. AnswerInv'
    <2>1. UNCHANGED <<current, flag>>
      BY DEF manager
    <2> QED
      BY <2>1, AnswerKept DEF IInv
  <1> QED
    BY <1>1, <1>2, <1>3 DEF IInv

\* A step that leaves cache and reports alone
LEMMA PlainStep ==
    ASSUME IInv, NEW i \in Instances, NEW t \in Works, Active(i),
           task' = [task EXCEPT ![i] = t], UNCHANGED <<manager, flag, worker, queue, cache, reported, channels>>,
           swarm' \in [Starts -> {"none", "mutex", "task"}],
           t.at # "send" => t.report = {}, task[i].report \subseteq t.report,
           i[2] = "bootstrap" /\ t.at # "remove" =>
              t.todo \subseteq t.report \/ (t.todo \subseteq task[i].todo \cup t.report /\ task[i].at # "remove")
    PROVE  IInv'
  <1>1. /\ chan' \in [Instances -> 0..EventCapacity] /\ accepted' \in 0..MaxEvents
        /\ cache' \in [Mechanisms -> [Known -> {"absent", "fresh", "stale"}]]
        /\ reported' \in [Mechanisms -> SUBSET Known]
    BY DEF IInv, Types, MechanismTypes, channels
  <1>2. ASSUME IsCurrent(i), flag[i] PROVE Honest(i)'
    <2>1. task'[i] = t
      BY DEF IInv, Types, MechanismTypes
    <2>2. Honest(i)
      BY DEF IInv, AnswerInv
    <2>3. Said(i) \subseteq Said(i)' /\ t.report \subseteq Said(i)'
      BY <2>1 DEF Said
    <2>4. lookup_peer(i[2])' = lookup_peer(i[2])
      BY DEF lookup_peer
    <2> QED
      BY <1>2, <2>1, <2>2, <2>3, <2>4 DEF Honest
  <1> QED
    BY <1>1, <1>2, TaskStep

LEMMA NoReport ==
    ASSUME IInv, NEW i \in Instances, task[i].at # "send"
    PROVE  task[i].report = {}
  BY DEF IInv, AnswerInv, Quiet

LEMMA WorkOf ==
    ASSUME IInv, NEW i \in Instances
    PROVE  /\ task[i] \in Works /\ task[i].at \in Locations /\ task[i].back \in Locations
           /\ task[i].report \subseteq Known /\ task[i].todo \subseteq Known /\ task[i].left \in Int
           /\ flag[i] \in BOOLEAN /\ chan[i] \in 0..EventCapacity
  BY DEF IInv, Types, MechanismTypes, Works

LEMMA RoomFacts ==
    ASSUME IInv, NEW i \in Instances
    PROVE  /\ Room(i) \in Nat /\ chan[i] + Room(i) <= EventCapacity /\ accepted + Room(i) <= MaxEvents
           /\ chan[i] \in Nat /\ accepted \in Nat
  BY WorkOf, Constants DEF IInv, Types, MechanismTypes, Room

LEMMA AcceptTypes ==
    ASSUME IInv, NEW i \in Instances, NEW n \in Nat, n <= Room(i), Accept(i, n)
    PROVE  chan' \in [Instances -> 0..EventCapacity] /\ accepted' \in 0..MaxEvents
  <1>1. chan[i] + n \in 0..EventCapacity /\ accepted + n \in 0..MaxEvents
    BY RoomFacts, Constants
  <1>2. chan \in [Instances -> 0..EventCapacity]
    BY DEF IInv, Types, MechanismTypes
  <1> QED
    BY <1>1, <1>2 DEF Accept

LEMMA DropTypes ==
    ASSUME IInv, NEW S, Drop(S)
    PROVE  chan' \in [Instances -> 0..EventCapacity] /\ accepted' = accepted
  <1>1. chan \in [Instances -> 0..EventCapacity] /\ 0 \in 0..EventCapacity
    BY Constants DEF IInv, Types, MechanismTypes
  <1> QED
    BY <1>1 DEF Drop

LEMMA OnwardFacts ==
    ASSUME NEW i \in Instances, NEW a \in Locations
    PROVE  Onward(i, a) \in Locations /\ (a # "send" => Onward(i, a) # "send")
           /\ (a # "remove" => Onward(i, a) # "remove")
  BY DEF Onward, Locations

LEMMA FiniteKnown == \A S \in SUBSET Known : Cardinality(S) \in Nat
  <1>1. IsFiniteSet(Known)
    BY DiscoveryAssumption, FS_AddElement DEF Known
  <1> QED
    BY <1>1, FS_Subset, FS_CardinalityType

LEMMA SendKept ==
    ASSUME IInv, NEW i \in Instances, send(i)
    PROVE  IInv'
  <1> DEFINE t == [task[i] EXCEPT !.at = Onward(i, task[i].back), !.report = {}]
  <1>1. /\ task[i] \in Works /\ Onward(i, task[i].back) \in Locations
        /\ task[i].report \subseteq Known
    BY WorkOf, OnwardFacts
  <1>2. t \in Works /\ t.report = {} /\ t.todo = task[i].todo
    BY <1>1 DEF Works
  <1>3. Active(i) /\ task' = [task EXCEPT ![i] = t]
    BY DEF send, SetTask, Active
  <1>4. UNCHANGED <<manager, flag, worker, queue>> /\ swarm' = swarm /\ cache' = cache
    BY DEF send
  <1>5. chan' \in [Instances -> 0..EventCapacity] /\ accepted' \in 0..MaxEvents
    <2>1. CASE Room(i) > 0 /\ Accept(i, 1)
      <3>1. 1 <= Room(i)
        BY <2>1, RoomFacts
      <3> QED
        BY <2>1, <3>1, AcceptTypes
    <2>2. CASE UNCHANGED channels
      BY <2>2 DEF channels, IInv, Types, MechanismTypes
    <2> QED
      BY <2>1, <2>2 DEF send
  <1>6. /\ swarm' \in [Starts -> {"none", "mutex", "task"}]
        /\ cache' \in [Mechanisms -> [Known -> {"absent", "fresh", "stale"}]]
        /\ reported \in [Mechanisms -> SUBSET Known]
    BY <1>4 DEF IInv, Types, MechanismTypes
  <1>7. i[2] \in Mechanisms
    BY InstanceFacts
  <1>8. /\ reported' \in [Mechanisms -> SUBSET Known]
        /\ IsCurrent(i) \/ reported' = reported
        /\ \A m \in Mechanisms : m # i[2] => reported'[m] = reported[m]
        /\ IsCurrent(i) => reported'[i[2]] = reported[i[2]] \cup task[i].report
    BY <1>1, <1>6, <1>7 DEF send
  <1>9. ASSUME IsCurrent(i), flag[i] PROVE Honest(i)'
    <2>1. task'[i] = t
      BY <1>3 DEF IInv, Types, MechanismTypes
    <2>2. Said(i)' = Said(i)
      BY <1>2, <1>8, <1>9, <2>1 DEF Said
    <2>3. Honest(i) /\ task[i].at # "remove"
      BY DEF IInv, AnswerInv, send
    <2>4. lookup_peer(i[2])' = lookup_peer(i[2])
      BY <1>4 DEF lookup_peer
    <2> QED
      BY <1>2, <1>9, <2>1, <2>2, <2>3, <2>4 DEF Honest
  <1> HIDE DEF t
  <1> QED
    BY <1>2, <1>3, <1>4, <1>5, <1>6, <1>8, <1>9, TaskStep

\* A step that enters peers it reports at once
LEMMA EnterStep ==
    ASSUME IInv, NEW i \in Instances, NEW t \in Works, Active(i), task[i].at # "send",
           i[2] = "dht", NEW S \in SUBSET Known, Store(i, S), t.at = "send", t.report = S,
           task' = [task EXCEPT ![i] = t], UNCHANGED <<manager, flag, worker, queue, swarm, reported, channels>>
    PROVE  IInv'
  <1>1. /\ chan' \in [Instances -> 0..EventCapacity] /\ accepted' \in 0..MaxEvents
        /\ swarm' \in [Starts -> {"none", "mutex", "task"}]
        /\ reported' \in [Mechanisms -> SUBSET Known]
    BY DEF IInv, Types, MechanismTypes, channels
  <1>2. /\ cache' \in [Mechanisms -> [Known -> {"absent", "fresh", "stale"}]]
        /\ IsCurrent(i) \/ cache' = cache
        /\ \A m \in Mechanisms : m # i[2] => cache'[m] = cache[m]
        /\ IsCurrent(i) => \A p \in Known :
              cache'[i[2]][p] = IF p \in S THEN "fresh" ELSE cache[i[2]][p]
    BY PutTypes DEF Store, IInv
  <1>3. ASSUME IsCurrent(i), flag[i] PROVE Honest(i)'
    <2>1. task'[i] = t
      BY DEF IInv, Types, MechanismTypes
    <2>2. Honest(i) /\ task[i].report = {}
      BY NoReport DEF IInv, AnswerInv
    <2>3. lookup_peer(i[2])' \subseteq lookup_peer(i[2]) \cup S
      BY <1>2, <1>3 DEF lookup_peer
    <2>4. Said(i)' = Said(i) \cup S
      BY <2>1, <2>2 DEF Said
    <2> QED
      BY <1>3, <2>2, <2>3, <2>4 DEF Honest
  <1> QED
    BY <1>1, <1>2, <1>3, TaskStep

-----------------------------------------------------------------------------
(* The loop of the DHT *)

LEMMA DhtInstance ==
    ASSUME NEW g \in Starts
    PROVE  <<g, "dht">> \in Instances /\ <<g, "dht">>[2] = "dht" /\ <<g, "dht">>[2] # "bootstrap"
  BY InstanceFacts, Constants

LEMMA LoopCheckKept ==
    ASSUME IInv, NEW g \in Starts, loop_check(g)
    PROVE  IInv'
  <1> DEFINE i == <<g, "dht">>
  <1>0. i \in Instances /\ i[2] # "bootstrap"
    BY DhtInstance
  <1>1. task[i] \in Works /\ task[i].report = {} /\ Active(i)
    BY <1>0, WorkOf, NoReport DEF loop_check, Active
  <1>2. swarm' \in [Starts -> {"none", "mutex", "task"}]
    BY DEF loop_check, IInv, Types, MechanismTypes
  <1>3. PICK a \in {"poll", "gone"} : task' = [task EXCEPT ![i].at = a]
    BY DEF loop_check, TaskTo
  <1> DEFINE t == [task[i] EXCEPT !.at = a]
  <1>4. t \in Works /\ t.report = {} /\ t.at = a /\ task' = [task EXCEPT ![i] = t]
    BY <1>1, <1>3 DEF Works, Locations
  <1>5. UNCHANGED <<manager, flag, worker, queue, cache, reported, channels>>
    BY DEF loop_check
  <1> HIDE DEF t, i
  <1> QED
    BY <1>0, <1>1, <1>2, <1>4, <1>5, PlainStep

LEMMA LoopLeaveKept ==
    ASSUME IInv, NEW g \in Starts, loop_leave(g)
    PROVE  IInv'
  <1> DEFINE i == <<g, "dht">>  t == [task[i] EXCEPT !.at = "check"]
  <1>0. i \in Instances /\ i[2] # "bootstrap"
    BY DhtInstance
  <1>1. task[i] \in Works /\ task[i].report = {} /\ Active(i)
    BY <1>0, WorkOf, NoReport DEF loop_leave, Active
  <1>2. swarm' \in [Starts -> {"none", "mutex", "task"}]
    BY DEF loop_leave, IInv, Types, MechanismTypes
  <1>4. t \in Works /\ t.report = {} /\ t.at = "check" /\ task' = [task EXCEPT ![i] = t]
    BY <1>1 DEF Works, Locations, loop_leave, TaskTo
  <1>5. UNCHANGED <<manager, flag, worker, queue, cache, reported, channels>>
    BY DEF loop_leave
  <1> HIDE DEF t, i
  <1> QED
    BY <1>0, <1>1, <1>2, <1>4, <1>5, PlainStep

LEMMA PeerSeenKept ==
    ASSUME IInv, NEW g \in Starts, NEW p \in Peers, peer_seen(g, p)
    PROVE  IInv'
  <1> DEFINE i == <<g, "dht">>  t == Report(i, {p}, "poll")
  <1>0. i \in Instances /\ i[2] = "dht"
    BY DhtInstance
  <1>1. task[i] \in Works /\ task[i].at # "send" /\ Active(i)
    BY <1>0, WorkOf DEF peer_seen, Active
  <1>2. {p} \in SUBSET Known
    BY Constants
  <1>3. t \in Works /\ t.at = "send" /\ t.report = {p} /\ task' = [task EXCEPT ![i] = t]
    BY <1>1, <1>2 DEF peer_seen, SetTask, Report, Works, Locations
  <1>4. Store(i, {p}) /\ UNCHANGED <<manager, flag, worker, queue, swarm, reported, channels>>
    BY DEF peer_seen
  <1> HIDE DEF t, i
  <1> QED
    BY <1>0, <1>1, <1>2, <1>3, <1>4, EnterStep

LEMMA ConnectionClosedKept ==
    ASSUME IInv, NEW g \in Starts, connection_closed(g)
    PROVE  IInv'
  <1> DEFINE i == <<g, "dht">>  t == Report(i, {}, "poll")
  <1>0. i \in Instances /\ i[2] # "bootstrap"
    BY DhtInstance
  <1>1. task[i] \in Works /\ task[i].report = {} /\ Active(i)
    BY <1>0, WorkOf, NoReport DEF connection_closed, Active
  <1>2. swarm' \in [Starts -> {"none", "mutex", "task"}]
    BY DEF connection_closed, IInv, Types, MechanismTypes
  <1>3. t \in Works /\ t.report = {} /\ task' = [task EXCEPT ![i] = t]
    BY <1>1 DEF connection_closed, SetTask, Report, Works, Locations
  <1>4. UNCHANGED <<manager, flag, worker, queue, cache, reported, channels>>
    BY DEF connection_closed
  <1> HIDE DEF t, i
  <1> QED
    BY <1>0, <1>1, <1>2, <1>3, <1>4, PlainStep

LEMMA ClosestPeersKept ==
    ASSUME IInv, NEW g \in Starts, NEW S \in SUBSET Peers, closest_peers(g, S)
    PROVE  IInv'
  <1> DEFINE i == <<g, "dht">>  t == [task[i] EXCEPT !.at = "found", !.todo = S]
  <1>0. i \in Instances /\ i[2] # "bootstrap"
    BY DhtInstance
  <1>1. task[i] \in Works /\ task[i].report = {} /\ Active(i)
    BY <1>0, WorkOf, NoReport DEF closest_peers, Active
  <1>2. swarm' \in [Starts -> {"none", "mutex", "task"}]
    BY DEF closest_peers, IInv, Types, MechanismTypes
  <1>3. t \in Works /\ t.report = {} /\ task' = [task EXCEPT ![i] = t]
    BY <1>1, Constants DEF closest_peers, SetTask, Works, Locations
  <1>4. UNCHANGED <<manager, flag, worker, queue, cache, reported, channels>>
    BY DEF closest_peers
  <1> HIDE DEF t, i
  <1> QED
    BY <1>0, <1>1, <1>2, <1>3, <1>4, PlainStep

LEMMA ClosestNextKept ==
    ASSUME IInv, NEW g \in Starts, closest_next(g)
    PROVE  IInv'
  <1> DEFINE i == <<g, "dht">>
  <1>0. i \in Instances /\ i[2] = "dht" /\ i[2] # "bootstrap"
    BY DhtInstance
  <1>1. /\ task[i] \in Works /\ task[i].at # "send" /\ Active(i) /\ task[i].report = {}
        /\ task[i].todo \subseteq Known
    BY <1>0, WorkOf, NoReport DEF closest_next, Active
  <1>2. UNCHANGED <<manager, flag, worker, queue, swarm, reported, channels>>
    BY DEF closest_next
  <1>3. CASE \E p \in task[i].todo :
                /\ Store(i, {p})
                /\ SetTask(i, [Report(i, {p}, "found") EXCEPT !.todo = @ \ {p}])
    <2> PICK p \in task[i].todo :
                /\ Store(i, {p})
                /\ SetTask(i, [Report(i, {p}, "found") EXCEPT !.todo = @ \ {p}])
      BY <1>3
    <2> DEFINE t == [Report(i, {p}, "found") EXCEPT !.todo = @ \ {p}]
    <2>1. {p} \in SUBSET Known
      BY <1>1
    <2>2. t \in Works /\ t.at = "send" /\ t.report = {p} /\ task' = [task EXCEPT ![i] = t]
      BY <1>1, <2>1 DEF SetTask, Report, Works, Locations
    <2> HIDE DEF t, i
    <2> QED
      BY <1>0, <1>1, <1>2, <2>1, <2>2, EnterStep
  <1>4. CASE TaskTo(i, Onward(i, "poll")) /\ cache' = cache
    <2> DEFINE a == Onward(i, "poll")  t == [task[i] EXCEPT !.at = a]
    <2>1. a \in Locations
      BY <1>0, OnwardFacts DEF Locations
    <2> HIDE DEF a
    <2>2. t \in Works /\ t.report = {} /\ task' = [task EXCEPT ![i] = t]
      BY <1>1, <1>4, <2>1 DEF TaskTo, Works, a
    <2>3. swarm' \in [Starts -> {"none", "mutex", "task"}]
      BY <1>2 DEF IInv, Types, MechanismTypes
    <2> HIDE DEF t, i
    <2> QED
      BY <1>0, <1>1, <1>2, <1>4, <2>2, <2>3, PlainStep
  <1> QED
    BY <1>3, <1>4 DEF closest_next

LEMMA QueryDoneKept ==
    ASSUME IInv, NEW g \in Starts, NEW q, query_done(g, q)
    PROVE  IInv'
  <1> DEFINE i == <<g, "dht">>  a == Onward(i, "poll")  t == [task[i] EXCEPT !.at = a]
  <1>0. i \in Instances /\ i[2] # "bootstrap"
    BY DhtInstance
  <1>1. task[i] \in Works /\ task[i].report = {} /\ Active(i)
    BY <1>0, WorkOf, NoReport DEF query_done, Active
  <1>2. swarm' \in [Starts -> {"none", "mutex", "task"}]
    BY DEF query_done, IInv, Types, MechanismTypes
  <1>3. a \in Locations
    BY <1>0, OnwardFacts DEF Locations
  <1>4. task' = [task EXCEPT ![i].at = a]
    BY DEF query_done, TaskTo
  <1>5. UNCHANGED <<manager, flag, worker, queue, cache, reported, channels>>
    BY DEF query_done
  <1> HIDE DEF a
  <1>6. t \in Works /\ t.report = {} /\ task' = [task EXCEPT ![i] = t]
    BY <1>1, <1>3, <1>4 DEF Works
  <1> HIDE DEF t, i
  <1> QED
    BY <1>0, <1>1, <1>2, <1>5, <1>6, PlainStep

-----------------------------------------------------------------------------
(* The refresh task of the bootstrap mechanism *)

LEMMA BootstrapInstance ==
    ASSUME NEW g \in Starts
    PROVE  <<g, "bootstrap">> \in Instances /\ <<g, "bootstrap">>[2] = "bootstrap"
  BY InstanceFacts, Constants

LEMMA AfterNodeLocation == \A i \in Instances : AfterNode(i) \in {"dial", "expire"}
  BY DEF AfterNode

LEMMA RefreshKept ==
    ASSUME IInv, NEW g \in Starts, refresh(g)
    PROVE  IInv'
  <1> DEFINE i == <<g, "bootstrap">>
             a == IF BootstrapNodes = 0 THEN "expire" ELSE "dial"
             t == [task[i] EXCEPT !.at = a, !.left = BootstrapNodes]
  <1>0. i \in Instances
    BY BootstrapInstance
  <1>1. task[i] \in Works /\ task[i].report = {} /\ Active(i) /\ task[i].at # "remove"
    BY <1>0, WorkOf, NoReport DEF refresh, Active
  <1>2. swarm' \in [Starts -> {"none", "mutex", "task"}]
    BY DEF refresh, IInv, Types, MechanismTypes
  <1>3. a \in Locations
    BY DEF Locations
  <1>4. SetTask(i, t)
    BY DEF refresh
  <1> HIDE DEF a
  <1>5. t \in Works /\ t.report = {} /\ t.todo = task[i].todo /\ task' = [task EXCEPT ![i] = t]
    <2>1. BootstrapNodes \in Int
      BY Constants
    <2> QED
      BY <1>1, <1>3, <1>4, <2>1 DEF SetTask, Works
  <1>6. UNCHANGED <<manager, flag, worker, queue, cache, reported, channels>>
    BY DEF refresh
  <1> HIDE DEF t, i
  <1> QED
    BY <1>0, <1>1, <1>2, <1>5, <1>6, PlainStep

LEMMA ConnectedKept ==
    ASSUME IInv, NEW g \in Starts, NEW p \in Peers,
           bootstrap_connected(g, p) \/ bootstrap_identified(g, p)
    PROVE  IInv'
  <1> DEFINE i == <<g, "bootstrap">>
  <1>0. i \in Instances /\ p \in Known
    BY BootstrapInstance, Constants
  <1>1. task[i] \in Works /\ task[i].report = {} /\ Active(i) /\ task[i].at # "remove"
    BY <1>0, WorkOf, NoReport DEF bootstrap_connected, bootstrap_identified, Active
  <1>2. swarm' \in [Starts -> {"none", "mutex", "task"}]
    BY DEF bootstrap_connected, bootstrap_identified, IInv, Types, MechanismTypes
  <1>3. PICK b \in {"insert", "dial"} : SetTask(i, [Report(i, {p}, b) EXCEPT !.todo = @ \cup {p}])
    BY DEF bootstrap_connected, bootstrap_identified
  <1> DEFINE t == [Report(i, {p}, b) EXCEPT !.todo = @ \cup {p}]
  <1>4. /\ t \in Works /\ t.at = "send" /\ t.report = {p} /\ t.todo = task[i].todo \cup {p}
        /\ task' = [task EXCEPT ![i] = t]
    BY <1>0, <1>1, <1>3 DEF SetTask, Report, Works, Locations
  <1>5. UNCHANGED <<manager, flag, worker, queue, cache, reported, channels>>
    BY DEF bootstrap_connected, bootstrap_identified
  <1> HIDE DEF t, i
  <1> QED
    BY <1>0, <1>1, <1>2, <1>4, <1>5, PlainStep

LEMMA FailedKept ==
    ASSUME IInv, NEW g \in Starts, bootstrap_failed(g)
    PROVE  IInv'
  <1> DEFINE i == <<g, "bootstrap">>  a == AfterNode(i)
             t == [Report(i, {}, a) EXCEPT !.todo = {}, !.left = @ - 1]
  <1>0. i \in Instances
    BY BootstrapInstance
  <1>1. task[i] \in Works /\ task[i].report = {} /\ Active(i) /\ task[i].left \in Int
    BY <1>0, WorkOf, NoReport DEF bootstrap_failed, Active
  <1>2. swarm' \in [Starts -> {"none", "mutex", "task"}]
    BY DEF bootstrap_failed, IInv, Types, MechanismTypes
  <1>3. a \in Locations
    BY <1>0, AfterNodeLocation DEF Locations
  <1>4. SetTask(i, t)
    BY DEF bootstrap_failed
  <1> HIDE DEF a
  <1>5. t \in Works /\ t.at = "send" /\ t.report = {} /\ t.todo = {} /\ task' = [task EXCEPT ![i] = t]
    <2> DEFINE n == task[i].left - 1
    <2>1. n \in Int
      BY <1>1
    <2>2. SetTask(i, t) /\ t = [Report(i, {}, a) EXCEPT !.todo = {}, !.left = n]
      BY <1>1, <1>4 DEF Report, Works
    <2> HIDE DEF n, t
    <2> QED
      BY <1>1, <1>3, <2>1, <2>2 DEF SetTask, Report, Works, Locations
  <1>6. UNCHANGED <<manager, flag, worker, queue, cache, reported, channels>>
    BY DEF bootstrap_failed
  <1> HIDE DEF t, i
  <1> QED
    BY <1>0, <1>1, <1>2, <1>5, <1>6, PlainStep

LEMMA InsertKept ==
    ASSUME IInv, NEW g \in Starts, bootstrap_insert(g)
    PROVE  IInv'
  <1> DEFINE i == <<g, "bootstrap">>  a == AfterNode(i)
             t == [task[i] EXCEPT !.at = a, !.todo = {}, !.left = @ - 1]
  <1>0. i \in Instances
    BY BootstrapInstance
  <1>1. /\ task[i] \in Works /\ task[i].report = {} /\ Active(i) /\ task[i].left \in Int
        /\ task[i].at = "insert" /\ task[i].todo \in SUBSET Known
    BY <1>0, WorkOf, NoReport DEF bootstrap_insert, Active
  <1>2. /\ chan' \in [Instances -> 0..EventCapacity] /\ accepted' \in 0..MaxEvents
        /\ swarm' \in [Starts -> {"none", "mutex", "task"}]
        /\ reported' \in [Mechanisms -> SUBSET Known]
    BY DEF bootstrap_insert, IInv, Types, MechanismTypes, channels
  <1>3. a \in Locations
    BY <1>0, AfterNodeLocation DEF Locations
  <1>4. SetTask(i, t) /\ Store(i, task[i].todo) /\ UNCHANGED <<manager, flag, worker, queue, reported>>
    BY DEF bootstrap_insert
  <1> HIDE DEF a
  <1>5. t \in Works /\ t.at = a /\ t.report = {} /\ t.todo = {} /\ task' = [task EXCEPT ![i] = t]
    <2> DEFINE n == task[i].left - 1
    <2>1. n \in Int
      BY <1>1
    <2>2. SetTask(i, t) /\ t = [task[i] EXCEPT !.at = a, !.todo = {}, !.left = n]
      BY <1>1, <1>4 DEF Works
    <2> HIDE DEF n, t
    <2> QED
      BY <1>1, <1>3, <2>1, <2>2 DEF SetTask, Works
  <1> HIDE DEF t
  <1>6. /\ cache' \in [Mechanisms -> [Known -> {"absent", "fresh", "stale"}]]
        /\ IsCurrent(i) \/ cache' = cache
        /\ \A m \in Mechanisms : m # i[2] => cache'[m] = cache[m]
        /\ IsCurrent(i) => \A p \in Known :
              cache'[i[2]][p] = IF p \in task[i].todo THEN "fresh" ELSE cache[i[2]][p]
    BY <1>0, <1>1, <1>4, PutTypes DEF Store, IInv
  <1>7. ASSUME IsCurrent(i), flag[i] PROVE Honest(i)'
    <2>1. task'[i] = t
      BY <1>0, <1>5 DEF IInv, Types, MechanismTypes
    <2>2. Honest(i) /\ i[2] = "bootstrap"
      BY <1>0, BootstrapInstance DEF IInv, AnswerInv
    <2>3. lookup_peer(i[2]) \subseteq Said(i) /\ task[i].todo \subseteq Said(i)
      BY <1>1, <1>7, <2>2 DEF Honest
    <2>4. lookup_peer(i[2])' \subseteq lookup_peer(i[2]) \cup task[i].todo
      BY <1>6, <1>7 DEF lookup_peer
    <2>5. Said(i)' = Said(i)
      BY <1>1, <1>4, <1>5, <2>1 DEF Said
    <2>6. task'[i].todo = {}
      BY <1>5, <2>1
    <2> HIDE DEF i
    <2> QED
      BY <2>3, <2>4, <2>5, <2>6 DEF Honest
  <1> HIDE DEF i
  <1> QED
    BY <1>0, <1>1, <1>2, <1>4, <1>5, <1>6, <1>7, TaskStep

LEMMA ExpireListKept ==
    ASSUME IInv, NEW g \in Starts, expire_list(g)
    PROVE  IInv'
  <1> DEFINE i == <<g, "bootstrap">>
             S == IF ~IsCurrent(i) THEN {} ELSE {p \in Known : cache[i[2]][p] = "stale"}
             t == [task[i] EXCEPT !.at = "remove", !.todo = S]
  <1>0. i \in Instances /\ S \in SUBSET Known
    BY BootstrapInstance
  <1>1. task[i] \in Works /\ task[i].report = {} /\ Active(i)
    BY <1>0, WorkOf, NoReport DEF expire_list, Active
  <1>2. swarm' \in [Starts -> {"none", "mutex", "task"}]
    BY DEF expire_list, IInv, Types, MechanismTypes
  <1>3. SetTask(i, t)
    BY DEF expire_list
  <1> HIDE DEF S
  <1>4. t \in Works /\ t.at = "remove" /\ t.report = {} /\ task' = [task EXCEPT ![i] = t]
    BY <1>0, <1>1, <1>3 DEF SetTask, Works, Locations
  <1>5. UNCHANGED <<manager, flag, worker, queue, cache, reported, channels>>
    BY DEF expire_list
  <1> HIDE DEF t, i
  <1> QED
    BY <1>0, <1>1, <1>2, <1>4, <1>5, PlainStep

LEMMA ExpireRemoveKept ==
    ASSUME IInv, NEW g \in Starts, expire_remove(g)
    PROVE  IInv'
  <1> DEFINE i == <<g, "bootstrap">>  n == Cardinality(task[i].todo)
             k == IF n < Room(i) THEN n ELSE Room(i)
             t == [task[i] EXCEPT !.at = "tick", !.todo = {}]
  <1>0. i \in Instances
    BY BootstrapInstance
  <1>1. /\ task[i] \in Works /\ task[i].report = {} /\ Active(i)
        /\ task[i].at = "remove" /\ task[i].todo \in SUBSET Known
    BY <1>0, WorkOf, NoReport DEF expire_remove, Active
  <1>2. k \in Nat /\ k <= Room(i)
    <2>1. n \in Nat
      BY <1>1, FiniteKnown
    <2>2. Room(i) \in Nat
      BY <1>0, RoomFacts
    <2> HIDE DEF n
    <2> QED
      BY <2>1, <2>2
  <1>3. /\ SetTask(i, t) /\ Put(i, task[i].todo, "absent") /\ Accept(i, k)
        /\ UNCHANGED <<manager, flag, swarm, worker, queue, reported>>
    BY DEF expire_remove
  <1> HIDE DEF k
  <1>4. t \in Works /\ t.at = "tick" /\ t.report = {} /\ t.todo = {} /\ task' = [task EXCEPT ![i] = t]
    BY <1>1, <1>3 DEF SetTask, Works, Locations
  <1> HIDE DEF t
  <1>5. chan' \in [Instances -> 0..EventCapacity] /\ accepted' \in 0..MaxEvents
    BY <1>0, <1>2, <1>3, AcceptTypes
  <1>6. /\ cache' \in [Mechanisms -> [Known -> {"absent", "fresh", "stale"}]]
        /\ IsCurrent(i) \/ cache' = cache
        /\ \A m \in Mechanisms : m # i[2] => cache'[m] = cache[m]
        /\ IsCurrent(i) => \A p \in Known :
              cache'[i[2]][p] = IF p \in task[i].todo THEN "absent" ELSE cache[i[2]][p]
    BY <1>0, <1>1, <1>3, PutTypes DEF IInv
  <1>7. /\ swarm' \in [Starts -> {"none", "mutex", "task"}]
        /\ reported' \in [Mechanisms -> SUBSET Known]
    BY <1>3 DEF IInv, Types, MechanismTypes
  <1>8. ASSUME IsCurrent(i), flag[i] PROVE Honest(i)'
    <2>1. task'[i] = t
      BY <1>0, <1>4 DEF IInv, Types, MechanismTypes
    <2>2. Honest(i)
      BY <1>0 DEF IInv, AnswerInv
    <2>3. lookup_peer(i[2]) \subseteq Said(i)
      BY <1>8, <2>2 DEF Honest
    <2>4. lookup_peer(i[2])' \subseteq lookup_peer(i[2])
      BY <1>6, <1>8 DEF lookup_peer
    <2>5. Said(i)' = Said(i)
      BY <1>1, <1>3, <1>4, <2>1 DEF Said
    <2>6. task'[i].todo = {}
      BY <1>4, <2>1
    <2> HIDE DEF i
    <2> QED
      BY <2>3, <2>4, <2>5, <2>6 DEF Honest
  <1> HIDE DEF i
  <1> QED
    BY <1>0, <1>1, <1>3, <1>4, <1>5, <1>6, <1>7, <1>8, TaskStep

-----------------------------------------------------------------------------
(* Steps that leave the tasks and the flags alone *)

LEMMA AnswerSame ==
    ASSUME AnswerInv, UNCHANGED <<current, flag, task, reported>>,
           \A m \in Mechanisms : lookup_peer(m)' \subseteq lookup_peer(m) \cup {Self}
    PROVE  AnswerInv'
  <1> SUFFICES ASSUME NEW i \in Instances PROVE Honest(i)' /\ Quiet(i)'
    BY DEF AnswerInv
  <1>1. Honest(i) /\ Quiet(i)
    BY DEF AnswerInv
  <1>2. Quiet(i)'
    BY <1>1 DEF Quiet
  <1>3. lookup_peer(i[2])' \subseteq lookup_peer(i[2]) \cup {Self}
    BY InstanceFacts
  <1>4. Said(i)' = Said(i) /\ Self \in Said(i)
    BY DEF Said
  <1>5. Honest(i)'
    BY <1>1, <1>3, <1>4 DEF Honest, IsCurrent
  <1> QED
    BY <1>2, <1>5

\* A step of the world around: time, the worker, a reader of the manager's events
LEMMA OutsideStep ==
    ASSUME IInv, UNCHANGED <<manager, flag, task, swarm, accepted, reported>>,
           chan' \in [Instances -> 0..EventCapacity],
           cache' \in [Mechanisms -> [Known -> {"absent", "fresh", "stale"}]],
           \A m \in Mechanisms : lookup_peer(m)' \subseteq lookup_peer(m) \cup {Self},
           WorkerTypes'
    PROVE  IInv'
  <1>1. Types'
    <2>1. ManagerTypes'
      BY DEF IInv, Types, ManagerTypes, manager
    <2>2. MechanismTypes'
      BY DEF IInv, Types, MechanismTypes
    <2> QED
      BY <2>1, <2>2 DEF Types
  <1>2. StageInv'
    BY StageKept DEF IInv
  <1>3. AnswerInv'
    <2>1. UNCHANGED <<current, flag, task, reported>>
      BY DEF manager
    <2> QED
      BY <2>1, AnswerSame DEF IInv
  <1> QED
    BY <1>1, <1>2, <1>3 DEF IInv

LEMMA SameLookup ==
    ASSUME UNCHANGED cache
    PROVE  \A m \in Mechanisms : lookup_peer(m)' \subseteq lookup_peer(m) \cup {Self}
  BY DEF lookup_peer

LEMMA AgeKept ==
    ASSUME IInv, NEW p \in Known, Age(p)
    PROVE  IInv'
  <1>1. cache \in [Mechanisms -> [Known -> {"absent", "fresh", "stale"}]] /\ "bootstrap" \in Mechanisms
    BY Constants DEF IInv, Types, MechanismTypes
  <1>2. cache' = [cache EXCEPT !["bootstrap"] = [@ EXCEPT ![p] = "stale"]]
    BY DEF Age
  <1>3. cache' \in [Mechanisms -> [Known -> {"absent", "fresh", "stale"}]]
    BY <1>1, <1>2
  <1>4. \A m \in Mechanisms : lookup_peer(m)' \subseteq lookup_peer(m) \cup {Self}
    <2> SUFFICES ASSUME NEW m \in Mechanisms, NEW q \in Known, cache'[m][q] # "absent"
                 PROVE  cache[m][q] # "absent"
      BY DEF lookup_peer
    <2> QED
      BY <1>1, <1>2 DEF Age
  <1>5. UNCHANGED <<manager, flag, task, swarm, accepted, reported>> /\ chan' = chan
    BY DEF Age, channels
  <1>6. WorkerTypes' /\ chan' \in [Instances -> 0..EventCapacity]
    BY <1>5 DEF Age, IInv, Types, WorkerTypes, MechanismTypes
  <1> QED
    BY <1>3, <1>4, <1>5, <1>6, OutsideStep

LEMMA WorkerKept ==
    ASSUME IInv, NEW g \in Starts, Worker(g)
    PROVE  IInv'
  <1>1. UNCHANGED <<manager, flag, task, swarm, accepted, reported, cache>>
    BY DEF Worker, worker_check, worker_timeout, worker_send, worker_take, channels, WorkerEnds, Drop
  <1>2. \A m \in Mechanisms : lookup_peer(m)' \subseteq lookup_peer(m) \cup {Self}
    BY <1>1, SameLookup
  <1>3. cache' \in [Mechanisms -> [Known -> {"absent", "fresh", "stale"}]]
    BY <1>1 DEF IInv, Types, MechanismTypes
  <1>4. chan' \in [Instances -> 0..EventCapacity]
    <2>1. chan \in [Instances -> 0..EventCapacity]
      BY DEF IInv, Types, MechanismTypes
    <2>2. CASE \E m \in Mechanisms : worker_take(g, m)
      <3> PICK m \in Mechanisms : worker_take(g, m)
        BY <2>2
      <3>1. <<g, m>> \in Instances
        BY InstanceFacts
      <3>2. chan[<<g, m>>] - 1 \in 0..EventCapacity
        BY <2>1, <3>1, Constants DEF worker_take
      <3> QED
        BY <2>1, <3>2 DEF worker_take
    <2>3. CASE UNCHANGED chan
      BY <2>1, <2>3
    <2>4. CASE \E S : Drop(S)
      BY <2>4, DropTypes
    <2>5. worker_check(g) \/ worker_timeout(g) \/ worker_send(g) => UNCHANGED chan \/ \E S : Drop(S)
      BY DEF worker_check, worker_timeout, worker_send, channels, WorkerEnds
    <2> QED
      BY <2>2, <2>3, <2>4, <2>5 DEF Worker
  <1>5. WorkerTypes'
    <2>1. worker \in [Starts -> {"none", "check", "select", "send", "gone"}] /\ queue \in 0..ManagerCapacity
      BY DEF IInv, Types, WorkerTypes
    <2>2. PICK a \in {"check", "select", "send", "gone"} : worker' = [worker EXCEPT ![g] = a]
      BY DEF Worker, worker_check, worker_timeout, worker_send, worker_take, WorkerTo, WorkerEnds
    <2>3. queue' \in 0..ManagerCapacity
      <3>1. queue' = queue \/ (queue < ManagerCapacity /\ queue' = queue + 1)
        BY DEF Worker, worker_check, worker_timeout, worker_send, worker_take
      <3> QED
        BY <2>1, <3>1, Constants
    <2> QED
      BY <2>1, <2>2, <2>3 DEF WorkerTypes
  <1> QED
    BY <1>1, <1>2, <1>3, <1>4, <1>5, OutsideStep

LEMMA NextEventKept ==
    ASSUME IInv, next_event
    PROVE  IInv'
  <1>1. UNCHANGED <<manager, flag, task, swarm, accepted, reported, cache, chan, worker>>
    BY DEF next_event, mechs, channels
  <1>2. \A m \in Mechanisms : lookup_peer(m)' \subseteq lookup_peer(m) \cup {Self}
    BY <1>1, SameLookup
  <1>3. /\ cache' \in [Mechanisms -> [Known -> {"absent", "fresh", "stale"}]]
        /\ chan' \in [Instances -> 0..EventCapacity]
    BY <1>1 DEF IInv, Types, MechanismTypes
  <1>4. WorkerTypes'
    <2>1. queue \in 0..ManagerCapacity
      BY DEF IInv, Types, WorkerTypes
    <2>2. queue' \in 0..ManagerCapacity
      BY <2>1, Constants DEF next_event
    <2> QED
      BY <1>1, <2>2 DEF IInv, Types, WorkerTypes
  <1> QED
    BY <1>1, <1>2, <1>3, <1>4, OutsideStep

LEMMA StutterKept ==
    ASSUME IInv, UNCHANGED vars
    PROVE  IInv'
  <1>1. UNCHANGED <<manager, flag, task, swarm, accepted, reported, cache, chan, worker, queue>>
    BY DEF vars, mechs, channels
  <1>2. \A m \in Mechanisms : lookup_peer(m)' \subseteq lookup_peer(m) \cup {Self}
    BY <1>1, SameLookup
  <1>3. /\ cache' \in [Mechanisms -> [Known -> {"absent", "fresh", "stale"}]]
        /\ chan' \in [Instances -> 0..EventCapacity]
    BY <1>1 DEF IInv, Types, MechanismTypes
  <1>4. WorkerTypes'
    BY <1>1 DEF IInv, Types, WorkerTypes
  <1> QED
    BY <1>1, <1>2, <1>3, <1>4, OutsideStep

-----------------------------------------------------------------------------
(* Calls of the manager *)

\* The step changes nothing that is alive
LEMMA SameAlive ==
    ASSUME UNCHANGED <<task, flag>>
    PROVE  (\A i \in Instances : Alive(i)' <=> Alive(i)) /\ (NoneAlive' <=> NoneAlive)
  BY DEF Alive, Active, NoneAlive

\* Between calls and at the start of a stop
LEMMA RestStage ==
    ASSUME StageInv, ctl \in AtRest, ctl' \in AtRest,
           UNCHANGED <<enabled, starts, current, running, aborted, flag, task>>
    PROVE  StageInv'
  <1>1. Stages'
    BY DEF StageInv, Stages, AtRest, Starting
  <1>2. ASSUME ~aborted' PROVE Living'
    <2>1. Living
      BY <1>2 DEF StageInv
    <2>2. \A m \in enabled : Up(m) => Up(m)'
      BY DEF Up
    <2> QED
      BY <2>1, <2>2, SameAlive DEF Living, AtRest
  <1>3. Untouched'
    BY DEF StageInv, Untouched, ToCome, AtRest
  <1> QED
    BY <1>1, <1>2, <1>3 DEF StageInv

LEMMA CallTypes ==
    ASSUME ManagerTypes, ctl' \in Places, UNCHANGED <<enabled, starts, current, aborted>>,
           running' \in BOOLEAN, calls' = calls \/ Call
    PROVE  ManagerTypes'
  <1>1. starts \in Nat /\ calls \in Nat /\ starts + calls <= MaxCalls /\ MaxCalls \in Nat
    BY Constants DEF ManagerTypes
  <1>2. calls' \in Nat /\ starts + calls' <= MaxCalls
    BY <1>1 DEF Call
  <1>3. starts' \in Nat /\ starts' + calls' <= MaxCalls
    BY <1>1, <1>2
  <1>4. enabled' \subseteq Mechanisms /\ enabled' # {} /\ current' \in [Mechanisms -> 0..MaxCalls]
    BY DEF ManagerTypes
  <1>5. aborted' \in BOOLEAN
    BY DEF ManagerTypes
  <1> QED
    BY <1>2, <1>3, <1>4, <1>5 DEF ManagerTypes

\* A call that only moves on, or enters this node in a cache
LEMMA CallStep ==
    ASSUME IInv, ctl \in AtRest, ctl' \in AtRest, calls' = calls \/ Call,
           UNCHANGED <<enabled, starts, current, running, aborted, flag, task, swarm, channels,
                       reported, worker, queue>>,
           cache' \in [Mechanisms -> [Known -> {"absent", "fresh", "stale"}]],
           \A m \in Mechanisms : lookup_peer(m)' \subseteq lookup_peer(m) \cup {Self}
    PROVE  IInv'
  <1>1. Types'
    <2>1. ManagerTypes'
      <3>1. running' \in BOOLEAN
        BY DEF IInv, Types, ManagerTypes
      <3>2. ctl' \in Places
        BY DEF AtRest, Places
      <3> QED
        BY <3>1, <3>2, CallTypes DEF IInv, Types
    <2>2. MechanismTypes' /\ WorkerTypes'
      BY DEF IInv, Types, MechanismTypes, WorkerTypes, channels
    <2> QED
      BY <2>1, <2>2 DEF Types
  <1>2. StageInv'
    BY RestStage DEF IInv
  <1>3. AnswerInv'
    BY AnswerSame DEF IInv
  <1> QED
    BY <1>1, <1>2, <1>3 DEF IInv

LEMMA CurrentInstance ==
    ASSUME IInv, NEW m \in Mechanisms, Has(m)
    PROVE  Current(m) \in Instances /\ Current(m)[1] = current[m] /\ Current(m)[2] = m
  <1>1. current[m] \in Starts
    BY Constants DEF IInv, Types, ManagerTypes, Has
  <1> QED
    BY <1>1, InstanceFacts DEF Current

\* Storing this node for a mechanism the manager has
LEMMA StoreSelf ==
    ASSUME IInv, NEW m \in Mechanisms, Has(m), Store(Current(m), {Self})
    PROVE  /\ cache' \in [Mechanisms -> [Known -> {"absent", "fresh", "stale"}]]
           /\ \A n \in Mechanisms : lookup_peer(n)' \subseteq lookup_peer(n) \cup {Self}
  <1> DEFINE i == Current(m)
  <1>1. i \in Instances /\ i[2] = m
    BY CurrentInstance
  <1>2. {Self} \in SUBSET Known
    BY Constants
  <1>3. Put(i, {Self}, "fresh")
    BY DEF Store
  <1> HIDE DEF i
  <1>4. /\ cache' \in [Mechanisms -> [Known -> {"absent", "fresh", "stale"}]]
        /\ IsCurrent(i) \/ cache' = cache
        /\ \A n \in Mechanisms : n # i[2] => cache'[n] = cache[n]
        /\ IsCurrent(i) => \A p \in Known :
              cache'[i[2]][p] = IF p \in {Self} THEN "fresh" ELSE cache[i[2]][p]
    BY <1>1, <1>2, <1>3, PutTypes DEF IInv
  <1>5. \A n \in Mechanisms : lookup_peer(n)' \subseteq lookup_peer(n) \cup {Self}
    BY <1>1, <1>4 DEF lookup_peer
  <1> QED
    BY <1>4, <1>5

LEMMA SameCache ==
    ASSUME IInv, UNCHANGED cache
    PROVE  /\ cache' \in [Mechanisms -> [Known -> {"absent", "fresh", "stale"}]]
           /\ \A m \in Mechanisms : lookup_peer(m)' \subseteq lookup_peer(m) \cup {Self}
  BY SameLookup DEF IInv, Types, MechanismTypes

LEMMA AnnounceKept ==
    ASSUME IInv, Announce
    PROVE  IInv'
  <1>1. CASE announce_dht
    <2>1. /\ cache' \in [Mechanisms -> [Known -> {"absent", "fresh", "stale"}]]
          /\ \A m \in Mechanisms : lookup_peer(m)' \subseteq lookup_peer(m) \cup {Self}
      <3>1. CASE UNCHANGED cache
        BY <3>1, SameCache
      <3>2. CASE Has("dht") /\ Store(Current("dht"), {Self})
        BY <3>2, Constants, StoreSelf
      <3> QED
        BY <1>1, <3>1, <3>2 DEF announce_dht
    <2>2. ctl \in AtRest /\ ctl' \in AtRest /\ Call
      BY <1>1 DEF announce_dht, AtRest
    <2>3. UNCHANGED <<enabled, starts, current, running, aborted, flag, task, swarm, channels,
                      reported, worker, queue>>
      BY <1>1 DEF announce_dht
    <2> QED
      BY <2>1, <2>2, <2>3, CallStep
  <1>2. CASE announce_bootstrap
    <2>1. /\ cache' \in [Mechanisms -> [Known -> {"absent", "fresh", "stale"}]]
          /\ \A m \in Mechanisms : lookup_peer(m)' \subseteq lookup_peer(m) \cup {Self}
      BY <1>2, Constants, StoreSelf, SameCache DEF announce_bootstrap
    <2>2. ctl \in AtRest /\ ctl' \in AtRest /\ calls' = calls
      BY <1>2 DEF announce_bootstrap, AtRest
    <2>3. UNCHANGED <<enabled, starts, current, running, aborted, flag, task, swarm, channels,
                      reported, worker, queue>>
      BY <1>2 DEF announce_bootstrap
    <2> QED
      BY <2>1, <2>2, <2>3, CallStep
  <1> QED
    BY <1>1, <1>2 DEF Announce

LEMMA QueryKept ==
    ASSUME IInv, dht_lookup \/ dht_find
    PROVE  IInv'
  <1>1. dht_query
    BY DEF dht_lookup, dht_find
  <1>2. ctl \in AtRest /\ ctl' \in AtRest /\ Call /\ UNCHANGED cache
    BY <1>1 DEF dht_query, AtRest
  <1>3. UNCHANGED <<enabled, starts, current, running, aborted, flag, task, swarm, channels,
                    reported, worker, queue>>
    BY <1>1 DEF dht_query
  <1> QED
    BY <1>2, <1>3, SameCache, CallStep

-----------------------------------------------------------------------------
(* Starting *)

\* A step of start or stop that touches no mechanism
LEMMA QuietStep ==
    ASSUME IInv, ManagerTypes', WorkerTypes', StageInv', UNCHANGED <<current, mechs>>
    PROVE  IInv'
  <1>1. MechanismTypes'
    BY DEF IInv, Types, MechanismTypes, mechs, channels
  <1>2. \A m \in Mechanisms : lookup_peer(m)' \subseteq lookup_peer(m) \cup {Self}
    BY SameLookup DEF mechs
  <1>3. AnswerInv'
    BY <1>2, AnswerSame DEF IInv, mechs
  <1> QED
    BY <1>1, <1>3 DEF IInv, Types

LEMMA SameWorker ==
    ASSUME IInv, UNCHANGED <<worker, queue>>
    PROVE  WorkerTypes'
  BY DEF IInv, Types, WorkerTypes

LEMMA StartsFacts ==
    ASSUME IInv
    PROVE  /\ starts \in Nat /\ starts <= MaxCalls /\ MaxCalls \in Nat
           /\ starts >= 1 => starts \in Starts
           /\ \A i \in Instances : i[1] \in Nat
           /\ \A m \in Mechanisms : current[m] \in 0..MaxCalls
  <1>1. starts \in Nat /\ calls \in Nat /\ starts + calls <= MaxCalls /\ MaxCalls \in Nat
    BY Constants DEF IInv, Types, ManagerTypes
  <1>2. \A i \in Instances : i[1] \in Nat
    BY InstanceFacts, Constants
  <1>3. \A m \in Mechanisms : current[m] \in 0..MaxCalls
    BY DEF IInv, Types, ManagerTypes
  <1> QED
    BY <1>1, <1>2, <1>3, Constants

LEMMA StartKept ==
    ASSUME IInv, start
    PROVE  IInv'
  <1>1. UNCHANGED <<enabled, current, running, aborted, calls, worker, queue, mechs, flag, task>>
    BY DEF start, mechs
  <1>2. ctl = "idle" /\ ~running /\ starts' = starts + 1 /\ starts + calls < MaxCalls
    BY DEF start
  <1>3. ctl' \in {"start_dht", "start_bootstrap"} /\ (ctl' = "start_dht" <=> "dht" \in enabled)
    BY DEF start
  <1>4. enabled \subseteq Mechanisms /\ enabled # {}
    BY DEF IInv, Types, ManagerTypes
  <1>5. ManagerTypes'
    <2>1. starts \in Nat /\ calls \in Nat /\ MaxCalls \in Nat
      BY StartsFacts DEF IInv, Types, ManagerTypes
    <2>2. starts' \in Nat /\ calls' \in Nat /\ starts' + calls' <= MaxCalls
      BY <1>1, <1>2, <2>1
    <2>3. current' \in [Mechanisms -> 0..MaxCalls] /\ running' \in BOOLEAN /\ aborted' \in BOOLEAN
      BY <1>1 DEF IInv, Types, ManagerTypes
    <2> QED
      BY <1>1, <1>3, <1>4, <2>2, <2>3 DEF ManagerTypes, Places
  <1>6. Stages'
    <2>1. starts' >= 1 /\ \A m \in Mechanisms : current'[m] <= starts'
      BY <1>1, <1>2, StartsFacts DEF IInv, StageInv, Stages
    <2>2. ctl' = "start_bootstrap" => "bootstrap" \in enabled
      BY <1>3, <1>4, Constants
    <2> QED
      BY <1>1, <1>2, <1>3, <2>1, <2>2 DEF Stages, Starting
  <1>7. ASSUME ~aborted' PROVE Living'
    <2>1. NoneAlive
      BY <1>1, <1>2, <1>7 DEF IInv, StageInv, Living, AtRest
    <2>2. NoneAlive'
      BY <1>1, <2>1, SameAlive
    <2> QED
      BY <1>1, <1>3, <2>2 DEF Living, NoneAlive, AtRest
  <1>8. Untouched'
    <2> SUFFICES ASSUME NEW i \in Instances, ToCome(i)' PROVE (task[i] = NoTask /\ ~flag[i])'
      BY DEF Untouched
    <2>1. i[1] > starts
      BY <1>2, StartsFacts DEF ToCome
    <2> QED
      BY <1>1, <2>1 DEF IInv, StageInv, Untouched, ToCome
  <1>9. StageInv'
    BY <1>6, <1>7, <1>8 DEF StageInv
  <1> QED
    BY <1>1, <1>5, <1>9, SameWorker, QuietStep

LEMMA StartFailsKept ==
    ASSUME IInv, dht_fails \/ bootstrap_fails
    PROVE  IInv'
  <1>1. UNCHANGED <<enabled, starts, current, running, calls, worker, queue, mechs, flag, task>>
    BY DEF dht_fails, bootstrap_fails, mechs
  <1>2. ctl' = "idle" /\ ctl \in {"start_dht", "start_bootstrap"} /\ (~aborted' => ~aborted)
    <2>1. ctl' = "idle" /\ ctl \in {"start_dht", "start_bootstrap"}
      BY DEF dht_fails, bootstrap_fails
    <2>2. CASE dht_fails
      BY <2>1, <2>2 DEF dht_fails
    <2>3. CASE bootstrap_fails
      <3>1. aborted' = (aborted \/ "dht" \in enabled)
        BY <2>3 DEF bootstrap_fails
      <3> QED
        BY <2>1, <3>1, Zenon
    <2> QED
      BY <2>2, <2>3
  <1>3. ManagerTypes'
    <2>1. aborted' \in BOOLEAN
      BY DEF dht_fails, bootstrap_fails, IInv, Types, ManagerTypes
    <2> QED
      BY <1>1, <1>2, <2>1 DEF IInv, Types, ManagerTypes, Places
  <1>4. Stages'
    BY <1>1, <1>2 DEF IInv, StageInv, Stages, Starting
  <1>5. ASSUME ~aborted' PROVE Living'
    <2>1. Living /\ ~running
      BY <1>2, <1>5 DEF IInv, StageInv, Stages, Starting
    <2>2. NoneAlive
      <3>1. CASE dht_fails
        BY <2>1, <3>1 DEF Living, dht_fails
      <3>2. CASE bootstrap_fails
        BY <1>5, <2>1, <3>2 DEF Living, NoneAlive, bootstrap_fails
      <3> QED
        BY <3>1, <3>2
    <2>3. NoneAlive'
      BY <1>1, <2>2, SameAlive
    <2> QED
      BY <1>1, <1>2, <2>1, <2>3 DEF Living, NoneAlive
  <1>6. Untouched'
    BY <1>1, <1>2 DEF IInv, StageInv, Untouched, ToCome
  <1>7. StageInv'
    BY <1>4, <1>5, <1>6 DEF StageInv
  <1> QED
    BY <1>1, <1>3, <1>7, SameWorker, QuietStep

LEMMA SpawnKept ==
    ASSUME IInv, dht_spawn
    PROVE  IInv'
  <1> DEFINE i == <<starts, "dht">>  t == [task[i] EXCEPT !.at = "check"]
  <1>1. UNCHANGED <<enabled, starts, current, running, aborted, calls, flag, channels, cache,
                    reported, worker, queue>>
    BY DEF dht_spawn
  <1>2. ctl = "start_dht" /\ ctl' = "flag_dht" /\ "dht" \in enabled /\ starts >= 1 /\ starts \in Starts
    BY StartsFacts DEF dht_spawn, IInv, StageInv, Stages, Starting
  <1>3. i \in Instances /\ i[1] = starts /\ i[2] = "dht"
    BY <1>2, InstanceFacts, Constants
  <1>4. task[i] = NoTask /\ ~flag[i]
    BY <1>2, <1>3 DEF IInv, StageInv, Untouched, ToCome
  <1>5. t \in Works /\ t.at = "check" /\ t.report = {} /\ task' = [task EXCEPT ![i] = t]
    BY <1>4, NoTaskFacts DEF Works, Locations, dht_spawn, TaskTo
  <1> HIDE DEF t, i
  <1>6. \A j \in Instances : task'[j] = IF j = i THEN t ELSE task[j]
    BY <1>3, <1>5 DEF IInv, Types, MechanismTypes
  <1>7. Types'
    <2>1. ManagerTypes'
      BY <1>1, <1>2 DEF IInv, Types, ManagerTypes, Places
    <2>2. task' \in [Instances -> Works] /\ swarm' \in [Starts -> {"none", "mutex", "task"}]
      BY <1>3, <1>5 DEF IInv, Types, MechanismTypes, dht_spawn
    <2>3. MechanismTypes' /\ WorkerTypes'
      BY <1>1, <2>2 DEF IInv, Types, MechanismTypes, WorkerTypes, channels
    <2> QED
      BY <2>1, <2>3 DEF Types
  <1>8. StageInv'
    <2>1. Stages'
      BY <1>1, <1>2 DEF IInv, StageInv, Stages, Starting
    <2>2. ASSUME ~aborted' PROVE Living'
      <3>1. NoneAlive
        BY <1>1, <1>2, <2>2 DEF IInv, StageInv, Living
      <3>2. \A j \in Instances : Alive(j)' => j = i
        BY <1>1, <1>6, <3>1 DEF Alive, Active, NoneAlive
      <3> QED
        BY <1>1, <1>2, <1>3, <3>2 DEF Living, AtRest
    <2>3. Untouched'
      <3> SUFFICES ASSUME NEW j \in Instances, ToCome(j)' PROVE (task[j] = NoTask /\ ~flag[j])'
        BY DEF Untouched
      <3>1. ToCome(j)
        BY <1>1, <1>2, StartsFacts DEF ToCome
      <3>2. j # i
        BY <1>1, <1>2, <1>3, StartsFacts, Constants DEF ToCome
      <3> QED
        BY <1>1, <1>6, <3>1, <3>2 DEF IInv, StageInv, Untouched
    <2> QED
      BY <2>1, <2>2, <2>3 DEF StageInv
  <1>9. AnswerInv'
    BY <1>1, <1>3, <1>4, <1>5, AnswerKept DEF IInv
  <1> QED
    BY <1>7, <1>8, <1>9 DEF IInv

\* What an emptied cache leaves
LEMMA EmptiedFacts ==
    ASSUME IInv, NEW m \in Mechanisms, Emptied(m)
    PROVE  /\ cache' \in [Mechanisms -> [Known -> {"absent", "fresh", "stale"}]]
           /\ reported' \in [Mechanisms -> SUBSET Known]
           /\ lookup_peer(m)' = {}
           /\ \A n \in Mechanisms : n # m => lookup_peer(n)' = lookup_peer(n) /\ reported'[n] = reported[n]
  <1>1. /\ cache \in [Mechanisms -> [Known -> {"absent", "fresh", "stale"}]]
        /\ reported \in [Mechanisms -> SUBSET Known]
    BY DEF IInv, Types, MechanismTypes
  <1>2. /\ cache' = [cache EXCEPT ![m] = [p \in Known |-> "absent"]]
        /\ reported' = [reported EXCEPT ![m] = {}]
    BY DEF Emptied
  <1> QED
    BY <1>1, <1>2 DEF lookup_peer

\* A mechanism begins: its instance of the latest start runs, and its cache is empty
LEMMA BeginAnswers ==
    ASSUME IInv, NEW m \in Mechanisms, starts \in Starts, Emptied(m), UNCHANGED starts,
           flag' = [flag EXCEPT ![<<starts, m>>] = TRUE], current' = [current EXCEPT ![m] = starts],
           task[<<starts, m>>].todo = {} \/ m = "dht",
           NEW t \in Works, task' = [task EXCEPT ![<<starts, m>>] = t],
           t.report = task[<<starts, m>>].report, t.todo = task[<<starts, m>>].todo,
           t.at = "send" <=> task[<<starts, m>>].at = "send"
    PROVE  AnswerInv'
  <1> DEFINE i == <<starts, m>>
  <1>1. i \in Instances /\ i[1] = starts /\ i[2] = m
    BY InstanceFacts
  <1>2. /\ task \in [Instances -> Works] /\ flag \in [Instances -> BOOLEAN]
        /\ current \in [Mechanisms -> 0..MaxCalls]
    BY DEF IInv, Types, MechanismTypes, ManagerTypes
  <1>3. lookup_peer(m)' = {}
    BY EmptiedFacts
  <1> SUFFICES ASSUME NEW j \in Instances PROVE Honest(j)' /\ Quiet(j)'
    BY DEF AnswerInv
  <1>4. Honest(j) /\ Quiet(j)
    BY DEF IInv, AnswerInv
  <1>5. CASE j = i
    <2>1. task'[j] = t
      BY <1>1, <1>2, <1>5
    <2>2. Quiet(j)'
      BY <1>4, <1>5, <2>1 DEF Quiet
    <2>3. t.todo = {} \/ j[2] # "bootstrap"
      BY <1>1, <1>5, Constants
    <2>4. lookup_peer(j[2])' = {}
      BY <1>1, <1>3, <1>5
    <2>5. Honest(j)'
      BY <2>1, <2>3, <2>4 DEF Honest
    <2> QED
      BY <2>2, <2>5
  <1>6. CASE j # i
    <2>1. task'[j] = task[j] /\ flag'[j] = flag[j]
      BY <1>1, <1>2, <1>6
    <2>2. Quiet(j)'
      BY <1>4, <2>1 DEF Quiet
    <2>3. CASE j[2] = m
      <3>1. j[1] # starts
        BY <1>6, <2>3, InstanceFacts
      <3>2. ~IsCurrent(j)'
        BY <1>2, <2>3, <3>1 DEF IsCurrent
      <3> QED
        BY <2>2, <3>2 DEF Honest
    <2>4. CASE j[2] # m
      <3>1. j[2] \in Mechanisms
        BY InstanceFacts
      <3>2. lookup_peer(j[2])' = lookup_peer(j[2]) /\ reported'[j[2]] = reported[j[2]]
        BY <2>4, <3>1, EmptiedFacts
      <3>3. IsCurrent(j)' <=> IsCurrent(j)
        BY <1>2, <2>4, <3>1 DEF IsCurrent
      <3>4. Said(j)' = Said(j)
        BY <2>1, <3>2 DEF Said
      <3>5. Honest(j)'
        BY <1>4, <2>1, <3>2, <3>3, <3>4 DEF Honest
      <3> QED
        BY <2>2, <3>5
    <2> QED
      BY <2>3, <2>4
  <1> QED
    BY <1>5, <1>6

LEMMA DhtStartKept ==
    ASSUME IInv, dht_start
    PROVE  IInv'
  <1> DEFINE i == <<starts, "dht">>
  <1>1. /\ UNCHANGED <<enabled, starts, running, aborted, calls, task, swarm, worker, queue, accepted>>
        /\ chan' \in [Instances -> 0..EventCapacity]
    BY DropTypes DEF dht_start
  <1>2. /\ ctl = "flag_dht" /\ ctl' = (IF "bootstrap" \in enabled THEN "start_bootstrap" ELSE "start_worker")
        /\ "dht" \in enabled /\ starts >= 1 /\ starts \in Starts /\ ~running
    BY StartsFacts DEF dht_start, IInv, StageInv, Stages, Starting
  <1>3. i \in Instances /\ i[1] = starts /\ i[2] = "dht" /\ "dht" \in Mechanisms
    BY <1>2, InstanceFacts, Constants
  <1>4. flag' = [flag EXCEPT ![i] = TRUE] /\ current' = [current EXCEPT !["dht"] = starts] /\ Emptied("dht")
    BY DEF dht_start
  <1>5. /\ flag \in [Instances -> BOOLEAN] /\ task \in [Instances -> Works]
        /\ current \in [Mechanisms -> 0..MaxCalls] /\ enabled \subseteq Mechanisms
    BY DEF IInv, Types, MechanismTypes, ManagerTypes
  <1>6. Types'
    <2>1. current' \in [Mechanisms -> 0..MaxCalls]
      BY <1>3, <1>4, <1>5, StartsFacts
    <2>2. ManagerTypes'
      BY <1>1, <1>2, <2>1 DEF IInv, Types, ManagerTypes, Places
    <2>3. flag' \in [Instances -> BOOLEAN]
      BY <1>4, <1>5
    <2>4. /\ cache' \in [Mechanisms -> [Known -> {"absent", "fresh", "stale"}]]
          /\ reported' \in [Mechanisms -> SUBSET Known]
      BY <1>3, <1>4, EmptiedFacts
    <2>5. MechanismTypes' /\ WorkerTypes'
      BY <1>1, <2>3, <2>4 DEF IInv, Types, MechanismTypes, WorkerTypes, channels
    <2> QED
      BY <2>2, <2>5 DEF Types
  <1>7. StageInv'
    <2>1. Stages'
      <3>1. \A m \in Mechanisms : current'[m] <= starts'
        BY <1>1, <1>3, <1>4, <1>5, StartsFacts DEF IInv, StageInv, Stages
      <3> QED
        BY <1>1, <1>2, <3>1 DEF Stages, Starting
    <2>2. ASSUME ~aborted' PROVE Living'
      <3>1. \A j \in Instances : Alive(j) => j[1] = starts /\ j[2] \in enabled /\ j[2] = "dht"
        BY <1>1, <1>2, <2>2 DEF IInv, StageInv, Living
      <3>2. \A j \in Instances : Alive(j)' => Alive(j) \/ j = i
        BY <1>1, <1>4, <1>5 DEF Alive, Active
      <3>3. \A j \in Instances : Alive(j)' => (j[1] = starts /\ j[2] \in enabled)' /\ j[2] = "dht"
        BY <1>1, <1>2, <1>3, <3>1, <3>2
      <3>4. Up("dht")'
        BY <1>1, <1>3, <1>4, <1>5 DEF Up
      <3>5. ctl' = "start_worker" => \A m \in enabled' : m = "dht"
        BY <1>1, <1>2, <1>5, Constants
      <3> QED
        BY <1>1, <1>2, <3>3, <3>4, <3>5 DEF Living, AtRest
    <2>3. Untouched'
      <3> SUFFICES ASSUME NEW j \in Instances, ToCome(j)' PROVE (task[j] = NoTask /\ ~flag[j])'
        BY DEF Untouched
      <3>1. ToCome(j)
        BY <1>1, <1>2, StartsFacts DEF ToCome
      <3>2. j # i
        BY <1>1, <1>2, <1>3, StartsFacts, Constants DEF ToCome
      <3> QED
        BY <1>1, <1>4, <1>5, <3>1, <3>2 DEF IInv, StageInv, Untouched
    <2> QED
      BY <2>1, <2>2, <2>3 DEF StageInv
  <1>8. AnswerInv'
    <2>1. task[i] \in Works /\ task' = [task EXCEPT ![i] = task[i]]
      BY <1>1, <1>3, <1>5
    <2> QED
      BY <1>1, <1>2, <1>3, <1>4, <2>1, BeginAnswers
  <1> QED
    BY <1>6, <1>7, <1>8 DEF IInv

LEMMA BootstrapStartKept ==
    ASSUME IInv, bootstrap_start
    PROVE  IInv'
  <1> DEFINE i == <<starts, "bootstrap">>  t == [task[i] EXCEPT !.at = "tick"]
  <1>1. /\ UNCHANGED <<enabled, starts, running, aborted, calls, swarm, worker, queue, accepted>>
        /\ chan' \in [Instances -> 0..EventCapacity]
    BY DropTypes DEF bootstrap_start
  <1>2. /\ ctl = "start_bootstrap" /\ ctl' = "start_worker"
        /\ "bootstrap" \in enabled /\ starts >= 1 /\ starts \in Starts /\ ~running
    BY StartsFacts DEF bootstrap_start, IInv, StageInv, Stages, Starting
  <1>3. i \in Instances /\ i[1] = starts /\ i[2] = "bootstrap" /\ "bootstrap" \in Mechanisms
    BY <1>2, InstanceFacts, Constants
  <1>4. /\ flag' = [flag EXCEPT ![i] = TRUE] /\ current' = [current EXCEPT !["bootstrap"] = starts]
        /\ Emptied("bootstrap")
    BY DEF bootstrap_start
  <1>5. /\ flag \in [Instances -> BOOLEAN] /\ task \in [Instances -> Works]
        /\ current \in [Mechanisms -> 0..MaxCalls] /\ enabled \subseteq Mechanisms
    BY DEF IInv, Types, MechanismTypes, ManagerTypes
  <1>6. task[i] = NoTask
    BY <1>2, <1>3 DEF IInv, StageInv, Untouched, ToCome
  <1>7. t \in Works /\ t.at = "tick" /\ t.report = {} /\ t.todo = {} /\ task' = [task EXCEPT ![i] = t]
    BY <1>6, NoTaskFacts DEF Works, Locations, bootstrap_start, TaskTo
  <1> HIDE DEF t
  <1>8. Types'
    <2>1. current' \in [Mechanisms -> 0..MaxCalls]
      BY <1>3, <1>4, <1>5, StartsFacts
    <2>2. ManagerTypes'
      BY <1>1, <1>2, <2>1 DEF IInv, Types, ManagerTypes, Places
    <2>3. flag' \in [Instances -> BOOLEAN] /\ task' \in [Instances -> Works]
      BY <1>4, <1>5, <1>7
    <2>4. /\ cache' \in [Mechanisms -> [Known -> {"absent", "fresh", "stale"}]]
          /\ reported' \in [Mechanisms -> SUBSET Known]
      BY <1>3, <1>4, EmptiedFacts
    <2>5. MechanismTypes' /\ WorkerTypes'
      BY <1>1, <2>3, <2>4 DEF IInv, Types, MechanismTypes, WorkerTypes, channels
    <2> QED
      BY <2>2, <2>5 DEF Types
  <1>9. StageInv'
    <2>1. Stages'
      <3>1. \A m \in Mechanisms : current'[m] <= starts'
        BY <1>1, <1>3, <1>4, <1>5, StartsFacts DEF IInv, StageInv, Stages
      <3> QED
        BY <1>1, <1>2, <3>1 DEF Stages, Starting
    <2>2. ASSUME ~aborted' PROVE Living'
      <3>1. Living
        BY <1>1, <2>2 DEF IInv, StageInv
      <3>2. \A j \in Instances : Alive(j)' => Alive(j) \/ j = i
        BY <1>1, <1>4, <1>5, <1>7 DEF Alive, Active
      <3>3. \A j \in Instances : Alive(j)' => (j[1] = starts /\ j[2] \in enabled)'
        BY <1>1, <1>2, <1>3, <3>1, <3>2 DEF Living
      <3>4. Up("bootstrap")'
        BY <1>1, <1>3, <1>4, <1>5 DEF Up
      <3>5. "dht" \in enabled => Up("dht")'
        <4>1. "dht" \in enabled => current["dht"] = starts /\ flag[<<starts, "dht">>]
          BY <1>2, <3>1 DEF Living, Up
        <4>2. <<starts, "dht">> \in Instances /\ <<starts, "dht">> # i /\ "dht" \in Mechanisms
          BY <1>2, InstanceFacts, Constants
        <4> QED
          BY <1>1, <1>4, <1>5, <4>1, <4>2, Constants DEF Up
      <3>6. \A m \in enabled' : m \in {"dht", "bootstrap"}
        BY <1>1, <1>5, Constants
      <3>7. \A m \in enabled' : Up(m)'
        BY <1>1, <3>4, <3>5, <3>6
      <3> QED
        BY <1>2, <3>3, <3>7 DEF Living, AtRest
    <2>3. Untouched'
      <3> SUFFICES ASSUME NEW j \in Instances, ToCome(j)' PROVE (task[j] = NoTask /\ ~flag[j])'
        BY DEF Untouched
      <3>1. ToCome(j)
        BY <1>1, <1>2, StartsFacts DEF ToCome
      <3>2. j # i
        BY <1>1, <1>2, <1>3, StartsFacts, Constants DEF ToCome
      <3> QED
        BY <1>1, <1>4, <1>5, <1>7, <3>1, <3>2 DEF IInv, StageInv, Untouched
    <2> QED
      BY <2>1, <2>2, <2>3 DEF StageInv
  <1>10. AnswerInv'
    BY <1>1, <1>2, <1>3, <1>4, <1>6, <1>7, NoTaskFacts, BeginAnswers
  <1> QED
    BY <1>8, <1>9, <1>10 DEF IInv

LEMMA StartWorkerKept ==
    ASSUME IInv, start_worker
    PROVE  IInv'
  <1>1. UNCHANGED <<enabled, starts, current, aborted, calls, mechs, queue, flag, task>>
    BY DEF start_worker, mechs
  <1>2. ctl = "start_worker" /\ ctl' = "idle" /\ running' = TRUE /\ starts >= 1 /\ starts \in Starts
    BY StartsFacts DEF start_worker, IInv, StageInv, Stages, Starting
  <1>3. ManagerTypes'
    BY <1>1, <1>2 DEF IInv, Types, ManagerTypes, Places
  <1>4. WorkerTypes'
    BY <1>1, <1>2 DEF IInv, Types, WorkerTypes, start_worker
  <1>5. Stages'
    BY <1>1, <1>2 DEF IInv, StageInv, Stages, Starting
  <1>6. ASSUME ~aborted' PROVE Living'
    <2>1. Living
      BY <1>1, <1>6 DEF IInv, StageInv
    <2>2. \A m \in enabled' : Up(m)'
      BY <1>1, <1>2, <2>1 DEF Living, Up
    <2>3. \A i \in Instances : Alive(i)' => (i[1] = starts /\ i[2] \in enabled)'
      BY <1>1, <2>1, SameAlive DEF Living
    <2> QED
      BY <1>2, <2>2, <2>3 DEF Living, AtRest
  <1>7. Untouched'
    BY <1>1, <1>2 DEF IInv, StageInv, Untouched, ToCome
  <1>8. StageInv'
    BY <1>5, <1>6, <1>7 DEF StageInv
  <1> QED
    BY <1>1, <1>3, <1>4, <1>8, QuietStep

-----------------------------------------------------------------------------
(* Stopping *)

LEMMA StopKept ==
    ASSUME IInv, stop
    PROVE  IInv'
  <1>1. ctl \in AtRest /\ ctl' \in AtRest /\ calls' = calls /\ UNCHANGED cache
    BY DEF stop, AtRest, mechs
  <1>2. UNCHANGED <<enabled, starts, current, running, aborted, flag, task, swarm, channels,
                    reported, worker, queue>>
    BY DEF stop, mechs
  <1> QED
    BY <1>1, <1>2, SameCache, CallStep

\* A flag that goes down makes nothing known
LEMMA FlagDown ==
    ASSUME IInv, NEW i \in Instances, flag' = [flag EXCEPT ![i] = FALSE] \/ flag' = flag,
           NEW t \in Works, task' = [task EXCEPT ![i] = t], t.report = {}, t.at # "send",
           ~flag'[i], UNCHANGED <<current, cache, reported>>
    PROVE  AnswerInv'
  <1> SUFFICES ASSUME NEW j \in Instances PROVE Honest(j)' /\ Quiet(j)'
    BY DEF AnswerInv
  <1>1. Honest(j) /\ Quiet(j)
    BY DEF IInv, AnswerInv
  <1>2. task \in [Instances -> Works] /\ flag \in [Instances -> BOOLEAN]
    BY DEF IInv, Types, MechanismTypes
  <1>3. CASE j = i
    <2>1. task'[j] = t /\ ~flag'[j]
      BY <1>2, <1>3
    <2> QED
      BY <2>1 DEF Honest, Quiet
  <1>4. CASE j # i
    <2>1. task'[j] = task[j] /\ flag'[j] = flag[j]
      BY <1>2, <1>4
    <2>2. lookup_peer(j[2])' = lookup_peer(j[2]) /\ Said(j)' = Said(j) /\ (IsCurrent(j)' <=> IsCurrent(j))
      BY <2>1 DEF lookup_peer, Said, IsCurrent
    <2> QED
      BY <1>1, <2>1, <2>2 DEF Honest, Quiet
  <1> QED
    BY <1>3, <1>4

LEMMA DhtStopKept ==
    ASSUME IInv, dht_stop
    PROVE  IInv'
  <1> DEFINE i == Current("dht")
  <1>1. UNCHANGED <<enabled, starts, current, running, aborted, calls, task, swarm, channels, cache,
                    reported, worker, queue>>
    BY DEF dht_stop
  <1>2. ctl = "stop_dht" /\ ctl \in AtRest /\ "dht" \in Mechanisms
    BY Constants DEF dht_stop, AtRest
  <1>3. enabled \subseteq {"dht", "bootstrap"} /\ flag \in [Instances -> BOOLEAN]
    BY Constants DEF IInv, Types, ManagerTypes, MechanismTypes
  <1>4. CASE ~Has("dht") /\ ctl' = "stop_bootstrap" /\ flag' = flag
    <2>1. ManagerTypes'
      BY <1>1, <1>4 DEF IInv, Types, ManagerTypes, Places
    <2>2. Stages'
      BY <1>1, <1>4 DEF IInv, StageInv, Stages, Starting
    <2>3. ASSUME ~aborted' PROVE Living'
      <3>1. Living
        BY <1>1, <2>3 DEF IInv, StageInv
      <3>2. ASSUME NEW j \in Instances, Alive(j) PROVE j[2] = "bootstrap" /\ Up("bootstrap")
        <4>1. running /\ j[2] \in enabled
          BY <1>2, <3>1, <3>2 DEF Living, NoneAlive
        <4>2. \A m \in enabled : Up(m)
          BY <1>2, <3>1, <4>1 DEF Living
        <4>3. starts >= 1
          BY <4>1 DEF IInv, StageInv, Stages
        <4>4. "dht" \notin enabled
          <5>1. current["dht"] = 0 /\ starts # 0
            BY <1>4, <4>3, StartsFacts DEF Has
          <5> QED
            BY <4>2, <5>1 DEF Up
        <4> QED
          BY <1>3, <4>1, <4>2, <4>4
      <3>3. \A j \in Instances : Alive(j)' => (j[2] = "bootstrap" /\ Up("bootstrap"))'
        BY <1>1, <1>4, <3>2, SameAlive DEF Up
      <3>4. \A j \in Instances : Alive(j)' => (j[1] = starts /\ j[2] \in enabled)'
        BY <1>1, <1>4, <3>1, SameAlive DEF Living
      <3> QED
        BY <1>4, <3>3, <3>4 DEF Living, AtRest
    <2>4. Untouched'
      BY <1>1, <1>4 DEF IInv, StageInv, Untouched, ToCome
    <2>5. StageInv'
      BY <2>2, <2>3, <2>4 DEF StageInv
    <2>6. MechanismTypes' /\ WorkerTypes'
      BY <1>1, <1>4 DEF IInv, Types, MechanismTypes, WorkerTypes, channels
    <2>7. AnswerInv'
      BY <1>1, <1>4, SameLookup, AnswerSame DEF IInv
    <2> QED
      BY <2>1, <2>5, <2>6, <2>7 DEF IInv, Types
  <1>5. CASE ctl' = "idle" /\ flag' = flag
    <2>1. ctl' \in AtRest
      BY <1>5 DEF AtRest
    <2> QED
      BY <1>1, <1>2, <1>5, <2>1, SameCache, CallStep
  <1>6. CASE Has("dht") /\ flag[i] /\ ctl' = "abort_dht" /\ flag' = [flag EXCEPT ![i] = FALSE]
    <2>0. i \in Instances /\ i[1] = current["dht"] /\ i[2] = "dht"
      BY <1>2, <1>6, CurrentInstance
    <2>1. ManagerTypes'
      BY <1>1, <1>6 DEF IInv, Types, ManagerTypes, Places
    <2>2. Stages'
      <3>1. (Has("dht") /\ ~flag[Current("dht")])'
        BY <1>1, <1>3, <1>6, <2>0 DEF Has, Current
      <3> QED
        BY <1>1, <1>6, <3>1 DEF IInv, StageInv, Stages, Starting
    <2>3. ASSUME ~aborted' PROVE Living'
      <3>1. Living /\ Alive(i)
        BY <1>1, <1>6, <2>3 DEF IInv, StageInv, Alive
      <3>2. current["dht"] = starts /\ running
        BY <1>2, <2>0, <3>1 DEF Living, NoneAlive
      <3>3. "bootstrap" \in enabled => Up("bootstrap")
        BY <1>2, <3>1, <3>2 DEF Living
      <3>4. "bootstrap" \in enabled => Up("bootstrap")'
        <4>1. <<starts, "bootstrap">> # i
          BY <2>0, Constants
        <4> QED
          BY <1>1, <1>3, <1>6, <3>3, <4>1 DEF Up
      <3>5. \A j \in Instances : Alive(j)' => Alive(j)
        BY <1>1, <1>3, <1>6 DEF Alive, Active
      <3>6. \A j \in Instances : Alive(j)' => (j[1] = starts /\ j[2] \in enabled)'
        BY <1>1, <3>1, <3>5 DEF Living
      <3> QED
        BY <1>1, <1>6, <3>2, <3>4, <3>6 DEF Living, AtRest
    <2>4. Untouched'
      BY <1>1, <1>2, <1>3, <1>6 DEF IInv, StageInv, Untouched, ToCome
    <2>5. StageInv'
      BY <2>2, <2>3, <2>4 DEF StageInv
    <2>6. MechanismTypes' /\ WorkerTypes'
      <3>1. flag' \in [Instances -> BOOLEAN]
        BY <1>3, <1>6
      <3> QED
        BY <1>1, <3>1 DEF IInv, Types, MechanismTypes, WorkerTypes, channels
    <2>7. AnswerInv'
      <3> SUFFICES ASSUME NEW j \in Instances PROVE Honest(j)' /\ Quiet(j)'
        BY DEF AnswerInv
      <3>1. Honest(j) /\ Quiet(j)
        BY DEF IInv, AnswerInv
      <3>2. flag'[j] => flag[j]
        BY <1>3, <1>6
      <3>3. lookup_peer(j[2])' = lookup_peer(j[2]) /\ Said(j)' = Said(j) /\ (IsCurrent(j)' <=> IsCurrent(j))
        BY <1>1 DEF lookup_peer, Said, IsCurrent
      <3> QED
        BY <1>1, <3>1, <3>2, <3>3 DEF Honest, Quiet
    <2> QED
      BY <2>1, <2>5, <2>6, <2>7 DEF IInv, Types
  <1> QED
    BY <1>4, <1>5, <1>6 DEF dht_stop

LEMMA DhtAbortKept ==
    ASSUME IInv, dht_abort
    PROVE  IInv'
  <1> DEFINE i == Current("dht")  t == [NoTask EXCEPT !.at = "gone"]
  <1>1. UNCHANGED <<enabled, starts, current, running, aborted, calls, flag, channels, cache,
                    reported, worker, queue>>
    BY DEF dht_abort
  <1>2. ctl = "abort_dht" /\ ctl' = "stop_bootstrap" /\ "dht" \in Mechanisms
    BY Constants DEF dht_abort
  <1>3. Has("dht") /\ ~flag[i]
    BY <1>2 DEF IInv, StageInv, Stages
  <1>4. i \in Instances /\ i[1] = current["dht"] /\ i[2] = "dht"
    BY <1>2, <1>3, CurrentInstance
  <1>5. t \in Works /\ t.at = "gone" /\ t.report = {} /\ task' = [task EXCEPT ![i] = t]
    BY NoTaskFacts DEF dht_abort, EndTask, SetTask
  <1> HIDE DEF t, i
  <1>6. \A j \in Instances : task'[j] = IF j = i THEN t ELSE task[j]
    BY <1>4, <1>5 DEF IInv, Types, MechanismTypes
  <1>7. Types'
    <2>1. ManagerTypes'
      BY <1>1, <1>2 DEF IInv, Types, ManagerTypes, Places
    <2>2. task' \in [Instances -> Works] /\ swarm' \in [Starts -> {"none", "mutex", "task"}]
      BY <1>4, <1>5 DEF IInv, Types, MechanismTypes, dht_abort
    <2>3. MechanismTypes' /\ WorkerTypes'
      BY <1>1, <2>2 DEF IInv, Types, MechanismTypes, WorkerTypes, channels
    <2> QED
      BY <2>1, <2>3 DEF Types
  <1>8. StageInv'
    <2>1. Stages'
      BY <1>1, <1>2 DEF IInv, StageInv, Stages, Starting
    <2>2. ASSUME ~aborted' PROVE Living'
      <3>1. Living
        BY <1>1, <2>2 DEF IInv, StageInv
      <3>2. current["dht"] = starts /\ ("bootstrap" \in enabled => Up("bootstrap"))
        BY <1>2, <3>1 DEF Living
      <3>3. \A j \in Instances : Alive(j)' => Alive(j) /\ j # i
        BY <1>1, <1>3, <1>5, <1>6 DEF Alive, Active
      <3>4. \A j \in Instances : Alive(j)' => j[1] = starts /\ j[2] \in enabled
        BY <3>1, <3>3 DEF Living
      <3>5. ASSUME NEW j \in Instances, Alive(j)' PROVE j[2] = "bootstrap"
        <4>1. j[1] = i[1] /\ j # i
          BY <1>4, <3>2, <3>3, <3>4, <3>5
        <4>2. j[2] # "dht"
          BY <1>4, <4>1, InstanceFacts
        <4> QED
          BY <4>2, InstanceFacts, Constants
      <3>6. \A j \in Instances : Alive(j)' => j[2] = "bootstrap" /\ Up("bootstrap")'
        BY <1>1, <3>2, <3>4, <3>5 DEF Up
      <3> QED
        BY <1>1, <1>2, <3>4, <3>6 DEF Living, AtRest
    <2>3. Untouched'
      <3> SUFFICES ASSUME NEW j \in Instances, ToCome(j)' PROVE (task[j] = NoTask /\ ~flag[j])'
        BY DEF Untouched
      <3>1. j[1] > starts
        BY <1>1, <1>2 DEF ToCome
      <3>2. j # i
        BY <1>2, <1>4, <3>1, StartsFacts DEF IInv, StageInv, Stages
      <3> QED
        BY <1>1, <1>6, <3>1, <3>2 DEF IInv, StageInv, Untouched, ToCome
    <2> QED
      BY <2>1, <2>2, <2>3 DEF StageInv
  <1>9. AnswerInv'
    <2>1. ~flag'[i] /\ t.at # "send"
      BY <1>1, <1>3, <1>5
    <2> QED
      BY <1>1, <1>4, <1>5, <2>1, FlagDown
  <1> QED
    BY <1>7, <1>8, <1>9 DEF IInv

LEMMA BootstrapStopKept ==
    ASSUME IInv, bootstrap_stop
    PROVE  IInv'
  <1> DEFINE i == Current("bootstrap")  t == [NoTask EXCEPT !.at = "gone"]
  <1>1. UNCHANGED <<enabled, starts, current, running, aborted, calls, swarm, channels, cache,
                    reported, worker, queue>>
    BY DEF bootstrap_stop
  <1>2. ctl = "stop_bootstrap" /\ ctl' = "stop_flag" /\ "bootstrap" \in Mechanisms
    BY Constants DEF bootstrap_stop
  <1>3. ManagerTypes'
    BY <1>1, <1>2 DEF IInv, Types, ManagerTypes, Places
  <1>4. Stages'
    BY <1>1, <1>2 DEF IInv, StageInv, Stages, Starting
  <1>5. flag \in [Instances -> BOOLEAN] /\ task \in [Instances -> Works]
    BY DEF IInv, Types, MechanismTypes
  <1>6. ~aborted' => \A j \in Instances : Alive(j) => j = i /\ Has("bootstrap") /\ flag[i]
    <2> SUFFICES ASSUME ~aborted', NEW j \in Instances, Alive(j)
                 PROVE  j = i /\ Has("bootstrap") /\ flag[i]
      OBVIOUS
    <2>1. j[1] = starts /\ j[2] = "bootstrap" /\ Up("bootstrap")
      BY <1>1, <1>2 DEF IInv, StageInv, Living
    <2>2. current["bootstrap"] = starts /\ flag[<<starts, "bootstrap">>] /\ j = <<starts, "bootstrap">>
      BY <2>1, InstanceFacts DEF Up
    <2>3. starts # 0
      BY <2>1, InstanceFacts, Constants
    <2> QED
      BY <2>2, <2>3 DEF Current, Has
  <1>7. CASE Has("bootstrap") /\ flag[i] /\ EndTask(i) /\ flag' = [flag EXCEPT ![i] = FALSE]
    <2>1. i \in Instances
      BY <1>2, <1>7, CurrentInstance
    <2>2. t \in Works /\ t.at = "gone" /\ t.report = {} /\ task' = [task EXCEPT ![i] = t]
      BY <1>7, NoTaskFacts DEF EndTask, SetTask
    <2>3. flag[i] /\ flag' = [flag EXCEPT ![i] = FALSE]
      BY <1>7
    <2> HIDE DEF t, i
    <2>4. \A j \in Instances : /\ task'[j] = IF j = i THEN t ELSE task[j]
                               /\ flag'[j] = IF j = i THEN FALSE ELSE flag[j]
      BY <1>5, <2>1, <2>2, <2>3
    <2>5. MechanismTypes' /\ WorkerTypes'
      <3>1. task' \in [Instances -> Works] /\ flag' \in [Instances -> BOOLEAN]
        BY <1>5, <2>1, <2>2, <2>3
      <3> QED
        BY <1>1, <3>1 DEF IInv, Types, MechanismTypes, WorkerTypes, channels
    <2>6. ASSUME ~aborted' PROVE Living'
      <3>1. NoneAlive'
        <4> SUFFICES ASSUME NEW j \in Instances, Alive(j)' PROVE FALSE
          BY DEF NoneAlive
        <4>1. j # i
          BY <2>2, <2>4 DEF Alive, Active
        <4>2. Alive(j)
          BY <2>4, <4>1 DEF Alive, Active
        <4> QED
          BY <1>6, <2>6, <4>1, <4>2
      <3> QED
        BY <1>2, <3>1 DEF Living, NoneAlive, AtRest
    <2>7. Untouched'
      <3> SUFFICES ASSUME NEW j \in Instances, ToCome(j)' PROVE (task[j] = NoTask /\ ~flag[j])'
        BY DEF Untouched
      <3>1. task[j] = NoTask /\ ~flag[j]
        BY <1>1, <1>2 DEF IInv, StageInv, Untouched, ToCome
      <3> QED
        BY <2>3, <2>4, <3>1
    <2>8. AnswerInv'
      <3>1. ~flag'[i] /\ t.at # "send"
        BY <2>1, <2>2, <2>4
      <3> QED
        BY <1>1, <2>1, <2>2, <2>3, <3>1, FlagDown
    <2>9. StageInv'
      BY <1>4, <2>6, <2>7 DEF StageInv
    <2> QED
      BY <1>3, <2>5, <2>8, <2>9 DEF IInv, Types
  <1>8. CASE ~(Has("bootstrap") /\ flag[i]) /\ UNCHANGED <<flag, task>>
    <2>1. ASSUME ~aborted' PROVE Living'
      <3>1. NoneAlive
        BY <1>6, <1>8, <2>1 DEF NoneAlive
      <3>2. NoneAlive'
        BY <1>8, <3>1, SameAlive
      <3> QED
        BY <1>2, <3>2 DEF Living, NoneAlive, AtRest
    <2>2. Untouched'
      BY <1>1, <1>2, <1>8 DEF IInv, StageInv, Untouched, ToCome
    <2>3. StageInv'
      BY <1>4, <2>1, <2>2 DEF StageInv
    <2>4. MechanismTypes' /\ WorkerTypes'
      BY <1>1, <1>8 DEF IInv, Types, MechanismTypes, WorkerTypes, channels
    <2>5. AnswerInv'
      BY <1>1, <1>8, SameLookup, AnswerSame DEF IInv
    <2> QED
      BY <1>3, <2>3, <2>4, <2>5 DEF IInv, Types
  <1> QED
    BY <1>7, <1>8 DEF bootstrap_stop

LEMMA StopDoneKept ==
    ASSUME IInv, stop_done
    PROVE  IInv'
  <1>1. UNCHANGED <<enabled, starts, current, aborted, calls, mechs, worker, queue, flag, task>>
    BY DEF stop_done, mechs
  <1>2. ctl = "stop_flag" /\ ctl' = "idle" /\ running' = FALSE
    BY DEF stop_done
  <1>3. ManagerTypes'
    BY <1>1, <1>2 DEF IInv, Types, ManagerTypes, Places
  <1>4. Stages'
    BY <1>1, <1>2 DEF IInv, StageInv, Stages, Starting
  <1>5. ASSUME ~aborted' PROVE Living'
    <2>1. NoneAlive
      BY <1>1, <1>2, <1>5 DEF IInv, StageInv, Living
    <2>2. NoneAlive'
      BY <1>1, <2>1, SameAlive
    <2> QED
      BY <1>2, <2>2 DEF Living, NoneAlive
  <1>6. Untouched'
    BY <1>1, <1>2 DEF IInv, StageInv, Untouched, ToCome
  <1>7. StageInv'
    BY <1>4, <1>5, <1>6 DEF StageInv
  <1> QED
    BY <1>1, <1>3, <1>7, SameWorker, QuietStep

-----------------------------------------------------------------------------
(* The invariant *)

LEMMA InvInit == Init => IInv
  BY TypesInit, StageInit, AnswerInit DEF IInv

LEMMA InvNext == IInv /\ [Next]_vars => IInv'
  <1> SUFFICES ASSUME IInv, [Next]_vars PROVE IInv'
    OBVIOUS
  <1>1. CASE \E i \in Instances : send(i)
    BY <1>1, SendKept
  <1>2. CASE \E p \in Known : Age(p)
    BY <1>2, AgeKept
  <1>3. CASE \E g \in Starts : Dht(g)
    <2> PICK g \in Starts : Dht(g)
      BY <1>3
    <2>1. CASE \E p \in Peers : peer_seen(g, p) \/ routing_updated(g, p)
      BY <2>1, PeerSeenKept DEF routing_updated
    <2>2. CASE loop_check(g) \/ loop_leave(g) \/ closest_next(g) \/ connection_closed(g)
      BY <2>2, LoopCheckKept, LoopLeaveKept, ClosestNextKept, ConnectionClosedKept
    <2>3. CASE \E S \in SUBSET Peers : closest_peers(g, S)
      BY <2>3, ClosestPeersKept
    <2>4. CASE \E q \in {"find", "provide"} : query_done(g, q)
      BY <2>4, QueryDoneKept
    <2> QED
      BY <2>1, <2>2, <2>3, <2>4 DEF Dht
  <1>4. CASE \E g \in Starts : Bootstrap(g)
    <2> PICK g \in Starts : Bootstrap(g)
      BY <1>4
    <2>1. CASE connect_to_bootstrap(g)
      BY <2>1, FailedKept, ConnectedKept DEF connect_to_bootstrap
    <2>2. CASE refresh(g) \/ bootstrap_insert(g) \/ expire_list(g) \/ expire_remove(g)
      BY <2>2, RefreshKept, InsertKept, ExpireListKept, ExpireRemoveKept
    <2> QED
      BY <2>1, <2>2 DEF Bootstrap
  <1>5. CASE \E g \in Starts : Worker(g)
    BY <1>5, WorkerKept
  <1>6. CASE Start
    BY <1>6, StartKept, StartFailsKept, SpawnKept, DhtStartKept, BootstrapStartKept, StartWorkerKept
       DEF Start
  <1>7. CASE Stop
    BY <1>7, StopKept, DhtStopKept, DhtAbortKept, BootstrapStopKept, StopDoneKept DEF Stop
  <1>8. CASE Announce \/ dht_lookup \/ dht_find \/ next_event
    BY <1>8, AnnounceKept, QueryKept, NextEventKept
  <1>9. CASE UNCHANGED vars
    BY <1>9, StutterKept
  <1> QED
    BY <1>1, <1>2, <1>3, <1>4, <1>5, <1>6, <1>7, <1>8, <1>9 DEF Next

LEMMA InvType == IInv => TypeOK
  <1> SUFFICES ASSUME IInv PROVE TypeOK
    OBVIOUS
  <1>1. starts \in 0..MaxCalls /\ current \in [Mechanisms -> 0..MaxCalls]
    BY StartsFacts DEF IInv, Types, ManagerTypes
  <1>2. {running, aborted} \subseteq BOOLEAN
    BY DEF IInv, Types, ManagerTypes
  <1>3. \A i \in Instances : task[i].at \in Locations /\ chan[i] \in 0..EventCapacity
    BY WorkOf
  <1>4. /\ swarm \in [Starts -> {"none", "mutex", "task"}] /\ queue \in 0..ManagerCapacity
        /\ \A g \in Starts : worker[g] \in {"none", "check", "select", "send", "gone"}
    BY DEF IInv, Types, MechanismTypes, WorkerTypes
  <1>5. enabled \subseteq Mechanisms /\ ctl \in Places
    BY DEF IInv, Types, ManagerTypes
  <1> QED
    BY <1>1, <1>2, <1>3, <1>4, <1>5 DEF TypeOK, Places

LEMMA InvStop == IInv => StopIsThorough
  BY DEF IInv, StageInv, Living, Alive, NoneAlive, StopIsThorough

LEMMA InvAnswers == IInv => AnswersWereReported
  <1> SUFFICES ASSUME IInv, NEW m \in Mechanisms, Has(m), flag[Current(m)]
               PROVE  lookup_peer(m) \cup find_peers(m) \cup discovered_peers(m)
                          \subseteq {Self} \cup reported[m] \cup task[Current(m)].report
    BY DEF AnswersWereReported
  <1> DEFINE i == Current(m)
  <1>1. i \in Instances /\ i[1] = current[m] /\ i[2] = m
    BY CurrentInstance
  <1>2. IsCurrent(i) /\ Honest(i)
    BY <1>1 DEF IsCurrent, IInv, AnswerInv
  <1>3. lookup_peer(m) \subseteq Said(i)
    BY <1>1, <1>2 DEF Honest
  <1>4. discovered_peers(m) \subseteq lookup_peer(m)
    BY DEF discovered_peers, lookup_peer
  <1>5. find_peers(m) \subseteq lookup_peer(m)
    BY <1>4 DEF find_peers
  <1> QED
    BY <1>1, <1>3, <1>4, <1>5 DEF Said

-----------------------------------------------------------------------------
(* No event is lost *)

LEMMA NatSets ==
    ASSUME NEW P \in SUBSET Nat, 0 \in P, \A n \in P : n + 1 \in P
    PROVE  P = Nat
  <1> DEFINE T == Nat \ P
  <1>1. ASSUME T # {} PROVE FALSE
    <2>1. PICK x \in T : \A y \in T : ~(<<y, x>> \in OpToRel(<, Nat))
      BY <1>1, NatLessThanWellFounded, WFMin
    <2>2. \A y \in T : ~(y < x)
      BY <2>1 DEF OpToRel
    <2>3. x - 1 \in P /\ x \notin P
      BY <2>2
    <2> QED
      BY <2>3
  <1> QED
    BY <1>1

\* One step of the sum
Plus(s, w, n) == s[n - 1] + w[n]
IsSum(s, w, k) == s = [n \in 0..k |-> IF n = 0 THEN 0 ELSE Plus(s, w, n)]

LEMMA SumExists ==
    ASSUME NEW w, NEW k \in Nat
    PROVE  \E s : IsSum(s, w, k)
  <1> DEFINE P == {j \in Nat : \E s : IsSum(s, w, j)}
  <1>1. 0 \in P
    <2> DEFINE s == [n \in 0..0 |-> 0]
    <2>1. s = [n \in 0..0 |-> IF n = 0 THEN 0 ELSE Plus(s, w, n)]
      OBVIOUS
    <2> QED
      BY <2>1 DEF IsSum
  <1>2. ASSUME NEW j \in P PROVE j + 1 \in P
    <2>1. j \in Nat
      OBVIOUS
    <2>2. PICK s : IsSum(s, w, j)
      OBVIOUS
    <2> DEFINE last == Plus(s, w, j + 1)
               t == [n \in 0 .. j + 1 |-> IF n = j + 1 THEN last ELSE s[n]]
    <2>3. \A n \in 0..j : s[n] = IF n = 0 THEN 0 ELSE Plus(s, w, n)
      BY <2>2 DEF IsSum
    <2>4. \A n \in 0..j : t[n] = s[n]
      BY <2>1
    <2>5. \A n \in 1 .. j + 1 : Plus(t, w, n) = Plus(s, w, n)
      <3> TAKE n \in 1 .. j + 1
      <3>1. n - 1 \in 0..j
        BY <2>1
      <3>2. t[n - 1] = s[n - 1]
        BY <3>1, <2>4
      <3> QED
        BY <3>2 DEF Plus
    <2>6. t[j + 1] = last
      BY <2>1
    <2>7. ASSUME NEW n \in 0 .. j + 1
          PROVE  t[n] = IF n = 0 THEN 0 ELSE Plus(t, w, n)
      <3>1. CASE n = j + 1
        <4>1. n # 0 /\ n \in 1 .. j + 1
          BY <2>1, <3>1
        <4> HIDE DEF t
        <4> QED
          BY <2>5, <2>6, <3>1, <4>1
      <3>2. CASE n # j + 1
        <4>1. n \in 0..j /\ (n = 0 \/ n \in 1 .. j + 1)
          BY <2>1, <3>2
        <4> HIDE DEF t
        <4> QED
          BY <2>3, <2>4, <2>5, <4>1
      <3> QED
        BY <3>1, <3>2
    <2>8. t = [n \in 0 .. j + 1 |-> t[n]]
      OBVIOUS
    <2> HIDE DEF t
    <2>9. IsSum(t, w, j + 1)
      BY <2>7, <2>8 DEF IsSum
    <2> QED
      BY <2>1, <2>9
  <1> HIDE DEF P
  <1>3. P \subseteq Nat
    BY DEF P
  <1>4. P = Nat
    BY <1>1, <1>2, <1>3, NatSets
  <1> QED
    BY <1>4 DEF P

LEMMA SumRecursion ==
    ASSUME NEW w
    PROVE  /\ Sums(w)[0] = 0
           /\ \A n \in 1..MaxCalls : Sums(w)[n] = Sums(w)[n - 1] + w[n]
  <1>1. \E s : s = [n \in 0..MaxCalls |-> IF n = 0 THEN 0 ELSE s[n - 1] + w[n]]
    <2>1. \E s : IsSum(s, w, MaxCalls)
      BY Constants, SumExists
    <2> QED
      BY <2>1, Zenon DEF IsSum, Plus
  <1>2. Sums(w) = [n \in 0..MaxCalls |-> IF n = 0 THEN 0 ELSE Sums(w)[n - 1] + w[n]]
    BY <1>1, Zenon DEF Sums
  <1> DEFINE s == Sums(w)
  <1>3. s = [n \in 0..MaxCalls |-> IF n = 0 THEN 0 ELSE s[n - 1] + w[n]]
    BY <1>2
  <1> HIDE DEF s
  <1>4. s[0] = 0 /\ \A n \in 1..MaxCalls : s[n] = s[n - 1] + w[n]
    BY <1>3, Constants
  <1> QED
    BY <1>4 DEF s

\* What is added at one start is added to the total
LEMMA TotalStep ==
    ASSUME NEW v \in [Starts -> Nat], NEW w \in [Starts -> Nat], NEW g \in Starts,
           \A h \in Starts : h # g => w[h] = v[h]
    PROVE  /\ Total(v) \in Nat /\ Total(w) \in Nat
           /\ Total(w) + v[g] = Total(v) + w[g]
  <1> DEFINE s == Sums(v)
             t == Sums(w)
             Good(n) == /\ s[n] \in Nat /\ t[n] \in Nat
                        /\ n < g => t[n] = s[n]
                        /\ n >= g => t[n] + v[g] = s[n] + w[g]
             P == {n \in Nat : n <= MaxCalls => Good(n)}
  <1>1. /\ s[0] = 0 /\ \A n \in 1..MaxCalls : s[n] = s[n - 1] + v[n]
        /\ t[0] = 0 /\ \A n \in 1..MaxCalls : t[n] = t[n - 1] + w[n]
    BY SumRecursion
  <1>2. g \in 1..MaxCalls /\ MaxCalls \in Nat /\ Starts = 1..MaxCalls
    BY Constants
  <1> HIDE DEF s, t
  <1>3. 0 \in P
    BY <1>1, <1>2
  <1>4. ASSUME NEW n \in P PROVE n + 1 \in P
    <2> SUFFICES ASSUME n + 1 <= MaxCalls PROVE Good(n + 1)
      OBVIOUS
    <2>1. n \in Nat /\ n + 1 \in 1..MaxCalls /\ Good(n)
      BY <1>2
    <2>2. s[n + 1] = s[n] + v[n + 1] /\ t[n + 1] = t[n] + w[n + 1]
      <3>1. (n + 1) - 1 = n
        BY <2>1
      <3> QED
        BY <1>1, <2>1, <3>1
    <2>3. v[n + 1] \in Nat /\ w[n + 1] \in Nat /\ v[g] \in Nat /\ w[g] \in Nat
      BY <1>2, <2>1
    <2>4. n + 1 # g => w[n + 1] = v[n + 1]
      BY <1>2, <2>1
    <2>5. s[n] \in Nat /\ t[n] \in Nat /\ s[n + 1] \in Nat /\ t[n + 1] \in Nat
      BY <2>1, <2>2, <2>3
    <2>6. g \in Nat
      BY <1>2
    <2>7. CASE n + 1 < g
      BY <2>1, <2>2, <2>4, <2>5, <2>6, <2>7
    <2>8. CASE n + 1 = g
      BY <2>1, <2>2, <2>3, <2>5, <2>6, <2>8
    <2>9. CASE n + 1 > g
      <3>1. t[n] + v[g] = s[n] + w[g]
        BY <2>1, <2>6, <2>9
      <3>2. w[n + 1] = v[n + 1]
        BY <2>1, <2>4, <2>6, <2>9
      <3>3. t[n + 1] + v[g] = s[n + 1] + w[g]
        BY <2>2, <2>3, <2>5, <3>1, <3>2
      <3> QED
        BY <2>1, <2>5, <2>6, <2>9, <3>3
    <2> QED
      BY <2>1, <2>6, <2>7, <2>8, <2>9
  <1>5. P = Nat
    <2>1. P \subseteq Nat
      OBVIOUS
    <2> HIDE DEF P
    <2> QED
      BY <1>3, <1>4, <2>1, NatSets
  <1>6. Good(MaxCalls) /\ MaxCalls >= g
    BY <1>2, <1>5
  <1> QED
    BY <1>6 DEF Total, s, t

\* Every event is in one place
Accounts ==
    /\ passed \in Nat /\ lost \in [Instances -> Nat]
    /\ accepted = passed + Total(Held)
\* A start that is still to come has no worker
Idle == \A g \in Starts : g > starts \/ (g = starts /\ ctl \in Starting) => worker[g] = "none"
\* A mechanism nobody has, nor will have again
Over(i) == /\ ~IsCurrent(i) /\ ~Working(i[1])
           /\ i[1] < starts \/ (i[1] = starts /\ ctl \notin Starting)
LostInv == \A i \in Instances : lost[i] > 0 => Over(i)
\* The mechanism a start is about to make is not there yet
Making(m) == IF m = "dht" THEN {"start_dht", "flag_dht"} ELSE {"start_dht", "flag_dht", "start_bootstrap"}
Fresh == \A m \in Mechanisms : ctl \in Making(m) => current[m] < starts
FlowInv == Accounts /\ Idle /\ LostInv /\ Fresh

LEMMA HeldType ==
    ASSUME IInv, Accounts
    PROVE  /\ Held \in [Starts -> Nat] /\ accepted \in Nat
           /\ \A i \in Instances : Left(i) \in Nat
           /\ \A g \in Starts : Left(<<g, "dht">>) \in Nat /\ Left(<<g, "bootstrap">>) \in Nat
           /\ chan \in [Instances -> Nat] /\ lost \in [Instances -> Nat]
           /\ worker \in [Starts -> {"none", "check", "select", "send", "gone"}]
  <1>1. /\ chan \in [Instances -> Nat] /\ accepted \in Nat /\ lost \in [Instances -> Nat]
        /\ worker \in [Starts -> {"none", "check", "select", "send", "gone"}]
    BY Constants DEF IInv, Types, MechanismTypes, WorkerTypes, Accounts
  <1>2. \A i \in Instances : Left(i) \in Nat
    BY <1>1 DEF Left
  <1>3. \A g \in Starts : Left(<<g, "dht">>) \in Nat /\ Left(<<g, "bootstrap">>) \in Nat
    BY <1>2, InstanceFacts, Constants
  <1>4. \A g \in Starts : (IF worker[g] = "send" THEN 1 ELSE 0) \in Nat
    OBVIOUS
  <1>5. Held \in [Starts -> Nat]
    BY <1>3, <1>4 DEF Held
  <1> QED
    BY <1>1, <1>2, <1>3, <1>5

LEMMA HeldNext ==
    ASSUME IInv', lost' \in [Instances -> Nat]
    PROVE  Held' \in [Starts -> Nat]
  <1>1. chan' \in [Instances -> Nat]
    BY Constants DEF IInv, Types, MechanismTypes
  <1>2. \A i \in Instances : Left(i)' \in Nat
    BY <1>1 DEF Left
  <1>3. \A g \in Starts : Left(<<g, "dht">>)' \in Nat /\ Left(<<g, "bootstrap">>)' \in Nat
    BY <1>2, InstanceFacts, Constants
  <1>4. \A g \in Starts : (IF worker'[g] = "send" THEN 1 ELSE 0) \in Nat
    OBVIOUS
  <1> QED
    BY <1>3, <1>4 DEF Held

\* What stays where it was, in a channel or dropped with one, is as much as before
LEMMA FlowSame ==
    ASSUME Accounts, UNCHANGED <<accepted, passed>>, lost' \in [Instances -> Nat],
           \A i \in Instances : Left(i)' = Left(i),
           \A g \in Starts : worker'[g] = "send" <=> worker[g] = "send"
    PROVE  Accounts'
  <1>1. \A g \in Starts : /\ Left(<<g, "dht">>)' = Left(<<g, "dht">>)
                          /\ Left(<<g, "bootstrap">>)' = Left(<<g, "bootstrap">>)
    <2> TAKE g \in Starts
    <2>1. <<g, "dht">> \in Instances /\ <<g, "bootstrap">> \in Instances
      BY InstanceFacts, Constants
    <2>2. Left(<<g, "dht">>)' = Left(<<g, "dht">>)
      BY <2>1
    <2>3. Left(<<g, "bootstrap">>)' = Left(<<g, "bootstrap">>)
      BY <2>1
    <2> QED
      BY <2>2, <2>3
  <1>2. Held' = Held
    BY <1>1 DEF Held
  <1>3. Total(Held)' = Total(Held)
    BY <1>2 DEF Total, Sums
  <1> QED
    BY <1>3 DEF Accounts

LEMMA FlowDrop ==
    ASSUME IInv, Accounts, NEW S, Drop(S),
           \A g \in Starts : worker'[g] = "send" <=> worker[g] = "send"
    PROVE  /\ Accounts'
           /\ \A i \in Instances : i \notin S => lost'[i] = lost[i]
  <1>1. chan \in [Instances -> Nat] /\ lost \in [Instances -> Nat]
    BY HeldType
  <1>2. /\ \A i \in Instances : lost'[i] = IF i \in S THEN lost[i] + chan[i] ELSE lost[i]
        /\ \A i \in Instances : chan'[i] = IF i \in S THEN 0 ELSE chan[i]
        /\ lost' \in [Instances -> Nat] /\ UNCHANGED <<accepted, passed>>
    BY <1>1 DEF Drop
  <1>3. \A i \in Instances : Left(i)' = Left(i)
    BY <1>1, <1>2 DEF Left
  <1>4. Accounts'
    BY <1>2, <1>3, FlowSame
  <1> QED
    BY <1>2, <1>4

\* Events that channel i takes
LEMMA FlowAccept ==
    ASSUME IInv, IInv', Accounts, NEW i \in Instances, NEW n \in Nat, Accept(i, n), worker' = worker
    PROVE  Accounts' /\ lost' = lost
  <1> DEFINE g == i[1]
  <1>1. g \in Starts /\ i[2] \in Mechanisms /\ i = <<g, i[2]>>
    BY InstanceFacts
  <1>2. /\ chan' = [chan EXCEPT ![i] = chan[i] + n]
        /\ accepted' = accepted + n /\ passed' = passed /\ lost' = lost
    BY DEF Accept
  <1>3. /\ Held \in [Starts -> Nat] /\ accepted \in Nat
        /\ chan \in [Instances -> Nat] /\ lost \in [Instances -> Nat]
    BY HeldType
  <1>a. Held' \in [Starts -> Nat]
    BY <1>2, <1>3, HeldNext
  <1>b. Left(i)' = Left(i) + n /\ \A j \in Instances : j # i => Left(j)' = Left(j)
    BY <1>2, <1>3 DEF Left
  <1>4. \A h \in Starts : h # g => Held'[h] = Held[h]
    <2> SUFFICES ASSUME NEW h \in Starts, h # g PROVE Held'[h] = Held[h]
      OBVIOUS
    <2>1. \A m \in Mechanisms : <<h, m>> \in Instances /\ <<h, m>> # i
      BY <1>1, InstanceFacts
    <2>2. \A m \in Mechanisms : Left(<<h, m>>)' = Left(<<h, m>>)
      BY <1>b, <2>1
    <2> QED
      BY <2>2, Constants DEF Held
  <1>5. Held'[g] = Held[g] + n
    <2>1. CASE i[2] = "dht"
      <3>1. i = <<g, "dht">> /\ <<g, "bootstrap">> \in Instances /\ i # <<g, "bootstrap">>
        BY <1>1, <2>1, InstanceFacts, Constants
      <3>2. Left(<<g, "dht">>)' = Left(<<g, "dht">>) + n /\ Left(<<g, "bootstrap">>)' = Left(<<g, "bootstrap">>)
        BY <1>b, <3>1
      <3> QED
        BY <1>1, <3>2, HeldType DEF Held
    <2>2. CASE i[2] = "bootstrap"
      <3>1. i = <<g, "bootstrap">> /\ <<g, "dht">> \in Instances /\ i # <<g, "dht">>
        BY <1>1, <2>2, InstanceFacts, Constants
      <3>2. Left(<<g, "bootstrap">>)' = Left(<<g, "bootstrap">>) + n /\ Left(<<g, "dht">>)' = Left(<<g, "dht">>)
        BY <1>b, <3>1
      <3> QED
        BY <1>1, <3>2, HeldType DEF Held
    <2> QED
      BY <1>1, <2>1, <2>2, Constants
  <1> HIDE DEF g
  <1>6. Total(Held) \in Nat /\ Total(Held') \in Nat /\ Total(Held') + Held[g] = Total(Held) + Held'[g]
    BY <1>1, <1>3, <1>a, <1>4, TotalStep
  <1>7. Held[g] \in Nat
    BY <1>1, <1>3
  <1>8. Total(Held)' = Total(Held')
    BY DEF Total, Sums
  <1>9. accepted = passed + Total(Held) /\ passed \in Nat
    BY DEF Accounts
  <1>10. accepted' = passed' + Total(Held')
    BY <1>2, <1>3, <1>5, <1>6, <1>7, <1>9
  <1> QED
    BY <1>2, <1>3, <1>8, <1>9, <1>10 DEF Accounts

\* The event a worker takes stays with its start
LEMMA FlowTake ==
    ASSUME IInv, Accounts, NEW g \in Starts, NEW m \in Mechanisms, worker_take(g, m)
    PROVE  Accounts' /\ lost' = lost
  <1>1. /\ chan' = [chan EXCEPT ![<<g, m>>] = chan[<<g, m>>] - 1]
        /\ worker' = [worker EXCEPT ![g] = "send"] /\ worker[g] = "select"
        /\ UNCHANGED <<accepted, passed, lost>> /\ chan[<<g, m>>] > 0
    BY DEF worker_take, WorkerTo
  <1>2. /\ chan \in [Instances -> Nat] /\ lost \in [Instances -> Nat]
        /\ worker \in [Starts -> {"none", "check", "select", "send", "gone"}]
        /\ \A i \in Instances : Left(i) \in Nat
    BY HeldType
  <1>a. /\ <<g, m>> \in Instances /\ Left(<<g, m>>)' = Left(<<g, m>>) - 1
        /\ \A j \in Instances : j # <<g, m>> => Left(j)' = Left(j)
    BY <1>1, <1>2, InstanceFacts DEF Left
  <1>3. ASSUME NEW h \in Starts
        PROVE  Held'[h] = Held[h]
    <2>0. <<h, "dht">> \in Instances /\ <<h, "bootstrap">> \in Instances /\ <<g, m>> \in Instances
      BY InstanceFacts, Constants
    <2>1. CASE h # g
      <3>1. <<h, "dht">> # <<g, m>> /\ <<h, "bootstrap">> # <<g, m>>
        BY <2>1
      <3>2. /\ Left(<<h, "dht">>)' = Left(<<h, "dht">>)
            /\ Left(<<h, "bootstrap">>)' = Left(<<h, "bootstrap">>)
        BY <1>a, <2>0, <3>1
      <3>3. worker'[h] = worker[h]
        BY <1>1, <1>2, <2>1
      <3> QED
        BY <3>2, <3>3 DEF Held
    <2>2. CASE h = g /\ m = "dht"
      <3>1. /\ Left(<<h, "dht">>)' = Left(<<h, "dht">>) - 1
            /\ Left(<<h, "bootstrap">>)' = Left(<<h, "bootstrap">>)
        BY <1>a, <2>0, <2>2
      <3>2. worker'[h] = "send" /\ worker[h] # "send"
        BY <1>1, <1>2, <2>2
      <3>3. Held'[h] = Left(<<h, "dht">>)' + Left(<<h, "bootstrap">>)' + 1
        BY <3>2 DEF Held
      <3>4. Held[h] = Left(<<h, "dht">>) + Left(<<h, "bootstrap">>) + 0
        BY <3>2 DEF Held
      <3>5. Left(<<h, "dht">>) \in Nat /\ Left(<<h, "bootstrap">>) \in Nat
        BY <1>2, <2>0
      <3> QED
        BY <3>1, <3>3, <3>4, <3>5
    <2>3. CASE h = g /\ m = "bootstrap"
      <3>1. /\ Left(<<h, "bootstrap">>)' = Left(<<h, "bootstrap">>) - 1
            /\ Left(<<h, "dht">>)' = Left(<<h, "dht">>)
        BY <1>a, <2>0, <2>3
      <3>2. worker'[h] = "send" /\ worker[h] # "send"
        BY <1>1, <1>2, <2>3
      <3>3. Held'[h] = Left(<<h, "dht">>)' + Left(<<h, "bootstrap">>)' + 1
        BY <3>2 DEF Held
      <3>4. Held[h] = Left(<<h, "dht">>) + Left(<<h, "bootstrap">>) + 0
        BY <3>2 DEF Held
      <3>5. Left(<<h, "dht">>) \in Nat /\ Left(<<h, "bootstrap">>) \in Nat
        BY <1>2, <2>0
      <3> QED
        BY <3>1, <3>3, <3>4, <3>5
    <2> QED
      BY <2>1, <2>2, <2>3, Constants
  <1>4. Held' = Held
    BY <1>3 DEF Held
  <1>5. Total(Held)' = Total(Held)
    BY <1>4 DEF Total, Sums
  <1> QED
    BY <1>1, <1>5 DEF Accounts

\* ... until it passes it on
LEMMA FlowSend ==
    ASSUME IInv, IInv', Accounts, NEW g \in Starts, worker_send(g)
    PROVE  Accounts' /\ lost' = lost
  <1>1. /\ UNCHANGED <<chan, accepted, lost>> /\ passed' = passed + 1
        /\ worker' = [worker EXCEPT ![g] = "check"] /\ worker[g] = "send"
    BY DEF worker_send, WorkerTo
  <1>2. /\ Held \in [Starts -> Nat] /\ accepted \in Nat /\ lost \in [Instances -> Nat]
        /\ worker \in [Starts -> {"none", "check", "select", "send", "gone"}]
        /\ Left(<<g, "dht">>) \in Nat /\ Left(<<g, "bootstrap">>) \in Nat
    BY HeldType
  <1>a. Held' \in [Starts -> Nat]
    BY <1>1, <1>2, HeldNext
  <1>3. \A h \in Starts : h # g => Held'[h] = Held[h]
    BY <1>1, <1>2 DEF Held, Left
  <1>4. Held[g] = Held'[g] + 1
    <2>1. Held[g] = Left(<<g, "dht">>) + Left(<<g, "bootstrap">>) + 1
      BY <1>1 DEF Held
    <2>2. Held'[g] = Left(<<g, "dht">>) + Left(<<g, "bootstrap">>) + 0
      BY <1>1, <1>2 DEF Held, Left
    <2> QED
      BY <1>2, <2>1, <2>2
  <1>5. Total(Held) \in Nat /\ Total(Held') \in Nat /\ Total(Held') + Held[g] = Total(Held) + Held'[g]
    BY <1>2, <1>a, <1>3, TotalStep
  <1>6. Held[g] \in Nat /\ Held'[g] \in Nat
    BY <1>2, <1>a
  <1>7. Total(Held)' = Total(Held')
    BY DEF Total, Sums
  <1>8. accepted = passed + Total(Held) /\ passed \in Nat
    BY DEF Accounts
  <1>9. accepted' = passed' + Total(Held')
    BY <1>1, <1>2, <1>4, <1>5, <1>6, <1>8
  <1> QED
    BY <1>1, <1>2, <1>7, <1>8, <1>9 DEF Accounts

\* A step after which no start is any further than it was, and no worker either
OnlyOnward == \/ ctl' = ctl \/ ctl' \notin Starting
              \/ ctl = "start_dht" /\ ctl' = "flag_dht"

LEMMA PlaceSame ==
    ASSUME FlowInv, UNCHANGED <<starts, current, lost>>, OnlyOnward,
           \A g \in Starts : worker[g] = "none" => worker'[g] = "none",
           \A g \in Starts : Working(g)' => Working(g)
    PROVE  Idle' /\ LostInv' /\ Fresh'
  <1>1. ctl' \in Starting => ctl \in Starting
    BY DEF OnlyOnward, Starting
  <1>2. Idle'
    BY <1>1 DEF FlowInv, Idle
  <1>3. LostInv'
    <2> SUFFICES ASSUME NEW i \in Instances, lost'[i] > 0 PROVE Over(i)'
      BY DEF LostInv
    <2>1. Over(i) /\ i[1] \in Starts
      BY InstanceFacts DEF FlowInv, LostInv
    <2>2. ~IsCurrent(i)'
      BY <2>1 DEF Over, IsCurrent
    <2>3. ~Working(i[1])'
      BY <2>1 DEF Over
    <2> QED
      BY <1>1, <2>1, <2>2, <2>3 DEF Over
  <1>4. Fresh'
    BY DEF FlowInv, Fresh, Making, OnlyOnward, Starting
  <1> QED
    BY <1>2, <1>3, <1>4

LEMMA WorkingSame ==
    ASSUME UNCHANGED worker
    PROVE  /\ \A g \in Starts : worker[g] = "none" => worker'[g] = "none"
           /\ \A g \in Starts : Working(g)' => Working(g)
  BY DEF Working

LEMMA FlowInit == Init => FlowInv
  <1> SUFFICES ASSUME Init PROVE FlowInv
    OBVIOUS
  <1>1. Held \in [Starts -> Nat] /\ \A g \in Starts : Held[g] = 0
    <2>1. \A i \in Instances : Left(i) = 0
      BY DEF Init, Left
    <2>2. \A g \in Starts : Left(<<g, "dht">>) = 0 /\ Left(<<g, "bootstrap">>) = 0 /\ worker[g] # "send"
      <3> TAKE g \in Starts
      <3>1. <<g, "dht">> \in Instances /\ <<g, "bootstrap">> \in Instances
        BY InstanceFacts, Constants
      <3>2. worker[g] # "send"
        BY DEF Init
      <3> QED
        BY <2>1, <3>1, <3>2
    <2> QED
      BY <2>2 DEF Held
  <1>2. Total(Held) = 0
    <2> DEFINE w == Held
               s == Sums(w)
               P == {n \in Nat : n <= MaxCalls => s[n] = 0}
    <2>1. s[0] = 0 /\ \A n \in 1..MaxCalls : s[n] = s[n - 1] + w[n]
      BY SumRecursion
    <2>2. MaxCalls \in Nat /\ \A n \in 1..MaxCalls : w[n] = 0
      BY <1>1, Constants
    <2> HIDE DEF s, w
    <2>3. 0 \in P
      BY <2>1
    <2>4. ASSUME NEW n \in P PROVE n + 1 \in P
      <3> SUFFICES ASSUME n + 1 <= MaxCalls PROVE s[n + 1] = 0
        OBVIOUS
      <3>1. n + 1 \in 1..MaxCalls /\ (n + 1) - 1 = n /\ s[n] = 0
        BY <2>2
      <3>2. s[n + 1] = s[n] + w[n + 1] /\ w[n + 1] = 0
        BY <2>1, <2>2, <3>1
      <3> QED
        BY <3>1, <3>2
    <2>5. P = Nat
      <3>1. P \subseteq Nat
        OBVIOUS
      <3> HIDE DEF P
      <3> QED
        BY <2>3, <2>4, <3>1, NatSets
    <2>6. s[MaxCalls] = 0
      BY <2>2, <2>5
    <2> QED
      BY <2>6 DEF Total, s, w
  <1> QED
    BY <1>2 DEF Init, FlowInv, Accounts, Idle, LostInv, Fresh, Making, Starting

\* A step that neither touches the channels nor a worker, nor begins a start
Elsewhere == UNCHANGED <<channels, starts, current, worker>> /\ OnlyOnward

LEMMA ElsewhereKept ==
    ASSUME FlowInv, Elsewhere
    PROVE  FlowInv'
  <1>1. UNCHANGED <<accepted, passed, lost, chan>>
    BY DEF Elsewhere, channels
  <1>2. Accounts'
    <2>1. Accounts
      BY DEF FlowInv
    <2>2. lost' \in [Instances -> Nat] /\ \A i \in Instances : Left(i)' = Left(i)
      BY <1>1, <2>1 DEF Accounts, Left
    <2>3. worker' = worker
      BY DEF Elsewhere
    <2> QED
      BY <1>1, <2>1, <2>2, <2>3, FlowSame
  <1>3. Idle' /\ LostInv' /\ Fresh'
    BY <1>1, WorkingSame, PlaceSame DEF Elsewhere
  <1> QED
    BY <1>2, <1>3 DEF FlowInv

LEMMA FlowDht ==
    ASSUME FlowInv, NEW g \in Starts, Dht(g)
    PROVE  FlowInv'
  <1>1. UNCHANGED <<manager, channels, worker>>
    <2>1. CASE loop_check(g) \/ loop_leave(g) \/ closest_next(g) \/ connection_closed(g)
      BY <2>1 DEF loop_check, loop_leave, closest_next, connection_closed
    <2>2. CASE \E p \in Peers : peer_seen(g, p) \/ routing_updated(g, p)
      BY <2>2 DEF peer_seen, routing_updated
    <2>3. CASE \E S \in SUBSET Peers : closest_peers(g, S)
      BY <2>3 DEF closest_peers
    <2>4. CASE \E q \in {"find", "provide"} : query_done(g, q)
      BY <2>4 DEF query_done
    <2> QED
      BY <2>1, <2>2, <2>3, <2>4 DEF Dht
  <1> QED
    BY <1>1, ElsewhereKept DEF manager, Elsewhere, OnlyOnward

LEMMA FlowBootstrap ==
    ASSUME IInv, IInv', FlowInv, NEW g \in Starts, Bootstrap(g)
    PROVE  FlowInv'
  <1>1. CASE expire_remove(g)
    <2> DEFINE i == <<g, "bootstrap">>
               c == Cardinality(task[i].todo)
               n == IF c < Room(i) THEN c ELSE Room(i)
    <2>1. i \in Instances
      BY InstanceFacts, Constants
    <2>2. n \in Nat
      <3>1. c \in Nat /\ Room(i) \in Nat
        BY <2>1, WorkOf, FiniteKnown, RoomFacts
      <3> QED
        BY <3>1
    <2>3. Accept(i, n) /\ worker' = worker /\ UNCHANGED manager
      BY <1>1 DEF expire_remove
    <2> HIDE DEF n, i
    <2>4. Accounts' /\ lost' = lost
      BY <2>1, <2>2, <2>3, FlowAccept DEF FlowInv
    <2>5. UNCHANGED <<starts, current>> /\ OnlyOnward
      BY <2>3 DEF manager, OnlyOnward
    <2>6. Idle' /\ LostInv' /\ Fresh'
      BY <2>3, <2>4, <2>5, WorkingSame, PlaceSame
    <2> QED
      BY <2>4, <2>6 DEF FlowInv
  <1>2. CASE ~expire_remove(g)
    <2>1. UNCHANGED <<manager, channels, worker>>
      <3>1. CASE connect_to_bootstrap(g)
        BY <3>1 DEF connect_to_bootstrap, bootstrap_failed, bootstrap_connected, bootstrap_identified
      <3>2. CASE refresh(g) \/ bootstrap_insert(g) \/ expire_list(g)
        BY <3>2 DEF refresh, bootstrap_insert, expire_list
      <3> QED
        BY <1>2, <3>1, <3>2 DEF Bootstrap
    <2> QED
      BY <2>1, ElsewhereKept DEF manager, Elsewhere, OnlyOnward
  <1> QED
    BY <1>1, <1>2

\* A worker that ends leaves what it alone had
LEMMA FlowEnds ==
    ASSUME IInv, FlowInv, NEW g \in Starts, WorkerEnds(g), UNCHANGED manager,
           worker[g] \in {"check", "select"}
    PROVE  FlowInv'
  <1> DEFINE S == {i \in Instances : i[1] = g /\ ~IsCurrent(i)}
  <1>1. Drop(S) /\ worker' = [worker EXCEPT ![g] = "gone"]
    BY DEF WorkerEnds, WorkerTo
  <1>2. worker \in [Starts -> {"none", "check", "select", "send", "gone"}]
    BY HeldType DEF FlowInv
  <1>3. worker'[g] = "gone" /\ \A h \in Starts : h # g => worker'[h] = worker[h]
    BY <1>1, <1>2
  <1>4. \A h \in Starts : worker'[h] = "send" <=> worker[h] = "send"
    BY <1>3
  <1>5. UNCHANGED <<starts, current, ctl>>
    BY DEF manager
  <1>6. \A i \in Instances : i \in S => i[1] = g /\ ~IsCurrent(i)
    OBVIOUS
  <1> HIDE DEF S
  <1>7. Accounts' /\ \A i \in Instances : i \notin S => lost'[i] = lost[i]
    BY <1>1, <1>4, FlowDrop DEF FlowInv
  <1>8. Idle'
    BY <1>3, <1>5 DEF FlowInv, Idle
  <1>9. LostInv'
    <2> SUFFICES ASSUME NEW i \in Instances, lost'[i] > 0 PROVE Over(i)'
      BY DEF LostInv
    <2>1. i[1] \in Starts
      BY InstanceFacts
    <2>2. CASE i \in S
      <3>1. i[1] = g /\ ~IsCurrent(i)' /\ ~Working(i[1])'
        BY <1>3, <1>5, <1>6, <2>2 DEF IsCurrent, Working
      <3>2. ~(g > starts) /\ ~(g = starts /\ ctl \in Starting)
        BY DEF FlowInv, Idle
      <3>3. starts \in Nat /\ g \in Nat
        BY Constants DEF IInv, Types, ManagerTypes
      <3> QED
        BY <1>5, <3>1, <3>2, <3>3 DEF Over
    <2>3. CASE i \notin S
      <3>1. Over(i)
        BY <1>7, <2>3 DEF FlowInv, LostInv
      <3>2. ~Working(i[1])'
        BY <1>3, <2>1, <3>1 DEF Over, Working
      <3> QED
        BY <1>5, <3>1, <3>2 DEF Over, IsCurrent
    <2> QED
      BY <2>2, <2>3
  <1>10. Fresh'
    BY <1>5 DEF FlowInv, Fresh
  <1> QED
    BY <1>7, <1>8, <1>9, <1>10 DEF FlowInv

\* A worker goes on with what it has
LEMMA FlowMoves ==
    ASSUME IInv, FlowInv, NEW g \in Starts, NEW a, worker' = [worker EXCEPT ![g] = a],
           Working(g), UNCHANGED manager, lost' = lost
    PROVE  Idle' /\ LostInv' /\ Fresh'
  <1>1. worker \in [Starts -> {"none", "check", "select", "send", "gone"}]
    BY HeldType DEF FlowInv
  <1>2. \A h \in Starts : h # g => worker'[h] = worker[h]
    BY <1>1
  <1>3. \A h \in Starts : worker[h] = "none" => worker'[h] = "none"
    BY <1>2 DEF Working
  <1>4. \A h \in Starts : Working(h)' => Working(h)
    BY <1>2 DEF Working
  <1>5. UNCHANGED <<starts, current, lost>> /\ OnlyOnward
    BY DEF manager, OnlyOnward
  <1> QED
    BY <1>3, <1>4, <1>5, PlaceSame

LEMMA FlowWorker ==
    ASSUME IInv, IInv', FlowInv, NEW g \in Starts, Worker(g)
    PROVE  FlowInv'
  <1>0. UNCHANGED manager /\ Working(g)
    BY DEF Worker, worker_check, worker_timeout, worker_send, worker_take, Working
  <1>1. CASE worker_check(g) \/ worker_timeout(g)
    <2>1. worker[g] \in {"check", "select"}
      BY <1>1 DEF worker_check, worker_timeout
    <2>2. CASE WorkerEnds(g)
      BY <1>0, <2>1, <2>2, FlowEnds
    <2>3. CASE UNCHANGED channels /\ \E a \in {"check", "select"} : worker' = [worker EXCEPT ![g] = a]
      <3>1. PICK a \in {"check", "select"} : worker' = [worker EXCEPT ![g] = a]
        BY <2>3
      <3>2. worker \in [Starts -> {"none", "check", "select", "send", "gone"}]
        BY HeldType DEF FlowInv
      <3>3. \A h \in Starts : worker'[h] = "send" <=> worker[h] = "send"
        BY <2>1, <3>1, <3>2
      <3>4. UNCHANGED <<accepted, passed, lost, chan>>
        BY <2>3 DEF channels
      <3>5. lost' \in [Instances -> Nat] /\ \A i \in Instances : Left(i)' = Left(i)
        BY <3>4 DEF FlowInv, Accounts, Left
      <3>6. Accounts'
        BY <3>3, <3>4, <3>5, FlowSame DEF FlowInv
      <3>7. Idle' /\ LostInv' /\ Fresh'
        BY <1>0, <3>1, <3>4, FlowMoves
      <3> QED
        BY <3>6, <3>7 DEF FlowInv
    <2> QED
      BY <1>1, <2>2, <2>3 DEF worker_check, worker_timeout, WorkerTo
  <1>2. CASE worker_send(g)
    <2>1. Accounts' /\ lost' = lost
      BY <1>2, FlowSend DEF FlowInv
    <2>2. worker' = [worker EXCEPT ![g] = "check"]
      BY <1>2 DEF worker_send, WorkerTo
    <2>3. Idle' /\ LostInv' /\ Fresh'
      BY <1>0, <2>1, <2>2, FlowMoves
    <2> QED
      BY <2>1, <2>3 DEF FlowInv
  <1>3. CASE \E m \in Mechanisms : worker_take(g, m)
    <2>1. Accounts' /\ lost' = lost
      BY <1>3, FlowTake DEF FlowInv
    <2>2. worker' = [worker EXCEPT ![g] = "send"]
      BY <1>3 DEF worker_take, WorkerTo
    <2>3. Idle' /\ LostInv' /\ Fresh'
      BY <1>0, <2>1, <2>2, FlowMoves
    <2> QED
      BY <2>1, <2>3 DEF FlowInv
  <1> QED
    BY <1>1, <1>2, <1>3 DEF Worker

\* A mechanism takes the place of an older one, which goes with its channel unless a
\* worker has it
LEMMA FlowReplace ==
    ASSUME IInv, FlowInv, NEW m \in Mechanisms, ctl \in Making(m), ctl' \in Starting,
           ctl' \notin Making("dht"), ctl' \notin Making(m),
           Drop(Replaced(m)), current' = [current EXCEPT ![m] = starts], UNCHANGED <<starts, worker>>
    PROVE  FlowInv'
  <1>1. \A i \in Instances : i \in Replaced(m) => i = Current(m) /\ ~Working(i[1])
    BY DEF Replaced
  <1>2. Accounts' /\ \A i \in Instances : i \notin Replaced(m) => lost'[i] = lost[i]
    BY FlowDrop DEF FlowInv
  <1>3. ctl \in Starting /\ current[m] < starts
    BY DEF Making, Starting, FlowInv, Fresh
  <1>4. current \in [Mechanisms -> 0..MaxCalls] /\ starts \in Nat
    BY DEF IInv, Types, ManagerTypes
  <1>5. current'[m] = starts /\ \A n \in Mechanisms : n # m => current'[n] = current[n]
    BY <1>4
  <1>6. Idle'
    BY <1>3 DEF FlowInv, Idle
  <1>7. LostInv'
    <2> SUFFICES ASSUME NEW i \in Instances, lost'[i] > 0 PROVE Over(i)'
      BY DEF LostInv
    <2>1. i[1] \in Starts /\ i[2] \in Mechanisms
      BY InstanceFacts
    <2>2. i[1] < starts /\ ~Working(i[1]) /\ (i[2] = m \/ ~IsCurrent(i))
      <3>1. CASE i \in Replaced(m)
        <4>1. i = Current(m) /\ ~Working(i[1])
          BY <1>1, <3>1
        <4>2. i[1] = current[m] /\ i[2] = m
          BY <4>1 DEF Current
        <4> QED
          BY <1>3, <4>1, <4>2
      <3>2. CASE i \notin Replaced(m)
        <4>1. Over(i)
          BY <1>2, <3>2 DEF FlowInv, LostInv
        <4> QED
          BY <1>3, <4>1 DEF Over
      <3> QED
        BY <3>1, <3>2
    <2>3. ~Working(i[1])'
      BY <2>2 DEF Working
    <2>4. ~IsCurrent(i)'
      <3>1. CASE i[2] = m
        BY <1>4, <1>5, <2>1, <2>2, <3>1, Constants DEF IsCurrent
      <3>2. CASE i[2] # m
        BY <1>5, <2>1, <2>2, <3>2 DEF IsCurrent
      <3> QED
        BY <3>1, <3>2
    <2> QED
      BY <2>2, <2>3, <2>4 DEF Over
  <1>8. Fresh'
    <2> SUFFICES ASSUME NEW n \in Mechanisms, ctl' \in Making(n) PROVE current'[n] < starts'
      BY DEF Fresh, Making
    <2>1. n # m /\ n # "dht" /\ n = "bootstrap" /\ m = "dht"
      BY Constants
    <2>2. ctl \in Making(n)
      BY <2>1 DEF Making
    <2> QED
      BY <1>5, <2>1, <2>2 DEF FlowInv, Fresh
  <1> QED
    BY <1>2, <1>6, <1>7, <1>8 DEF FlowInv

LEMMA FlowStart ==
    ASSUME IInv, FlowInv, Start
    PROVE  FlowInv'
  <1>0. starts \in Nat /\ Starts \subseteq Nat /\ current \in [Mechanisms -> 0..MaxCalls]
    BY Constants DEF IInv, Types, ManagerTypes
  <1>1. CASE start
    <2>1. /\ UNCHANGED <<channels, worker, current, chan, accepted, passed, lost>>
          /\ starts' = starts + 1 /\ ctl \notin Starting
      BY <1>1 DEF start, mechs, channels, Starting
    <2>2. Accounts'
      <3>1. lost' \in [Instances -> Nat] /\ \A i \in Instances : Left(i)' = Left(i)
        BY <2>1 DEF FlowInv, Accounts, Left
      <3> QED
        BY <2>1, <3>1, FlowSame DEF FlowInv
    <2>3. Idle'
      BY <1>0, <2>1 DEF Idle, FlowInv
    <2>4. LostInv'
      <3> SUFFICES ASSUME NEW i \in Instances, lost'[i] > 0 PROVE Over(i)'
        BY DEF LostInv
      <3>1. Over(i) /\ i[1] \in Nat
        BY <1>0, <2>1, InstanceFacts DEF FlowInv, LostInv
      <3>2. ~IsCurrent(i)' /\ ~Working(i[1])'
        BY <2>1, <3>1 DEF Over, IsCurrent, Working
      <3> QED
        BY <1>0, <2>1, <3>1, <3>2 DEF Over
    <2>5. Fresh'
      <3>1. \A m \in Mechanisms : current[m] <= starts /\ current[m] \in Nat
        BY <1>0, Constants DEF IInv, StageInv, Stages
      <3> QED
        BY <1>0, <2>1, <3>1 DEF Fresh, Making
    <2> QED
      BY <2>2, <2>3, <2>4, <2>5 DEF FlowInv
  <1>2. CASE start_worker
    <2>1. /\ UNCHANGED <<channels, starts, current, chan, accepted, passed, lost>>
          /\ ctl' = "idle" /\ ctl \in Starting
          /\ worker' = [worker EXCEPT ![starts] = "check"]
      BY <1>2 DEF start_worker, mechs, channels, Starting
    <2>2. worker \in [Starts -> {"none", "check", "select", "send", "gone"}]
      BY HeldType DEF FlowInv
    <2>3. \A h \in Starts : h # starts => worker'[h] = worker[h]
      BY <2>1, <2>2
    <2>4. starts \in Starts => worker[starts] = "none" /\ worker'[starts] = "check"
      BY <2>1, <2>2 DEF FlowInv, Idle
    <2>5. Accounts'
      <3>1. lost' \in [Instances -> Nat] /\ \A i \in Instances : Left(i)' = Left(i)
        BY <2>1 DEF FlowInv, Accounts, Left
      <3>2. \A h \in Starts : worker'[h] = "send" <=> worker[h] = "send"
        BY <2>3, <2>4
      <3> QED
        BY <2>1, <3>1, <3>2, FlowSame DEF FlowInv
    <2>6. Idle'
      BY <1>0, <2>1, <2>3 DEF Idle, FlowInv, Starting
    <2>7. LostInv'
      <3> SUFFICES ASSUME NEW i \in Instances, lost'[i] > 0 PROVE Over(i)'
        BY DEF LostInv
      <3>1. Over(i) /\ i[1] \in Starts
        BY <2>1, InstanceFacts DEF FlowInv, LostInv
      <3>2. i[1] < starts
        BY <2>1, <3>1 DEF Over
      <3>3. i[1] # starts
        BY <1>0, <3>1, <3>2
      <3>4. ~IsCurrent(i)' /\ ~Working(i[1])'
        BY <2>1, <2>3, <3>1, <3>3 DEF Over, IsCurrent, Working
      <3> QED
        BY <2>1, <3>2, <3>4 DEF Over
    <2>8. Fresh'
      BY <2>1 DEF Fresh, Making
    <2> QED
      BY <2>5, <2>6, <2>7, <2>8 DEF FlowInv
  <1>3. CASE dht_fails \/ dht_spawn \/ bootstrap_fails
    <2>1. UNCHANGED <<channels, starts, current, worker>> /\ OnlyOnward
      BY <1>3 DEF dht_fails, dht_spawn, bootstrap_fails, mechs, OnlyOnward, Starting
    <2> QED
      BY <2>1, ElsewhereKept DEF Elsewhere
  <1>4. CASE dht_start
    <2>1. /\ Drop(Replaced("dht")) /\ current' = [current EXCEPT !["dht"] = starts]
          /\ UNCHANGED <<starts, worker>> /\ ctl = "flag_dht"
          /\ ctl' \in {"start_bootstrap", "start_worker"} /\ "dht" \in Mechanisms
      BY <1>4, Constants DEF dht_start
    <2>2. ctl \in Making("dht") /\ ctl' \in Starting /\ ctl' \notin Making("dht")
      BY <2>1 DEF Making, Starting
    <2> QED
      BY <2>1, <2>2, FlowReplace
  <1>5. CASE bootstrap_start
    <2>1. /\ Drop(Replaced("bootstrap")) /\ current' = [current EXCEPT !["bootstrap"] = starts]
          /\ UNCHANGED <<starts, worker>> /\ ctl = "start_bootstrap"
          /\ ctl' = "start_worker" /\ "bootstrap" \in Mechanisms
      BY <1>5, Constants DEF bootstrap_start
    <2>2. /\ ctl \in Making("bootstrap") /\ ctl' \in Starting /\ ctl' \notin Making("dht")
          /\ ctl' \notin Making("bootstrap")
      BY <2>1 DEF Making, Starting
    <2> QED
      BY <2>1, <2>2, FlowReplace
  <1> QED
    BY <1>1, <1>2, <1>3, <1>4, <1>5 DEF Start

LEMMA FlowStop ==
    ASSUME FlowInv, Stop
    PROVE  FlowInv'
  <1>1. UNCHANGED <<channels, starts, current, worker>> /\ ctl' \notin Starting
    BY DEF Stop, stop, dht_stop, dht_abort, bootstrap_stop, stop_done, mechs, Starting
  <1> QED
    BY <1>1, ElsewhereKept DEF Elsewhere, OnlyOnward

LEMMA FlowCalls ==
    ASSUME FlowInv, Announce \/ dht_lookup \/ dht_find \/ next_event \/ \E p \in Known : Age(p)
    PROVE  FlowInv'
  <1>1. Elsewhere
    <2>1. CASE Announce
      BY <2>1 DEF Elsewhere, OnlyOnward, Announce, announce_dht, announce_bootstrap, Starting
    <2>2. CASE dht_lookup \/ dht_find
      BY <2>2 DEF Elsewhere, OnlyOnward, dht_lookup, dht_find, dht_query
    <2>3. CASE next_event \/ \E p \in Known : Age(p)
      BY <2>3 DEF Elsewhere, OnlyOnward, next_event, Age, manager, mechs
    <2> QED
      BY <2>1, <2>2, <2>3
  <1> QED
    BY <1>1, ElsewhereKept

LEMMA FlowNext == IInv /\ FlowInv /\ [Next]_vars => FlowInv'
  <1> SUFFICES ASSUME IInv, FlowInv, [Next]_vars PROVE FlowInv'
    OBVIOUS
  <1>1. IInv'
    BY InvNext
  <1>2. CASE \E i \in Instances : send(i)
    <2>1. PICK i \in Instances : send(i)
      BY <1>2
    <2>2. worker' = worker /\ UNCHANGED manager
      BY <2>1 DEF send
    <2>3. UNCHANGED <<starts, current>> /\ OnlyOnward
      BY <2>2 DEF manager, OnlyOnward
    <2>4. CASE Accept(i, 1)
      <3>1. Accounts' /\ lost' = lost
        BY <1>1, <2>2, <2>4, FlowAccept DEF FlowInv
      <3>2. Idle' /\ LostInv' /\ Fresh'
        BY <2>2, <2>3, <3>1, WorkingSame, PlaceSame
      <3> QED
        BY <3>1, <3>2 DEF FlowInv
    <2>5. CASE UNCHANGED channels
      BY <2>2, <2>3, <2>5, ElsewhereKept DEF Elsewhere
    <2> QED
      BY <2>1, <2>4, <2>5 DEF send
  <1>3. CASE \E g \in Starts : Dht(g) \/ Bootstrap(g) \/ Worker(g)
    BY <1>1, <1>3, FlowDht, FlowBootstrap, FlowWorker
  <1>4. CASE Start \/ Stop
    BY <1>4, FlowStart, FlowStop
  <1>5. CASE Announce \/ dht_lookup \/ dht_find \/ next_event \/ \E p \in Known : Age(p)
    BY <1>5, FlowCalls
  <1>6. CASE UNCHANGED vars
    <2>1. Elsewhere
      BY <1>6 DEF vars, manager, mechs, Elsewhere, OnlyOnward
    <2> QED
      BY <2>1, ElsewhereKept
  <1> QED
    BY <1>2, <1>3, <1>4, <1>5, <1>6 DEF Next

-----------------------------------------------------------------------------
(* Theorems *)

\* The places of callers, tasks and workers are the ones the code has, and no channel
\* takes more events than it has room for (DiscoveryManager, DhtDiscovery,
\* BootstrapDiscovery).
THEOREM TypesAlwaysHold == Spec => []TypeOK
  <1> QED
    BY InvInit, InvNext, InvType, PTL DEF Spec

\* However starts, stops and failures follow each other, a task that runs is of the
\* latest start and nothing runs once stop is through the mechanisms, unless a start
\* failed half way (DiscoveryManager::start and stop).
THEOREM StopAlwaysThorough == Spec => []StopIsThorough
  <1> QED
    BY InvInit, InvNext, InvStop, PTL DEF Spec

\* A running mechanism answers only with peers it has reported or is reporting, and
\* with this node itself (lookup_peer, find_peers, discovered_peers).
THEOREM AnswersAlwaysReported == Spec => []AnswersWereReported
  <1> QED
    BY InvInit, InvNext, InvAnswers, PTL DEF Spec

\* Every event a mechanism's channel has taken is still in it, in the hands of a worker or
\* passed on to the manager's channel, for any number of starts, stops, failed starts and
\* timeouts, but for the ones dropped with the channel of a mechanism that neither the
\* manager nor a worker has any more (DiscoveryManager::start, its worker, and next_event
\* of the mechanisms).
THEOREM LostAlwaysWithReplaced == Spec => []LostOnlyWhenReplaced
  <1>1. FlowInv => LostOnlyWhenReplaced
    BY DEF FlowInv, Accounts, LostInv, Over, LostOnlyWhenReplaced
  <1> QED
    BY <1>1, InvInit, InvNext, FlowInit, FlowNext, PTL DEF Spec
=============================================================================
