---------------------------- MODULE ModerationProofs ----------------------------
(***************************************************************************)
(* Proofs about Moderation, for any peers, streams, concurrent requests    *)
(* and imported lists.                                                     *)
(***************************************************************************)
EXTENDS Moderation, TLAPS

\* What an export has copied is still what the manager holds: its read locks
\* keep writers out until the third copy is made.
Copies ==
    \A c \in Clients :
        /\ task[c].pc \in {"whitelist", "flags"} => task[c].list.blocked = mem.blocked
        /\ task[c].pc = "flags" => task[c].list.white = mem.white

\* The file holds the list last saved, or nothing that parses after a failure.
Settled == \/ file.list = durable /\ file.state \in {"none", "saved"}
           \/ file \in {Truncated, Mixture} /\ spoilt

\* A request that is never made stays idle, and a request that is alone finds
\* memory and file as it left them.
Alone ==
    /\ \A c \in Clients \ active : task[c].pc = "idle"
    /\ \A c \in Clients : active = {c} =>
          /\ task[c].pc \in {"truncate", "write"} => task[c].list = mem
          /\ IF task[c].pc = "write" THEN file = Truncated ELSE Settled
          /\ task[c].pc = "idle" /\ task[c].op = "edit" => file = Saved(mem)

IInv == TypeOK /\ Copies /\ Alone

\* Two lists with the same three collections are the same list.
LEMMA ListsEqual ==
    ASSUME NEW k \in Lists, NEW l \in Lists,
           k.blocked = l.blocked, k.white = l.white, k.flags = l.flags
    PROVE  k = l
  BY DEF Lists

\* The empty list is a list.
LEMMA EmptyType == Empty \in Lists
  BY BoundsAssumption DEF Empty, Lists

\* A new manager satisfies the invariant.
LEMMA InitInv == Init => IInv
  <1> SUFFICES ASSUME Init PROVE IInv
    OBVIOUS
  <1>1. file \in [state : {"none", "truncated", "mixture", "saved"}, list : Lists]
    BY EmptyType DEF Init, NoFile
  <1>2. crashes \in 0..MaxCrashes
    BY BoundsAssumption DEF Init
  <1>3. spoilt \in BOOLEAN /\ active \subseteq Clients
    BY DEF Init
  <1>4. task = [c \in Clients |-> Task("idle", Empty, "none")]
    BY DEF Init, Idle
  <1>5. TypeOK /\ Copies
    BY <1>1, <1>2, <1>3, <1>4, EmptyType DEF Init, TypeOK, Copies, Task
  <1>6. Settled
    BY DEF Init, Settled, NoFile
  <1>7. Alone
    BY <1>6 DEF Init, Alone, Idle, Task
  <1> QED
    BY <1>5, <1>7 DEF IInv

\* A change of one collection, made under its write lock, preserves the
\* invariant.
LEMMA ChangeInv ==
    ASSUME IInv, NEW c \in Clients, NEW lock \in {"blocked", "white", "flags"},
           NEW new \in Lists, Change(c, lock, new),
           lock # "blocked" => new.blocked = mem.blocked,
           lock # "white" => new.white = mem.white
    PROVE  IInv'
  <1>1. /\ c \in active /\ task[c].pc = "idle" /\ Writable(lock) /\ mem' = new
        /\ task' = [task EXCEPT ![c] = Task("blocked", Empty, "edit")]
        /\ UNCHANGED <<file, active, crashes, history>>
    BY DEF Change
  <1>2. TypeOK'
    BY <1>1, EmptyType DEF IInv, TypeOK, history, Task
  <1>3. Copies'
    BY <1>1 DEF IInv, TypeOK, Copies, Writable, Held, Task
  <1>4. Alone'
    BY <1>1 DEF IInv, TypeOK, Alone, Settled, history, Task
  <1> QED
    BY <1>2, <1>3, <1>4 DEF IInv

\* Each kind of change is a Change of a list that differs in one collection.
LEMMA RequestInv ==
    ASSUME IInv, NEW c \in Clients, Request(c)
    PROVE  IInv'
  <1> USE BoundsAssumption
  <1>0. mem \in Lists
    BY DEF IInv, TypeOK
  <1>1. ASSUME NEW p \in Peers, block_peer(c, p) PROVE IInv'
    <2> DEFINE new == [mem EXCEPT !.blocked = @ \cup {p}]
    <2>1. new \in Lists /\ new.white = mem.white
      BY <1>0 DEF Lists
    <2> QED
      BY <1>1, <2>1, ChangeInv DEF block_peer
  <1>2. ASSUME NEW p \in Peers, unblock_peer(c, p) PROVE IInv'
    <2> DEFINE new == [mem EXCEPT !.blocked = @ \ {p}]
    <2>1. new \in Lists /\ new.white = mem.white
      BY <1>0 DEF Lists
    <2> QED
      BY <1>2, <2>1, ChangeInv DEF unblock_peer
  <1>3. ASSUME NEW p \in Peers, whitelist_peer(c, p) PROVE IInv'
    <2> DEFINE new == [mem EXCEPT !.white = @ \cup {p}]
    <2>1. new \in Lists /\ new.blocked = mem.blocked
      BY <1>0 DEF Lists
    <2> QED
      BY <1>3, <2>1, ChangeInv DEF whitelist_peer
  <1>4. ASSUME NEW p \in Peers, remove_whitelist(c, p) PROVE IInv'
    <2> DEFINE new == [mem EXCEPT !.white = @ \ {p}]
    <2>1. new \in Lists /\ new.blocked = mem.blocked
      BY <1>0 DEF Lists
    <2> QED
      BY <1>4, <2>1, ChangeInv DEF remove_whitelist
  <1>5. ASSUME NEW s \in StreamIds, flag_stream(c, s) PROVE IInv'
    <2> DEFINE new == [mem EXCEPT !.flags[s] = @ + 1]
    <2>1. new \in Lists /\ new.blocked = mem.blocked /\ new.white = mem.white
      BY <1>0, <1>5 DEF Lists, flag_stream
    <2> QED
      BY <1>5, <2>1, ChangeInv DEF flag_stream
  <1>6. ASSUME NEW s \in StreamIds, unflag_stream(c, s) PROVE IInv'
    <2> DEFINE new == [mem EXCEPT !.flags[s] = 0]
    <2>1. new \in Lists /\ new.blocked = mem.blocked /\ new.white = mem.white
      BY <1>0 DEF Lists
    <2> QED
      BY <1>6, <2>1, ChangeInv DEF unflag_stream
  <1>7. ASSUME NEW l \in Imports, import_list(c, l) PROVE IInv'
    <2>0. l \in Lists
      BY ImportsAssumption
    <2>1. /\ c \in active /\ task[c].pc = "idle" /\ Writable("blocked")
          /\ mem' = [mem EXCEPT !.blocked = @ \cup l.blocked]
          /\ task' = [task EXCEPT ![c] = Task("import_white", l, "import")]
          /\ UNCHANGED <<file, active, crashes, history>>
      BY <1>7 DEF import_list
    <2>2. mem' \in Lists /\ mem'.white = mem.white
      BY <1>0, <2>0, <2>1 DEF Lists
    <2>3. TypeOK'
      BY <2>0, <2>1, <2>2 DEF IInv, TypeOK, history, Task
    <2>4. Copies'
      BY <2>1, <2>2 DEF IInv, TypeOK, Copies, Writable, Held, Task
    <2>5. Alone'
      BY <2>1 DEF IInv, TypeOK, Alone, Settled, history, Task
    <2> QED
      BY <2>3, <2>4, <2>5 DEF IInv
  <1> QED
    BY <1>1, <1>2, <1>3, <1>4, <1>5, <1>6, <1>7 DEF Request

\* The later steps of an import: each takes the write lock of the collection it
\* changes.
LEMMA ImportInv ==
    ASSUME IInv, NEW c \in Clients, ImportWhite(c) \/ ImportFlags(c)
    PROVE  IInv'
  <1>0. mem \in Lists /\ task[c].list \in Lists
    BY DEF IInv, TypeOK
  <1>1. CASE ImportWhite(c)
    <2>1. mem' \in Lists /\ mem'.blocked = mem.blocked
      BY <1>0, <1>1 DEF ImportWhite, Lists
    <2>2. TypeOK'
      BY <1>1, <2>1 DEF ImportWhite, IInv, TypeOK, history
    <2>3. Copies'
      BY <1>1, <2>1 DEF ImportWhite, IInv, TypeOK, Copies, Writable, Held
    <2>4. Alone'
      BY <1>1 DEF ImportWhite, IInv, TypeOK, Alone, Settled, history
    <2> QED
      BY <2>2, <2>3, <2>4 DEF IInv
  <1>2. CASE ImportFlags(c)
    <2>1. mem' \in Lists /\ mem'.blocked = mem.blocked /\ mem'.white = mem.white
      BY <1>0, <1>2, BoundsAssumption DEF ImportFlags, Lists, Extended
    <2>2. task' = [task EXCEPT ![c] = Task("idle", Empty, "import")]
          /\ UNCHANGED <<file, active, crashes, history>> /\ task[c].pc = "import_flags"
      BY <1>2 DEF ImportFlags, Idle
    <2>3. TypeOK'
      BY <2>1, <2>2, EmptyType DEF IInv, TypeOK, history, Task
    <2>4. Copies'
      BY <2>1, <2>2 DEF IInv, TypeOK, Copies, Task
    <2>5. Alone'
      BY <2>2 DEF IInv, TypeOK, Alone, Settled, history, Task
    <2> QED
      BY <2>3, <2>4, <2>5 DEF IInv
  <1> QED
    BY <1>1, <1>2

\* The steps that copy the three collections, truncate the file and write it.
LEMMA PersistInv ==
    ASSUME IInv, NEW c \in Clients, Persist(c)
    PROVE  IInv'
  <1>0. mem \in Lists /\ task[c].list \in Lists
    BY DEF IInv, TypeOK
  <1>1. CASE ExportBlocked(c)
    <2> DEFINE l == [task[c].list EXCEPT !.blocked = mem.blocked]
    <2>1. l \in Lists /\ l.blocked = mem.blocked
      BY <1>0 DEF Lists
    <2>2. task' = [task EXCEPT ![c] = Task("whitelist", l, "edit")]
          /\ task[c].pc = "blocked" /\ UNCHANGED <<mem, file, active, crashes, history>>
      BY <1>1 DEF ExportBlocked
    <2> HIDE DEF l
    <2> QED
      BY <2>1, <2>2 DEF IInv, TypeOK, Copies, Alone, Settled, history, Task
  <1>2. CASE ExportWhitelist(c)
    <2> DEFINE l == [task[c].list EXCEPT !.white = mem.white]
    <2>1. l \in Lists /\ l.blocked = task[c].list.blocked /\ l.white = mem.white
      BY <1>0 DEF Lists
    <2>2. task' = [task EXCEPT ![c] = Task("flags", l, "edit")]
          /\ task[c].pc = "whitelist" /\ UNCHANGED <<mem, file, active, crashes, history>>
      BY <1>2 DEF ExportWhitelist
    <2> HIDE DEF l
    <2> QED
      BY <2>1, <2>2 DEF IInv, TypeOK, Copies, Alone, Settled, history, Task
  <1>3. CASE ExportFlags(c)
    <2> DEFINE l == [task[c].list EXCEPT !.flags = mem.flags]
    <2>1. l \in Lists /\ l.flags = mem.flags
          /\ l.blocked = task[c].list.blocked /\ l.white = task[c].list.white
      BY <1>0 DEF Lists
    <2>2. task' = [task EXCEPT ![c] = Task("truncate", l, "edit")]
          /\ task[c].pc = "flags" /\ UNCHANGED <<mem, file, active, crashes, history>>
      BY <1>3 DEF ExportFlags
    <2> HIDE DEF l
    <2>3. l = mem
      BY <1>0, <2>1, <2>2, ListsEqual DEF IInv, Copies
    <2> QED
      BY <1>0, <2>2, <2>3 DEF IInv, TypeOK, Copies, Alone, Settled, history, Task
  <1>4. CASE Truncate(c)
    <2>1. CASE file' = Truncated /\ task' = [task EXCEPT ![c].pc = "write"] /\ spoilt' = spoilt
      BY <1>4, <2>1, EmptyType
         DEF Truncate, IInv, TypeOK, Copies, Alone, Settled, Truncated
    <2>2. CASE task' = [task EXCEPT ![c] = Idle("failed")] /\ spoilt' = TRUE /\ file' = file
      <3>1. task' = [task EXCEPT ![c] = Task("idle", Empty, "failed")]
        BY <2>2 DEF Idle
      <3>2. task[c].pc = "truncate" /\ UNCHANGED <<mem, active, crashes, durable>>
        BY <1>4 DEF Truncate
      <3>3. TypeOK' /\ Copies'
        BY <2>2, <3>1, <3>2, EmptyType DEF IInv, TypeOK, Copies, Task
      <3>4. Alone'
        BY <2>2, <3>1, <3>2 DEF IInv, TypeOK, Alone, Settled, Task
      <3> QED
        BY <3>3, <3>4 DEF IInv
    <2> QED
      BY <1>4, <2>1, <2>2 DEF Truncate
  <1>5. CASE Write(c)
    <2> DEFINE op == task'[c].op
    <2>1. /\ task[c].pc = "write"
          /\ op \in {"edit", "failed"}
          /\ task' = [task EXCEPT ![c] = Task("idle", Empty, op)]
          /\ UNCHANGED <<mem, active, crashes>>
      BY <1>5 DEF Write, Idle, Task, IInv, TypeOK
    <2>2. /\ file' \in {Saved(task[c].list), Mixture, file}
          /\ durable' \in {durable, task[c].list} /\ spoilt' \in BOOLEAN
      BY <1>5 DEF Write, IInv, TypeOK, history
    <2>3. file = Truncated =>
             \/ file' = Saved(task[c].list) /\ durable' = task[c].list
             \/ file' \in {Truncated, Mixture} /\ op = "failed" /\ spoilt'
      BY <1>5 DEF Write, Idle, Task, IInv, TypeOK
    <2>4. file' \in [state : {"none", "truncated", "mixture", "saved"}, list : Lists]
      BY <1>0, <2>2, EmptyType DEF IInv, TypeOK, Saved, Mixture
    <2> HIDE DEF op
    <2>5. TypeOK'
      BY <1>0, <2>1, <2>2, <2>4, EmptyType DEF IInv, TypeOK, Task
    <2>6. Copies'
      BY <2>1 DEF IInv, TypeOK, Copies, Task
    <2>7. Alone'
      <3>1. ASSUME active = {c}
            PROVE  Settled' /\ (op = "edit" => file' = Saved(mem))
        <4>1. file = Truncated /\ task[c].list = mem
          BY <2>1, <3>1 DEF IInv, Alone
        <4> QED
          BY <2>3, <4>1 DEF Settled, Saved
      <3> QED
        BY <2>1, <3>1 DEF IInv, TypeOK, Alone, Task
    <2> QED
      BY <2>5, <2>6, <2>7 DEF IInv
  <1> QED
    BY <1>1, <1>2, <1>3, <1>4, <1>5 DEF Persist

\* A crash leaves the file and loads it into an idle manager.
LEMMA CrashInv ==
    ASSUME IInv, Crash
    PROVE  IInv'
  <1>1. /\ mem' = file.list /\ crashes' = crashes + 1 /\ crashes < MaxCrashes
        /\ task' = [c \in Clients |-> Task("idle", Empty, "none")]
        /\ spoilt' = (spoilt \/ \E c \in Clients : task[c].pc = "write")
        /\ UNCHANGED <<file, active, durable>>
    BY DEF Crash, Idle
  <1>2. TypeOK' /\ Copies'
    BY <1>1, EmptyType, BoundsAssumption DEF IInv, TypeOK, Copies, Task
  <1>3. Alone'
    BY <1>1 DEF IInv, TypeOK, Alone, Settled, Task
  <1> QED
    BY <1>2, <1>3 DEF IInv

\* Every step preserves the invariant.
LEMMA StepInv == IInv /\ [Next]_vars => IInv'
  <1> SUFFICES ASSUME IInv, [Next]_vars PROVE IInv'
    OBVIOUS
  <1>1. CASE Next
    BY <1>1, RequestInv, PersistInv, ImportInv, CrashInv DEF Next
  <1>2. CASE UNCHANGED vars
    BY <1>2 DEF vars, IInv, TypeOK, Copies, Alone, Settled
  <1> QED
    BY <1>1, <1>2

\* The invariant holds throughout.
LEMMA Invariant == Spec => []IInv
  BY InitInv, StepInv, PTL DEF Spec

\* The manager, its requests and the file keep their types.
THEOREM TypeCorrect == Spec => []TypeOK
  <1>1. IInv => TypeOK
    BY DEF IInv
  <1> QED
    BY <1>1, Invariant, PTL

\* With one request at a time, through failed writes and crashes at any moment, a
\* restart finds the list last saved, or nothing if a write was under way or has
\* failed; and what a write that succeeded was for is in it.
THEOREM RestartAlwaysFinds == Spec => []RestartFinds
  <1>1. IInv => RestartFinds
    BY DEF IInv, Alone, Settled, RestartFinds
  <1> QED
    BY <1>1, Invariant, PTL

\* Whatever other requests do meanwhile, the list that is written was the whole
\* state of the manager at one moment.
THEOREM SnapshotsAreConsistent == Spec => SnapshotConsistent
  <1> DEFINE Snap == \A c \in Clients :
                        task[c].pc = "flags" /\ task'[c].pc = "truncate" =>
                            task'[c].list = mem
  <1>1. IInv /\ [Next]_vars => [Snap]_vars
    <2> SUFFICES ASSUME IInv, Next, NEW c \in Clients,
                        task[c].pc = "flags", task'[c].pc = "truncate"
                 PROVE  task'[c].list = mem
      OBVIOUS
    <2>1. ExportFlags(c)
      BY DEF Next, Request, Persist, Crash, block_peer, unblock_peer, whitelist_peer,
             remove_whitelist, flag_stream, unflag_stream, Change, import_list, ImportWhite,
             ImportFlags, ExportBlocked, ExportWhitelist, ExportFlags, Truncate, Write,
             Idle, Task, IInv, TypeOK
    <2> DEFINE l == [task[c].list EXCEPT !.flags = mem.flags]
    <2>2. l \in Lists /\ l.flags = mem.flags
          /\ l.blocked = task[c].list.blocked /\ l.white = task[c].list.white
      BY DEF Lists, IInv, TypeOK
    <2>3. task'[c].list = l
      BY <2>1 DEF ExportFlags, Task, IInv, TypeOK
    <2> HIDE DEF l
    <2> QED
      BY <2>2, <2>3, ListsEqual DEF IInv, TypeOK, Copies
  <1> QED
    BY <1>1, Invariant, PTL DEF Spec, SnapshotConsistent
=============================================================================
