------------------------------- MODULE Moderation -------------------------------
(***************************************************************************)
(* The moderation manager (core/src/moderation/manager.rs) as the node     *)
(* uses it: administrators' requests change the block list, the whitelist  *)
(* and the flags, every change is followed by an export of all three and a *)
(* write of the file, and a restarted node loads the file                  *)
(* (node/src/main.rs:283-299).                                             *)
(*                                                                         *)
(* Each of the three collections has its own read-write lock.  A change    *)
(* locks, changes and unlocks without an await in between; an export       *)
(* takes the three read locks one after the other and keeps them.          *)
(* std::fs::write truncates the file and then writes it.  Reasons,         *)
(* reporters and timestamps of entries are left out, so the flags of a     *)
(* stream are their number.                                                *)
(***************************************************************************)
EXTENDS Integers, FiniteSets

CONSTANTS
    Peers, StreamIds,
    Clients,     \* requests the web server may handle at the same time
    Imports,     \* lists an administrator may import
    MaxFlags,    \* bound: flags on a stream
    MaxCrashes   \* bound: crashes

VARIABLES
    mem,      \* blocked_peers, whitelist and flags
    file,     \* moderation.json
    task,     \* what each request is doing
    active,   \* the requests that are ever made; chosen at the start
    crashes,
    durable,  \* history: the list that was last written without an error
    spoilt    \* history: a write has failed or died since then

vars == <<mem, file, task, active, crashes, durable, spoilt>>
history == <<durable, spoilt>>

Lists == [blocked : SUBSET Peers, white : SUBSET Peers, flags : [StreamIds -> 0..MaxFlags]]
Empty == [blocked |-> {}, white |-> {}, flags |-> [s \in StreamIds |-> 0]]
ASSUME BoundsAssumption == {MaxFlags, MaxCrashes} \subseteq Nat
ASSUME ImportsAssumption == Imports \subseteq Lists

\* The file: absent, truncated, a list, or a mixture that does not parse
NoFile == [state |-> "none", list |-> Empty]
Truncated == [state |-> "truncated", list |-> Empty]
Mixture == [state |-> "mixture", list |-> Empty]
Saved(l) == [state |-> "saved", list |-> l]

\* list is the export so far, op the last change the request made
Task(pc, list, op) == [pc |-> pc, list |-> list, op |-> op]
Idle(op) == Task("idle", Empty, op)

\* Mutant: the export releases the block list before it reads the flags
HeldBriefly(c) == IF task[c].pc = "whitelist" THEN {"blocked"} ELSE {}

\* The read locks an export holds at each of its labels
Held(c) == IF task[c].pc = "whitelist" THEN {"blocked"}
           ELSE IF task[c].pc = "flags" THEN {"blocked", "white"} ELSE {}
Writable(l) == \A c \in Clients : l \notin Held(c)

-----------------------------------------------------------------------------
(* Changes.  Each is followed by maybe_persist, unless it changed nothing and *)
(* says so.                                                                   *)

Change(c, lock, new) ==
    /\ c \in active
    /\ task[c].pc = "idle"
    /\ Writable(lock)
    /\ mem' = new
    /\ task' = [task EXCEPT ![c] = Task("blocked", Empty, "edit")]
    /\ UNCHANGED <<file, active, crashes, history>>

\* Blocking a blocked peer replaces its entry and persists as well
block_peer(c, p) == Change(c, "blocked", [mem EXCEPT !.blocked = @ \cup {p}])

unblock_peer(c, p) ==
    /\ p \in mem.blocked
    /\ Change(c, "blocked", [mem EXCEPT !.blocked = @ \ {p}])

whitelist_peer(c, p) == Change(c, "white", [mem EXCEPT !.white = @ \cup {p}])

remove_whitelist(c, p) ==
    /\ p \in mem.white
    /\ Change(c, "white", [mem EXCEPT !.white = @ \ {p}])

flag_stream(c, s) ==
    /\ mem.flags[s] < MaxFlags
    /\ Change(c, "flags", [mem EXCEPT !.flags[s] = @ + 1])

\* Mutant: returns without maybe_persist
UnflagForgetsToPersist(c, s) ==
    /\ c \in active
    /\ task[c].pc = "idle"
    /\ Writable("flags")
    /\ mem' = [mem EXCEPT !.flags[s] = 0]
    /\ UNCHANGED <<file, task, active, crashes, history>>

\* All flags of the stream go
unflag_stream(c, s) ==
    /\ mem.flags[s] > 0
    /\ Change(c, "flags", [mem EXCEPT !.flags[s] = 0])

\* import_list merges under one lock after the other and does not persist.
import_list(c, l) ==
    /\ c \in active
    /\ task[c].pc = "idle"
    /\ Writable("blocked")
    /\ mem' = [mem EXCEPT !.blocked = @ \cup l.blocked]
    /\ task' = [task EXCEPT ![c] = Task("import_white", l, "import")]
    /\ UNCHANGED <<file, active, crashes, history>>

ImportWhite(c) ==
    /\ task[c].pc = "import_white"
    /\ Writable("white")
    /\ mem' = [mem EXCEPT !.white = @ \cup task[c].list.white]
    /\ task' = [task EXCEPT ![c].pc = "import_flags"]
    /\ UNCHANGED <<file, active, crashes, history>>

Extended(f, g) == [s \in StreamIds |-> f[s] + g[s]]

ImportFlags(c) ==
    /\ task[c].pc = "import_flags"
    /\ \A s \in StreamIds : Extended(mem.flags, task[c].list.flags)[s] <= MaxFlags
    /\ mem' = [mem EXCEPT !.flags = Extended(@, task[c].list.flags)]
    /\ task' = [task EXCEPT ![c] = Idle("import")]
    /\ UNCHANGED <<file, active, crashes, history>>

-----------------------------------------------------------------------------
(* maybe_persist: export_list, then save_to_file *)

ExportBlocked(c) ==
    /\ task[c].pc = "blocked"
    /\ task' = [task EXCEPT ![c] =
                  Task("whitelist", [@.list EXCEPT !.blocked = mem.blocked], "edit")]
    /\ UNCHANGED <<mem, file, active, crashes, history>>

ExportWhitelist(c) ==
    /\ task[c].pc = "whitelist"
    /\ task' = [task EXCEPT ![c] =
                  Task("flags", [@.list EXCEPT !.white = mem.white], "edit")]
    /\ UNCHANGED <<mem, file, active, crashes, history>>

\* The third collection; then the read locks are released
ExportFlags(c) ==
    /\ task[c].pc = "flags"
    /\ task' = [task EXCEPT ![c] =
                  Task("truncate", [@.list EXCEPT !.flags = mem.flags], "edit")]
    /\ UNCHANGED <<mem, file, active, crashes, history>>

\* The file may not open: then it stays as it was, and the error is only logged.
Truncate(c) ==
    /\ task[c].pc = "truncate"
    /\ \/ /\ file' = Truncated
          /\ task' = [task EXCEPT ![c].pc = "write"]
          /\ UNCHANGED spoilt
       \/ /\ task' = [task EXCEPT ![c] = Idle("failed")]
          /\ spoilt' = TRUE
          /\ UNCHANGED file
    /\ UNCHANGED <<mem, active, crashes, durable>>

\* Of a longer, different list that a request wrote since the truncation, the end
\* stays behind.  A write that fails leaves the file truncated or half written,
\* and the error is only logged.
Write(c) ==
    /\ task[c].pc = "write"
    /\ \/ /\ file' = Saved(task[c].list)
          /\ task' = [task EXCEPT ![c] = Idle("edit")]
          /\ durable' = task[c].list
          /\ spoilt' = FALSE
       \/ /\ file \notin {Truncated, Saved(task[c].list)}
          /\ file' = Mixture
          /\ task' = [task EXCEPT ![c] = Idle("edit")]
          /\ UNCHANGED history
       \/ /\ file' \in {file, Mixture}
          /\ task' = [task EXCEPT ![c] = Idle("failed")]
          /\ spoilt' = TRUE
          /\ UNCHANGED durable
    /\ UNCHANGED <<mem, active, crashes>>

\* The process dies and is started again: load_from_file into a new manager; with
\* no file, or one that does not parse, the new manager starts empty.
Crash ==
    /\ crashes < MaxCrashes
    /\ crashes' = crashes + 1
    /\ mem' = file.list
    /\ task' = [c \in Clients |-> Idle("none")]
    /\ spoilt' = (spoilt \/ \E c \in Clients : task[c].pc = "write")
    /\ UNCHANGED <<file, active, durable>>

-----------------------------------------------------------------------------
Init ==
    /\ mem = Empty
    /\ file = NoFile
    /\ task = [c \in Clients |-> Idle("none")]
    /\ active \in (SUBSET Clients) \ {{}}
    /\ crashes = 0
    /\ durable = Empty
    /\ spoilt = FALSE

Persist(c) == \/ ExportBlocked(c) \/ ExportWhitelist(c) \/ ExportFlags(c)
              \/ Truncate(c) \/ Write(c)

Request(c) ==
    \/ \E p \in Peers : \/ block_peer(c, p) \/ unblock_peer(c, p)
                        \/ whitelist_peer(c, p) \/ remove_whitelist(c, p)
    \/ \E s \in StreamIds : flag_stream(c, s) \/ unflag_stream(c, s)
    \/ \E l \in Imports : import_list(c, l)

Next == \/ \E c \in Clients : \/ Request(c) \/ Persist(c)
                              \/ ImportWhite(c) \/ ImportFlags(c)
        \/ Crash

Spec == Init /\ [][Next]_vars

-----------------------------------------------------------------------------
(* Properties *)

TypeOK ==
    /\ mem \in Lists
    /\ file \in [state : {"none", "truncated", "mixture", "saved"}, list : Lists]
    /\ task \in [Clients -> [pc : {"idle", "blocked", "whitelist", "flags", "truncate",
                                   "write", "import_white", "import_flags"},
                             list : Lists, op : {"none", "edit", "import", "failed"}]]
    /\ active \subseteq Clients
    /\ crashes \in 0..MaxCrashes
    /\ durable \in Lists
    /\ spoilt \in BOOLEAN

\* What is written was the whole state at one moment: when the third collection
\* has been copied, the copies of the first two still are what the manager holds,
\* although other requests change them between the copies.
SnapshotConsistent ==
    [][\A c \in Clients : task[c].pc = "flags" /\ task'[c].pc = "truncate" =>
          task'[c].list = mem]_vars

\* With one request at a time, a restart finds the list that was last saved, at
\* any moment but two: while a file is being written, which is truncated first, and
\* from a write that failed until the next that succeeds.  Then the restart may find
\* no list at all, not even the older changes, but never a wrong one.  A change
\* whose write succeeded is in the list; a failure is only logged, so to the caller
\* both look alike (manager.rs:211-213).
RestartFinds ==
    \A c \in Clients : active = {c} =>
        /\ \/ file.list = durable /\ file.state \in {"none", "saved"}
           \/ file \in {Truncated, Mixture} /\ (task[c].pc = "write" \/ spoilt)
        /\ task[c].pc = "idle" /\ task[c].op = "edit" => file = Saved(mem)
=============================================================================
