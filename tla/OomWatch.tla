------------------------------ MODULE OomWatch ------------------------------
(***************************************************************************)
(* Which pod ran out of memory.  A kprobe on oom_kill_process leaves the   *)
(* process in oom_map, WatchOOM passes it on, and the memory plugin asks   *)
(* the process cache (sysCtlCache) for the pod of the process.  That cache *)
(* is filled by a kprobe on sys_clone, by way of kprobe_sysctl_map and     *)
(* WatchKprobeSysClone, which reads /proc/<pid>/cgroup, and once an hour   *)
(* by refreshProcCgroupInfo.                                               *)
(*                                                                         *)
(* The kernel is external: it starts processes in pods, reuses the pids of *)
(* dead ones, and kills one process at a time (oom_lock).                  *)
(***************************************************************************)
EXTENDS Integers, Sequences, FiniteSets, KernelMap

CONSTANTS
    Pid,          \* pids (0 is not one)
    UID,          \* pods
    SysMax,       \* max_entries of kprobe_sysctl_map (1024 in the code)
    OomMax,       \* max_entries of oom_map (16384)
    OomChCap,     \* capacity of oomEventChan (10)
    MaxStarts,    \* bound: processes that get one pid
    MaxKills      \* bound: calls of oom_kill_process

ASSUME OomAssumption ==
    /\ SysMax \in Nat \ {0} /\ OomMax \in Nat \ {0} /\ OomChCap \in Nat \ {0}
    /\ MaxStarts \in Nat /\ MaxKills \in Nat
    /\ Pid \subseteq Nat \ {0}

Event == [pid : Pid \cup {0}, ids : SUBSET Nat]
ReadEvent == [key : Pid, ev : Event, deleted : BOOLEAN]

\* What the maps and the reader hold is not the mark of an empty slot.
ASSUME NoneIsNoEntry == None \notin {TRUE} \cup Event \cup ReadEvent

VARIABLES
    proc,               \* external: the pod of each live process, or None
    starts,             \* processes that had each pid
    kprobe_sysctl_map,  \* pids whose process has called clone
    sysReader,          \* where WatchKprobeSysClone is with an entry
    refresher,          \* the process refreshProcCgroupInfo has read
    sysCtlCache,        \* pid -> pod, or "system", or None
    cloned,             \* history: pids whose process has called clone and has
                        \* not been an hour in the cache since
    raced,              \* history: pids refreshed across a change of process
    probe,              \* kprobe_oom_kill_process under way
    oom_map,            \* pid -> the pid stored, 0 at first, and its kills
    oomReader,          \* the event WatchOOM has read, and its key
    oomCh,              \* oomEventChan
    kills,              \* history: the process of each kill
    torn,               \* history: kills read before the probe had stored them
    refused,            \* history: kills for which oom_map was full
    settled             \* history: kills whose event the plugin has looked up

procVars == <<proc, starts, kprobe_sysctl_map, sysReader, refresher, sysCtlCache,
              cloned, raced>>
killVars == <<probe, oom_map, oomReader, oomCh, kills, torn, refused, settled>>
oomVars == <<procVars, killVars>>

Waiting == [step |-> 0, key |-> None, val |-> None]
NoProbe == [pc |-> "none", pid |-> None, slot |-> FALSE]

OomInit ==
    /\ proc = [p \in Pid |-> None]
    /\ starts = [p \in Pid |-> 0]
    /\ kprobe_sysctl_map = [p \in Pid |-> None]
    /\ sysReader = Waiting
    /\ refresher = None
    /\ sysCtlCache = [p \in Pid |-> None]
    /\ cloned = {} /\ raced = {}
    /\ probe = NoProbe
    /\ oom_map = [p \in Pid |-> None]
    /\ oomReader = None
    /\ oomCh = <<>>
    /\ kills = <<>>
    /\ torn = {} /\ refused = {} /\ settled = {}

-----------------------------------------------------------------------------
(***************************************************************************)
(* Processes and the process cache.                                        *)
(***************************************************************************)
\* External: a process starts with pid p in pod u, where it stays until it exits.
\* A child that is moved to its cgroup after clone is taken to start there.
StartProcess(p, u) ==
    /\ proc[p] = None /\ starts[p] < MaxStarts
    /\ proc' = [proc EXCEPT ![p] = u]
    /\ starts' = [starts EXCEPT ![p] = @ + 1]
    /\ UNCHANGED <<kprobe_sysctl_map, sysReader, refresher, sysCtlCache, cloned,
                   raced, killVars>>

ExitProcess(p) ==
    /\ proc[p] # None /\ probe.pid # p
    /\ proc' = [proc EXCEPT ![p] = None]
    /\ cloned' = cloned \ {p}
    /\ raced' = IF refresher # None /\ refresher.pid = p THEN raced \cup {p} ELSE raced
    /\ UNCHANGED <<starts, kprobe_sysctl_map, sysReader, refresher, sysCtlCache,
                   killVars>>

\* kprobe_sysctl_prog.  The program fills the entry in after it has inserted
\* it, but the reader uses nothing of it but the key; an entry that the reader
\* deletes in between is inserted again or was deleted before the reader looks
\* at the process.
Clone(p) ==
    /\ proc[p] # None
    /\ kprobe_sysctl_map' = UpdateElem(kprobe_sysctl_map, p, TRUE, SysMax)
    /\ cloned' = IF Fits(kprobe_sysctl_map, p, SysMax) THEN cloned \cup {p} ELSE cloned
    /\ UNCHANGED <<proc, starts, sysReader, refresher, sysCtlCache, raced, killVars>>

SysNext(p) ==
    /\ sysReader.step = 0 /\ kprobe_sysctl_map[p] # None
    /\ sysReader' = [step |-> 1, key |-> p, val |-> None]
    /\ UNCHANGED <<proc, starts, kprobe_sysctl_map, refresher, sysCtlCache, cloned,
                   raced, killVars>>

\* Mutant: the entry is deleted when the process has been read.
SysCallsReadFirst == <<"read", "delete", "update">>

\* What WatchKprobeSysClone does with an entry, in this order.
SysCalls == <<"delete", "read", "update">>

\* readCgroupInfoFromPID: a dead process has no cgroup file, and its entry then
\* says that it is of the system.
CgroupOf(p) == IF proc[p] = None THEN "system" ELSE proc[p]

SysStep ==
    /\ sysReader.step > 0
    /\ LET r == sysReader  call == SysCalls[r.step]
       IN  /\ kprobe_sysctl_map' = IF call = "delete"
                                   THEN DeleteElem(kprobe_sysctl_map, r.key)
                                   ELSE kprobe_sysctl_map
           /\ sysReader' = IF call = "update" THEN Waiting
                           ELSE [r EXCEPT !.step = @ + 1,
                                     !.val = IF call = "read" THEN CgroupOf(r.key) ELSE @]
           /\ sysCtlCache' = IF call = "update"
                             THEN [sysCtlCache EXCEPT ![r.key] = r.val] ELSE sysCtlCache
    /\ UNCHANGED <<proc, starts, refresher, cloned, raced, killVars>>

\* refreshProcCgroupInfo, process by process: read its cgroups, then Set.  A
\* process that is gone is skipped.
RefreshRead(p) ==
    /\ refresher = None /\ proc[p] # None
    /\ refresher' = [pid |-> p, val |-> proc[p]]
    /\ UNCHANGED <<proc, starts, kprobe_sysctl_map, sysReader, sysCtlCache, cloned,
                   raced, killVars>>

RefreshSet ==
    /\ refresher # None
    /\ sysCtlCache' = [sysCtlCache EXCEPT ![refresher.pid] = refresher.val]
    /\ refresher' = None
    /\ UNCHANGED <<proc, starts, kprobe_sysctl_map, sysReader, cloned, raced,
                   killVars>>

\* An entry is an hour old.
SysExpire(p) ==
    /\ sysCtlCache[p] # None
    /\ sysCtlCache' = [sysCtlCache EXCEPT ![p] = None]
    /\ cloned' = cloned \ {p}
    /\ UNCHANGED <<proc, starts, kprobe_sysctl_map, sysReader, refresher, raced,
                   killVars>>

Lives == \E p \in Pid : (\E u \in UID : StartProcess(p, u)) \/ ExitProcess(p)

ProcNext ==
    \/ \E p \in Pid : Clone(p) \/ SysNext(p) \/ RefreshRead(p) \/ SysExpire(p)
    \/ SysStep
    \/ RefreshSet

-----------------------------------------------------------------------------
(***************************************************************************)
(* OOM events.                                                             *)
(***************************************************************************)
Kill == Len(kills)

\* Mutant: BPF_ANY, which empties an event that has not been read.
OomMapAfterInsertAny(p) ==
    UpdateElem(oom_map, p, [pid |-> 0, ids |-> {Kill + 1}], OomMax)

\* bpf_map_update_elem(..., BPF_NOEXIST): an event that waits is kept.
OomMapAfterInsert(p) ==
    IF oom_map[p] # None
    THEN [oom_map EXCEPT ![p].ids = @ \cup {Kill + 1}]
    ELSE UpdateElem(oom_map, p, [pid |-> 0, ids |-> {Kill + 1}], OomMax)

OomInsert(p) ==
    /\ probe = NoProbe /\ proc[p] # None /\ Kill < MaxKills
    /\ oom_map' = OomMapAfterInsert(p)
    /\ kills' = Append(kills, p)
    /\ refused' = IF Fits(oom_map, p, OomMax) THEN refused ELSE refused \cup {Kill + 1}
    /\ probe' = [pc |-> "inserted", pid |-> p, slot |-> FALSE]
    /\ UNCHANGED <<procVars, oomReader, oomCh, torn, settled>>

\* The lookup; when the entry is gone, an empty one is inserted again.
OomLookup ==
    /\ probe.pc = "inserted"
    /\ IF oom_map[probe.pid] # None
       THEN /\ probe' = [probe EXCEPT !.pc = "found", !.slot = TRUE]
            /\ UNCHANGED <<oom_map, refused>>
       ELSE /\ probe' = NoProbe
            /\ oom_map' = UpdateElem(oom_map, probe.pid,
                                     [pid |-> 0, ids |-> {Kill}], OomMax)
            /\ refused' = IF Fits(oom_map, probe.pid, OomMax) THEN refused
                          ELSE refused \cup {Kill}
    /\ UNCHANGED <<procVars, oomReader, oomCh, kills, torn, settled>>

\* s->pid = pid, into the entry or, when it was deleted, into a free slot.
OomFill ==
    /\ probe.pc = "found"
    /\ oom_map' = IF probe.slot THEN [oom_map EXCEPT ![probe.pid].pid = probe.pid]
                  ELSE oom_map
    /\ probe' = NoProbe
    /\ UNCHANGED <<procVars, oomReader, oomCh, kills, torn, refused, settled>>

\* WatchOOM: Next and DecodeMapItem.
OomNext(p) ==
    /\ oomReader = None /\ oom_map[p] # None
    /\ oomReader' = [key |-> p, ev |-> oom_map[p], deleted |-> FALSE]
    /\ torn' = IF oom_map[p].pid = 0 THEN torn \cup oom_map[p].ids ELSE torn
    /\ UNCHANGED <<procVars, probe, oom_map, oomCh, kills, refused, settled>>

\* Delete, which finds the key as nothing else deletes.  A kill of the same
\* process that came in between shares the event that is being passed on.
OomDelete ==
    /\ oomReader # None /\ ~oomReader.deleted
    /\ LET p == oomReader.key
       IN  /\ oomReader' = [oomReader EXCEPT !.deleted = TRUE,
                                             !.ev.ids = @ \cup oom_map[p].ids]
           /\ torn' = IF oomReader.ev.pid = 0 THEN torn \cup oom_map[p].ids ELSE torn
           /\ oom_map' = DeleteElem(oom_map, p)
           /\ probe' = IF probe.pid = p THEN [probe EXCEPT !.slot = FALSE] ELSE probe
    /\ UNCHANGED <<procVars, oomCh, kills, refused, settled>>

OomSend ==
    /\ oomReader # None /\ oomReader.deleted
    /\ Len(oomCh) < OomChCap
    /\ oomCh' = Append(oomCh, oomReader.ev)
    /\ oomReader' = None
    /\ UNCHANGED <<procVars, probe, oom_map, kills, torn, refused, settled>>

\* watchForOoms: the event of a process whose pod sysCtlCache and podCache know
\* becomes a metric, any other is logged; either way it has been looked up, by
\* the pid that it holds.
OomHandle ==
    /\ oomCh # <<>>
    /\ LET ev == Head(oomCh)
       IN  settled' = settled \cup {[kill |-> i, pid |-> ev.pid] : i \in ev.ids}
    /\ oomCh' = Tail(oomCh)
    /\ UNCHANGED <<procVars, probe, oom_map, oomReader, kills, torn, refused>>

KillNext ==
    \/ \E p \in Pid : OomInsert(p) \/ OomNext(p)
    \/ OomLookup \/ OomFill \/ OomDelete \/ OomSend \/ OomHandle

-----------------------------------------------------------------------------

\* A process that has called clone and whose entry has been worked off is known
\* by the pod it runs in, even when its pid belonged to a process of another
\* pod whose entry was waiting or being read when the pid changed hands.  The
\* hourly refresh is the exception: it stores what it read of a process that
\* has died since.
ProcessKnown ==
    \A p \in cloned \ raced :
        kprobe_sysctl_map[p] = None /\ sysReader.key # p
        => sysCtlCache[p] = proc[p]

\* No kill is forgotten: when the probe has returned its event waits in oom_map
\* under the pid of the process, is on its way to the memory plugin with that
\* pid, or has been looked up by it.  It is not only when WatchOOM read the
\* entry between the probe's insert and its s->pid = pid, or the map was full.
KillsCounted ==
    \A i \in (1 .. Kill) \ (torn \cup refused) :
        LET p == kills[i]
            ours(ev) == i \in ev.ids /\ ev.pid = p
        IN  \/ probe.pid = p
            \/ oom_map[p] # None /\ ours(oom_map[p])
            \/ oomReader # None /\ ours(oomReader.ev)
            \/ \E n \in DOMAIN oomCh : ours(oomCh[n])
            \/ \E s \in settled : s.kill = i /\ s.pid = p

=============================================================================
