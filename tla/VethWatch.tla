----------------------------- MODULE VethWatch -----------------------------
(***************************************************************************)
(* How probes follow the pods of the node.  The kprobe plugin keeps the    *)
(* table netLinks of veth interfaces that have a neighbour (a pod IP) and  *)
(* refreshes it every 5 s; the rpc, http and kafka plugins load one probe  *)
(* per interface, first for the table they read at start and then for the  *)
(* events the refresh sends to every registered listener.                  *)
(*                                                                         *)
(* The interfaces themselves are external: netlink is asked for them, and  *)
(* a filter attached to an interface ends with the interface.              *)
(***************************************************************************)
EXTENDS Integers, Sequences, FiniteSets

CONSTANTS
    Index,      \* interface indices
    Plugins,    \* the plugins that probe interfaces
    ChCap,      \* capacity of a listener's channel (10 in the code)
    MaxChanges  \* bound: changes of the interfaces

ASSUME VethWatchAssumption ==
    /\ Plugins \subseteq {"rpc", "http", "kafka"}
    /\ ChCap \in Nat \ {0}
    /\ MaxChanges \in Nat

VARIABLES
    link,      \* external: "none", "bare" (no single neighbour), "ready", "gone"
    changes,   \* number of changes of link so far
    netLinks,  \* indices in provider.netLinks
    watcher,   \* the refresh goroutine: pc, what the diff found, what to send
    listeners, \* provider.netLinkListeners: the plugins registered
    ch,        \* the channel of each plugin
    plugin,    \* Gather of each plugin: pc, and the links it has yet to load
    probes,    \* rpcProbes, engines, probes: indices in each plugin's table
    filters,   \* number of filters of each plugin on each interface
    exited,    \* klog.Fatalf has ended the agent
    missed,    \* history: links whose last event a plugin was too late for
    failed,    \* history: links whose last Load failed
    flaps      \* history: LinkDelete events a plugin handled for a link

vars == <<link, changes, netLinks, watcher, listeners, ch, plugin, probes,
          filters, exited, missed, failed, flaps>>

Event == [type : {"add", "delete"}, index : Index]

TypeOK ==
    /\ link \in [Index -> {"none", "bare", "ready", "gone"}]
    /\ changes \in 0 .. MaxChanges
    /\ netLinks \subseteq Index
    /\ watcher \in [pc : {"idle", "update", "notify"},
                    added : SUBSET (Index \X {1, 2}), removed : SUBSET Index,
                    event : Event \cup {<<>>}, to : SUBSET Plugins]
    /\ listeners \subseteq Plugins
    /\ ch \in [Plugins -> Seq(Event)]
    /\ \A p \in Plugins : Len(ch[p]) <= ChCap
    /\ plugin \in [Plugins -> [pc : {"start", "load", "loop"},
                               todo : SUBSET Index, seen : SUBSET Index]]
    /\ probes \in [Plugins -> SUBSET Index]
    /\ filters \in [Plugins -> [Index -> Nat]]
    /\ exited \in BOOLEAN
    /\ missed \in [Plugins -> SUBSET Index]
    /\ failed \in [Plugins -> SUBSET Index]
    /\ flaps \in [Plugins -> [Index -> Nat]]

\* getAllVethes: interfaces with exactly one neighbour, or a neighbour on
\* their bridge.
Vethes == {i \in Index : link[i] = "ready"}

\* provider.Init fills netLinks before any plugin gathers.
Init ==
    /\ link \in [Index -> {"none", "bare", "ready"}]
    /\ changes = 0
    /\ netLinks = Vethes
    /\ watcher = [pc |-> "idle", added |-> {}, removed |-> {}, event |-> <<>>,
                  to |-> {}]
    /\ listeners = {}
    /\ ch = [p \in Plugins |-> <<>>]
    /\ plugin = [p \in Plugins |-> [pc |-> "start", todo |-> {}, seen |-> {}]]
    /\ probes = [p \in Plugins |-> {}]
    /\ filters = [p \in Plugins |-> [i \in Index |-> 0]]
    /\ exited = FALSE
    /\ missed = [p \in Plugins |-> {}]
    /\ failed = [p \in Plugins |-> {}]
    /\ flaps = [p \in Plugins |-> [i \in Index |-> 0]]

\* External: a pod's interface appears, gets or loses its neighbour, or goes
\* away with everything attached to it.
LinkChange(i, to) ==
    /\ changes < MaxChanges
    /\ <<link[i], to>> \in {<<"none", "bare">>, <<"none", "ready">>,
                            <<"bare", "ready">>, <<"ready", "bare">>,
                            <<"bare", "gone">>, <<"ready", "gone">>}
    /\ link' = [link EXCEPT ![i] = to]
    /\ changes' = changes + 1
    /\ filters' = [p \in Plugins |->
                      [filters[p] EXCEPT ![i] = IF to = "gone" THEN 0 ELSE @]]
    /\ UNCHANGED <<netLinks, watcher, listeners, ch, plugin, probes, exited,
                   missed, failed, flaps>>

-----------------------------------------------------------------------------
(* refreshVethes, in the goroutine of Start.                               *)

\* getVethesDiff.  An interface reached through two neighbours is listed twice
\* (`twice'), and then added twice.  On an error nothing is done.
GetVethesDiff(twice) ==
    LET new == Vethes \ netLinks
    IN  /\ watcher.pc = "idle"
        /\ twice \subseteq new
        /\ watcher' = [watcher EXCEPT
                          !.pc = "update",
                          !.added = (new \X {1}) \cup (twice \X {2}),
                          !.removed = netLinks \ Vethes]
        /\ UNCHANGED <<link, changes, netLinks, listeners, ch, plugin, probes,
                       filters, exited, missed, failed, flaps>>

\* The critical section of refreshVethes.
UpdateLinks ==
    /\ watcher.pc = "update"
    /\ netLinks' = (netLinks \cup {a[1] : a \in watcher.added}) \ watcher.removed
    /\ watcher' = [watcher EXCEPT !.pc = "notify"]
    /\ UNCHANGED <<link, changes, listeners, ch, plugin, probes, filters, exited,
                   missed, failed, flaps>>

\* A plugin between GetVethes and RegisterNetLinkListener does not hear of
\* event e, and the table it read does not reflect it.
TooLate(p, e) ==
    /\ plugin[p].pc = "load"
    /\ e.type = "add" <=> e.index \notin plugin[p].seen

\* The next event, additions first; the slice of listeners is read anew, and
\* without the lock, for each event.
NextEvent(e) ==
    /\ watcher.pc = "notify"
    /\ watcher.to = {}
    /\ \/ /\ e.type = "add"
          /\ \E a \in watcher.added :
                /\ e.index = a[1]
                /\ watcher' = [watcher EXCEPT !.added = @ \ {a}, !.event = e,
                                              !.to = listeners]
       \/ /\ e.type = "delete"
          /\ watcher.added = {}
          /\ e.index \in watcher.removed
          /\ watcher' = [watcher EXCEPT !.removed = @ \ {e.index}, !.event = e,
                                        !.to = listeners]
    /\ missed' = [p \in Plugins |-> IF TooLate(p, e) THEN missed[p] \cup {e.index}
                                    ELSE missed[p]]
    /\ UNCHANGED <<link, changes, netLinks, listeners, ch, plugin, probes,
                   filters, exited, failed, flaps>>

\* ch <- NeighLinkEvent{...} blocks while the listener's channel is full.
SendEvent(p) ==
    /\ p \in watcher.to
    /\ Len(ch[p]) < ChCap
    /\ ch' = [ch EXCEPT ![p] = Append(@, watcher.event)]
    /\ watcher' = [watcher EXCEPT !.to = @ \ {p}]
    /\ UNCHANGED <<link, changes, netLinks, listeners, plugin, probes, filters,
                   exited, missed, failed, flaps>>

EndRefresh ==
    /\ watcher.pc = "notify"
    /\ watcher.to = {} /\ watcher.added = {} /\ watcher.removed = {}
    /\ watcher' = [watcher EXCEPT !.pc = "idle", !.event = <<>>]
    /\ UNCHANGED <<link, changes, netLinks, listeners, ch, plugin, probes,
                   filters, exited, missed, failed, flaps>>

-----------------------------------------------------------------------------
(* Gather of the rpc, http and kafka plugins.                              *)

GetVethes(p) ==
    /\ plugin[p].pc = "start"
    /\ plugin' = [plugin EXCEPT ![p] = [pc |-> "load", todo |-> netLinks,
                                        seen |-> netLinks]]
    /\ UNCHANGED <<link, changes, netLinks, watcher, listeners, ch, probes,
                   filters, exited, missed, failed, flaps>>

\* Load opens a raw socket on the interface, which fails if it is gone, and
\* may fail before that; what follows the attaching is a Put into a new map.
MayLoad(i, ok) == ok => link[i] # "gone"

\* One iteration of the loop over GetVethes.  A failed Load is logged by rpc
\* and http, and ends the agent in kafka.
LoadInitial(p, i, ok) ==
    /\ plugin[p].pc = "load"
    /\ i \in plugin[p].todo
    /\ MayLoad(i, ok)
    /\ plugin' = [plugin EXCEPT ![p].todo = @ \ {i}]
    /\ IF ok
       THEN /\ probes' = [probes EXCEPT ![p] = @ \cup {i}]
            /\ filters' = [filters EXCEPT ![p][i] = @ + 1]
            /\ UNCHANGED <<failed, exited>>
       ELSE /\ failed' = [failed EXCEPT ![p] = @ \cup {i}]
            /\ exited' = (p = "kafka")
            /\ UNCHANGED <<probes, filters>>
    /\ UNCHANGED <<link, changes, netLinks, watcher, listeners, ch, missed, flaps>>

RegisterNetLinkListener(p) ==
    /\ plugin[p].pc = "load"
    /\ plugin[p].todo = {}
    /\ listeners' = listeners \cup {p}
    /\ plugin' = [plugin EXCEPT ![p].pc = "loop"]
    /\ UNCHANGED <<link, changes, netLinks, watcher, ch, probes, filters, exited,
                   missed, failed, flaps>>

\* Mutant: no plugin looks whether the interface has a probe.
KnowsNever(p, i) == FALSE

\* rpc and kafka look the index up before they load; http does not.
Knows(p, i) == p # "http" /\ i \in probes[p]

\* Mutant: `return' for `continue'.
AfterFailedLoadReturns(p) == [plugin EXCEPT ![p].pc = "ended"]

\* A failed Load is logged and the loop continues.
AfterFailedLoad(p) == plugin

\* case kprobe.LinkAdd
HandleAdd(p, ok) ==
    LET i == Head(ch[p]).index
    IN  /\ plugin[p].pc = "loop"
        /\ ch[p] # <<>>
        /\ Head(ch[p]).type = "add"
        /\ MayLoad(i, ok)
        /\ ch' = [ch EXCEPT ![p] = Tail(@)]
        /\ missed' = [missed EXCEPT ![p] = @ \ {i}]
        /\ IF Knows(p, i)
           THEN UNCHANGED <<probes, filters, failed, plugin>>
           ELSE IF ok
           THEN /\ probes' = [probes EXCEPT ![p] = @ \cup {i}]
                /\ filters' = [filters EXCEPT ![p][i] = @ + 1]
                /\ failed' = [failed EXCEPT ![p] = @ \ {i}]
                /\ UNCHANGED plugin
           ELSE /\ failed' = [failed EXCEPT ![p] = @ \cup {i}]
                /\ plugin' = AfterFailedLoad(p)
                /\ UNCHANGED <<probes, filters>>
        /\ UNCHANGED <<link, changes, netLinks, watcher, listeners, exited, flaps>>

\* Mutant: the entry stays.
ProbesAfterDeleteKept(p, i) == probes[p]

ProbesAfterDelete(p, i) == probes[p] \ {i}

\* Mutant: the probe is closed without looking whether there is one.
FiltersAfterDeleteUnchecked(p, i) ==
    filters[p][i] - (IF p = "http" THEN 1 ELSE 0)

\* Only the http probe detaches its filter.  Close of the rpc probe ends its
\* kprobes and leaves the raw socket; kafka closes nothing.
FiltersAfterDelete(p, i) ==
    IF p = "http" /\ i \in probes[p] /\ filters[p][i] > 0
    THEN filters[p][i] - 1
    ELSE filters[p][i]

\* case kprobe.LinkDelete
HandleDelete(p) ==
    LET i == Head(ch[p]).index
    IN  /\ plugin[p].pc = "loop"
        /\ ch[p] # <<>>
        /\ Head(ch[p]).type = "delete"
        /\ ch' = [ch EXCEPT ![p] = Tail(@)]
        /\ missed' = [missed EXCEPT ![p] = @ \ {i}]
        /\ failed' = [failed EXCEPT ![p] = @ \ {i}]
        /\ probes' = [probes EXCEPT ![p] = ProbesAfterDelete(p, i)]
        /\ filters' = [filters EXCEPT ![p][i] = FiltersAfterDelete(p, i)]
        /\ flaps' = [flaps EXCEPT ![p][i] = @ + 1]
        /\ UNCHANGED <<link, changes, netLinks, watcher, listeners, plugin, exited>>

-----------------------------------------------------------------------------

Watch ==
    \/ \E twice \in SUBSET Index : GetVethesDiff(twice)
    \/ UpdateLinks
    \/ \E e \in Event : NextEvent(e)
    \/ \E p \in Plugins : SendEvent(p)
    \/ EndRefresh

Handle(p) == HandleDelete(p) \/ \E ok \in BOOLEAN : HandleAdd(p, ok)

Gather(p) ==
    \/ GetVethes(p)
    \/ \E i \in Index, ok \in BOOLEAN : LoadInitial(p, i, ok)
    \/ RegisterNetLinkListener(p)
    \/ Handle(p)

Next ==
    /\ ~exited
    /\ \/ \E i \in Index, to \in {"bare", "ready", "gone"} : LinkChange(i, to)
       \/ Watch
       \/ \E p \in Plugins : Gather(p)

Spec == Init /\ [][Next]_vars

\* The refresh goroutine and the goroutine of each plugin are scheduled, and
\* the ticker fires.
Fairness ==
    /\ WF_vars(~exited /\ Watch)
    /\ \A p \in Plugins : WF_vars(~exited /\ Gather(p))

FairSpec == Spec /\ Fairness

-----------------------------------------------------------------------------
(* Properties.                                                             *)

\* Nothing is under way between the refresh and plugin p.
Quiet(p) ==
    /\ watcher.pc = "idle"
    /\ plugin[p].pc = "loop"
    /\ ch[p] = <<>>

\* When nothing is under way a plugin's probes are those of netLinks, except
\* for links whose Load failed and links that changed while the plugin was
\* between GetVethes and RegisterNetLinkListener.
ProbesFollowLinks ==
    \A p \in Plugins :
        Quiet(p) =>
            \A i \in Index \ (missed[p] \cup failed[p]) :
                i \in probes[p] <=> i \in netLinks

\* An interface that keeps its neighbour has one rpc and one kafka filter at
\* most, though it may be announced twice: listed twice, or both in the table
\* read at start and in an event.  Each LinkDelete leaves one filter behind.
OneFilter ==
    \A p \in Plugins \ {"http"}, i \in Index :
        filters[p][i] <= 1 + flaps[p][i]

\* A refresh always completes: a full channel delays it until the plugin has
\* handled an event, and no plugin waits for the refresh while it does.
RefreshCompletes == watcher.pc # "idle" ~> (watcher.pc = "idle" \/ exited)

\* Once the interfaces have stopped changing, which MaxChanges makes them do,
\* each plugin ends up with a probe on every ready interface and none on one
\* that is gone, and stays so, with the same exceptions.
ProbesConverge ==
    <>[](\/ exited
         \/ \A p \in Plugins, i \in Index :
                /\ link[i] = "ready" => i \in probes[p] \cup missed[p] \cup failed[p]
                /\ link[i] = "gone" => i \notin probes[p] \ missed[p])

=============================================================================
