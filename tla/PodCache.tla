------------------------------ MODULE PodCache ------------------------------
(***************************************************************************)
(* Who is behind an address: podCache (by UID and by IP) and serviceCache  *)
(* (by cluster IP) of the kprobe plugin.  Three goroutines write them: the *)
(* handlers of the pod informer and of the service informer, which follow  *)
(* the API server's events, and the refresh loop, which applies whole      *)
(* lists.  Every one is a sequence of Set and Delete calls that the others *)
(* may interleave with; each entry expires some time after its Set.        *)
(*                                                                         *)
(* The cluster is external: pods are created without an IP, get one, may   *)
(* complete or be evicted (which frees the IP but leaves it in their       *)
(* status) and are deleted.  Of a service only the cluster IP matters, and *)
(* one that does not exist is treated like one that has none, so creation, *)
(* update and deletion are all changes of it.  Time is counted in units of *)
(* which the refresh period of pods is PodPeriod.                          *)
(***************************************************************************)
EXTENDS Integers, Sequences, FiniteSets

CONSTANTS
    Pod,          \* pods, by UID
    Svc,          \* services
    PodIP,        \* addresses of pods
    ClusterIP,    \* addresses of services
    NoIP,         \* the empty PodIP of a pod; a service that is not there, is
                  \* headless or of another type than ClusterIP
    PodTtl,       \* life of an entry of podCache (30 minutes in the code)
    DefaultTtl,   \* what cache.New was told (an hour)
    SvcTtl,       \* life of an entry of serviceCache (an hour)
    PodPeriod,    \* podTicker (30 minutes)
    SvcPeriod,    \* svcTicker (a minute)
    MaxDelay,     \* a list is applied and an event handled within this time
    MaxNow,       \* bound: time
    MaxChanges    \* bound: changes of a service's cluster IP

ASSUME PodCacheAssumption ==
    /\ PodTtl \in Nat /\ DefaultTtl \in Nat /\ SvcTtl \in Nat
    /\ PodPeriod \in Nat \ {0} /\ SvcPeriod \in Nat \ {0}
    /\ MaxDelay \in Nat /\ MaxNow \in Nat /\ MaxChanges \in Nat
    /\ NoIP \notin PodIP \cup ClusterIP

\* The keys of podCache are none of serviceCache.
ASSUME TwoCaches == (Pod \cup PodIP) \cap ClusterIP = {}

Worker == {"pod informer", "service informer", "refresh"}

VARIABLES
    pods,       \* external: phase and IP of each pod, and when it was deleted
    svcs,       \* external: cluster IP of each service, and when it left each
    changes,    \* how often services changed
    events,     \* the events each informer has yet to handle
    todo,       \* the Set and Delete calls each goroutine has yet to make
    list,       \* the items of its list that the refresh has yet to come to
    since,      \* when that list was read
    due,        \* the lists whose ticker has fired
    started,    \* Start has applied its first lists and runs the informers
    cache,      \* podCache and serviceCache: key -> object and deadline
    crashed,    \* the agent has panicked
    now

podVars == <<pods, svcs, changes, events, todo, list, since, due, started,
             cache, crashed, now>>

CacheKey == Pod \cup PodIP \cup ClusterIP \cup {NoIP}

Empty == [val |-> NoIP, until |-> -1]
Never == MaxNow + 1

\* The caches are empty until Start fills them from its first lists.
PodInit(lists) ==
    /\ pods = [p \in Pod |-> [phase |-> "absent", ip |-> NoIP, gone |-> Never]]
    /\ svcs = [s \in Svc |-> [ip |-> NoIP, left |-> [a \in ClusterIP |-> Never]]]
    /\ changes = 0
    /\ events = [i \in {"pod informer", "service informer"} |-> <<>>]
    /\ todo = [w \in Worker |-> <<>>]
    /\ list = {}
    /\ since = 0
    /\ due = lists
    /\ started = FALSE
    /\ cache = [k \in CacheKey |-> Empty]
    /\ crashed = FALSE
    /\ now = 0

-----------------------------------------------------------------------------
(***************************************************************************)
(* The cluster.                                                            *)
(***************************************************************************)
Snapshot(p) == [pod |-> p, ip |-> pods[p].ip, evicted |-> pods[p].phase = "evicted"]

Announce(i, ev) == events' = [events EXCEPT ![i] = Append(@, [ev EXCEPT !.at = now])]

Cluster(unchanged) ==
    UNCHANGED <<todo, list, since, due, started, cache, crashed, now, unchanged>>

CreatePod(p) ==
    /\ pods[p].phase = "absent"
    /\ pods' = [pods EXCEPT ![p].phase = "pending"]
    /\ Announce("pod informer", [kind |-> "add", obj |-> Snapshot(p), at |-> 0])
    /\ Cluster(<<svcs, changes>>)

\* The kubelet reports the pod's IP: an update, for which there is no handler.
StartPod(p, ip) ==
    /\ pods[p].phase = "pending"
    /\ \A q \in Pod : pods[q].phase = "running" => pods[q].ip # ip
    /\ pods' = [pods EXCEPT ![p].phase = "running", ![p].ip = ip]
    /\ Cluster(<<svcs, changes, events>>)

StopPod(p, phase) ==
    /\ pods[p].phase = "running"
    /\ pods' = [pods EXCEPT ![p].phase = phase]
    /\ Cluster(<<svcs, changes, events>>)

\* When the informer had to list again it only knows that the pod is gone.
DeletePod(p, kind) ==
    /\ pods[p].phase \notin {"absent", "gone"}
    /\ pods' = [pods EXCEPT ![p].phase = "gone", ![p].gone = now]
    /\ Announce("pod informer", [kind |-> kind, obj |-> Snapshot(p), at |-> 0])
    /\ Cluster(<<svcs, changes>>)

\* A service that is deleted may be known by its tombstone only, too: DeleteFunc
\* checks the type and does nothing, as for a service that had no cluster IP.
ChangeService(s, ip, tombstone) ==
    /\ changes < MaxChanges
    /\ ip # svcs[s].ip
    /\ tombstone => ip = NoIP
    /\ changes' = changes + 1
    /\ svcs' = [svcs EXCEPT ![s].ip = ip,
                            ![s].left = [a \in ClusterIP |->
                                IF a = ip THEN Never ELSE
                                IF a = svcs[s].ip THEN now ELSE @[a]]]
    /\ Announce("service informer",
                [kind |-> "update", at |-> 0,
                 obj |-> [svc |-> s, old |-> IF tombstone THEN NoIP ELSE svcs[s].ip,
                          new |-> ip]])
    /\ Cluster(<<pods>>)

-----------------------------------------------------------------------------
(***************************************************************************)
(* The calls on the caches.                                                *)
(***************************************************************************)
Set(k, val, ttl) == [op |-> "set", key |-> k, val |-> val, ttl |-> ttl]
Del(k) == [op |-> "del", key |-> k]

\* Mutant: without the explicit life a Set takes the default of the cache.
PodEntryTtlDefault == DefaultTtl

PodEntryTtl == PodTtl

\* AddFunc of the pod informer, and the body of refreshPodInfo.
AddPod(o) ==
    IF o.evicted THEN <<>>
    ELSE <<Set(o.pod, o.pod, PodEntryTtl), Set(o.ip, o.pod, PodEntryTtl)>>

\* DeleteFunc of the pod informer.
ForgetPod(o) == <<Del(o.pod), Del(o.ip)>>

\* refreshServiceInfo: headless services are left out.
AddService(s, ip) == IF ip = NoIP THEN <<>> ELSE <<Set(ip, s, SvcTtl)>>

\* DeleteFunc and the first half of UpdateFunc of the service informer.
ForgetService(ip) == IF ip = NoIP THEN <<>> ELSE <<Del(ip)>>

Calls(ev) ==
    CASE ev.kind = "add"    -> AddPod(ev.obj)
      [] ev.kind = "delete" -> ForgetPod(ev.obj)
      [] ev.kind = "update" -> ForgetService(ev.obj.old)
                               \o AddService(ev.obj.svc, ev.obj.new)

\* The refresh has applied what it listed.
Applied == list = {} /\ todo["refresh"] = <<>>

\* Start: the first lists have been applied.
StartInformers ==
    /\ ~started /\ due = {} /\ Applied
    /\ started' = TRUE
    /\ UNCHANGED <<pods, svcs, changes, events, todo, list, since, due, cache, crashed, now>>

\* An informer hands its next event to the handler.  A pod of which only the
\* tombstone is known fails the type assertion of DeleteFunc, which panics.
HandleEvent(i) ==
    /\ started
    /\ events[i] # <<>> /\ todo[i] = <<>>
    /\ LET ev == Head(events[i])
       IN  IF ev.kind = "tombstone"
           THEN crashed' = TRUE /\ UNCHANGED todo
           ELSE todo' = [todo EXCEPT ![i] = Calls(ev)] /\ UNCHANGED crashed
    /\ events' = [events EXCEPT ![i] = Tail(@)]
    /\ UNCHANGED <<pods, svcs, changes, list, since, due, started, cache, now>>

\* podTicker or svcTicker: the list is read.
Refresh(what) ==
    /\ Applied /\ what \in due
    /\ LET existing == {p \in Pod : pods[p].phase \notin {"absent", "gone"}}
       IN  list' = IF what = "pods"
                   THEN {AddPod(Snapshot(p)) : p \in existing}
                   ELSE {AddService(s, svcs[s].ip) : s \in Svc}
    /\ since' = now
    /\ due' = due \ {what}
    /\ UNCHANGED <<pods, svcs, changes, events, todo, started, cache, crashed, now>>

\* The loop over the items of the list, which come in any order.
NextItem ==
    /\ todo["refresh"] = <<>>
    /\ \E item \in list :
           /\ todo' = [todo EXCEPT !["refresh"] = item]
           /\ list' = list \ {item}
    /\ UNCHANGED <<pods, svcs, changes, events, since, due, started, cache, crashed, now>>

\* The list request fails: logged, and tried again at the next tick.
RefreshFails(what) ==
    /\ Applied /\ what \in due
    /\ started
    /\ due' = due \ {what}
    /\ UNCHANGED <<pods, svcs, changes, events, todo, list, since, started, cache,
                   crashed, now>>

\* One call of go-cache, under its lock.
Apply(w) ==
    /\ todo[w] # <<>>
    /\ LET c == Head(todo[w])
       IN  cache' = [cache EXCEPT ![c.key] =
                        IF c.op = "del" THEN Empty
                        ELSE [val |-> c.val, until |-> now + c.ttl]]
    /\ todo' = [todo EXCEPT ![w] = Tail(@)]
    /\ UNCHANGED <<pods, svcs, changes, events, list, since, due, started, crashed, now>>

\* Time passes; nobody is later than MaxDelay.  A ticker that fires while its
\* last tick has not been taken is lost.
Later ==
    /\ started /\ now < MaxNow
    /\ ~Applied => now - since < MaxDelay
    /\ \A i \in DOMAIN events :
           /\ todo[i] = <<>>
           /\ events[i] # <<>> => now - Head(events[i]).at < MaxDelay
    /\ now' = now + 1
    /\ due' = due \cup (IF now' % PodPeriod = 0 THEN {"pods"} ELSE {})
                  \cup (IF now' % SvcPeriod = 0 THEN {"services"} ELSE {})
    /\ UNCHANGED <<pods, svcs, changes, events, todo, list, since, started, cache, crashed>>

PodsNext ==
    /\ ~crashed
    /\ \/ \E p \in Pod :
              \/ CreatePod(p)
              \/ \E ip \in PodIP : StartPod(p, ip)
              \/ \E phase \in {"completed", "evicted"} : StopPod(p, phase)
              \/ \E kind \in {"delete", "tombstone"} : DeletePod(p, kind)
       \/ HandleEvent("pod informer") \/ Apply("pod informer")
       \/ Refresh("pods") \/ RefreshFails("pods")

ServicesNext ==
    /\ ~crashed
    /\ \/ \E s \in Svc :
              \/ \E ip \in ClusterIP \cup {NoIP}, tombstone \in BOOLEAN :
                     ChangeService(s, ip, tombstone)
       \/ HandleEvent("service informer") \/ Apply("service informer")
       \/ Refresh("services") \/ RefreshFails("services")

RefreshLoop == ~crashed /\ (StartInformers \/ NextItem \/ Apply("refresh") \/ Later)

-----------------------------------------------------------------------------

Found(k) == cache[k].until > now

\* GetPodByUID and GetService do not answer for long with what is gone: a pod
\* that was deleted, or a cluster IP a service has left, is found for at most
\* one life of an entry after the oldest list or event still being applied,
\* although a list that was taken before the deletion may bring the entry back
\* after the informer's handler has deleted it, and nothing removes it then.
StaleBounded ==
    /\ \A p \in Pod, k \in Pod \cup PodIP \cup {NoIP} :
           Found(k) /\ cache[k].val = p => now < pods[p].gone + PodTtl + MaxDelay
    /\ \A s \in Svc, ip \in ClusterIP :
           Found(ip) /\ cache[ip].val = s
           => now < svcs[s].left[ip] + SvcTtl + MaxDelay

=============================================================================
