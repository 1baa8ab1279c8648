--------------------------- MODULE VethWatchProofs ---------------------------
(***************************************************************************)
(* Theorems about the veth table and the plugins that follow it, for any   *)
(* number of interfaces and of their changes and any capacity of the       *)
(* listeners' channels.                                                    *)
(***************************************************************************)
EXTENDS VethWatch, TLAPS

-----------------------------------------------------------------------------
(* The inductive invariant.                                                *)

\* An event is being sent only while the refresh notifies.
Sending ==
    /\ watcher.to # {} => watcher.pc = "notify" /\ watcher.event \in Event
    /\ watcher.pc = "idle" => watcher.added = {} /\ watcher.removed = {}

Typed == TypeOK /\ Sending

\* What the refresh still has to announce is in netLinks (or has left it) once
\* the critical section is over, and the other way round before it.
Announced ==
    /\ watcher.pc = "update" =>
           /\ \A a \in watcher.added : a[1] \notin netLinks
           /\ watcher.removed \subseteq netLinks
    /\ watcher.pc = "notify" =>
           /\ \A a \in watcher.added : a[1] \in netLinks
           /\ watcher.removed \cap netLinks = {}
    /\ watcher.to # {} => (watcher.event.type = "add" <=> watcher.event.index \in netLinks)

\* The listeners are the plugins in their loop, and only they are sent events.
Registered ==
    /\ \A p \in Plugins : p \in listeners <=> plugin[p].pc = "loop"
    /\ \A p \in Plugins : ch[p] # <<>> => p \in listeners
    /\ watcher.to \subseteq listeners

\* The refresh has an event for interface i that it has sent to nobody yet.
Remaining(w, i) == w.pc = "notify" /\ (i \in w.removed \/ \E a \in w.added : a[1] = i)

\* The refresh has an event for interface i that plugin p will get.
Awaits(w, p, i) == Remaining(w, i) \/ (p \in w.to /\ w.event.index = i)

Mentions(q, i) == \E n \in DOMAIN q : q[n].index = i

\* The last event for i in channel q says whether i is in the table nl.
LastTells(q, i, nl) ==
    \A n \in DOMAIN q :
        /\ q[n].index = i
        /\ \A m \in DOMAIN q : m > n => q[m].index # i
        => (q[n].type = "add" <=> i \in nl)

\* A plugin between GetVethes and RegisterNetLinkListener loads what it read,
\* and what it read is netLinks but for the changes it missed or would miss.
LoadsWhatItRead ==
    \A p \in Plugins :
        /\ plugin[p].pc = "start" => probes[p] = {}
        /\ plugin[p].pc = "load" =>
               /\ plugin[p].todo \subseteq plugin[p].seen
               /\ plugin[p].todo \cap probes[p] = {}
               /\ probes[p] \subseteq plugin[p].seen
               /\ plugin[p].seen \subseteq plugin[p].todo \cup probes[p] \cup failed[p]
               /\ \A i \in Index :
                      \/ i \in netLinks <=> i \in plugin[p].seen
                      \/ i \in missed[p]
                      \/ Remaining(watcher, i)

\* A plugin in its loop has, or will have when it has handled what is under way
\* to it, the probes of netLinks.
Follows ==
    \A p \in Plugins, i \in Index :
        plugin[p].pc = "loop" /\ ~Awaits(watcher, p, i) =>
            /\ LastTells(ch[p], i, netLinks)
            /\ \/ Mentions(ch[p], i)
               \/ i \in missed[p] \cup failed[p]
               \/ i \in probes[p] <=> i \in netLinks

\* A plugin that looks its table up has one filter per probe and one per
\* LinkDelete, which detaches none.
FilterPerProbe ==
    \A p \in Plugins \ {"http"}, i \in Index :
        filters[p][i] <= flaps[p][i] + (IF i \in probes[p] THEN 1 ELSE 0)

IInv == Typed /\ Announced /\ Registered /\ LoadsWhatItRead /\ Follows /\ FilterPerProbe

-----------------------------------------------------------------------------
(* Channels.                                                               *)

\* What receiving the head of a channel leaves in it.
LEMMA HeadTail ==
    ASSUME NEW q \in Seq(Event), q # <<>>
    PROVE  /\ Head(q) \in Event /\ Head(q) = q[1] /\ 1 \in DOMAIN q
           /\ Tail(q) \in Seq(Event) /\ Len(Tail(q)) = Len(q) - 1
           /\ \A n \in DOMAIN Tail(q) :
                  n \in Nat /\ n + 1 \in DOMAIN q /\ n + 1 # 1 /\ Tail(q)[n] = q[n + 1]
           /\ \A n \in DOMAIN q :
                  n # 1 => n \in Nat /\ n - 1 \in DOMAIN Tail(q) /\ Tail(q)[n - 1] = q[n]
OBVIOUS

\* What sending an event leaves in a channel.
LEMMA AppendEvent ==
    ASSUME NEW q \in Seq(Event), NEW e \in Event
    PROVE  /\ Append(q, e) \in Seq(Event) /\ Len(Append(q, e)) = Len(q) + 1
           /\ Len(q) \in Nat
           /\ DOMAIN Append(q, e) = DOMAIN q \cup {Len(q) + 1}
           /\ \A n \in DOMAIN q : n \in Nat /\ n < Len(q) + 1 /\ Append(q, e)[n] = q[n]
           /\ Append(q, e)[Len(q) + 1] = e
OBVIOUS

\* Handling the oldest event leaves the last word on every interface in place;
\* if no event for its own interface is left, it was the last word.
LEMMA TellsTail ==
    ASSUME NEW q \in Seq(Event), q # <<>>, NEW i, NEW nl, LastTells(q, i, nl)
    PROVE  /\ LastTells(Tail(q), i, nl)
           /\ Head(q).index # i => (Mentions(Tail(q), i) <=> Mentions(q, i))
           /\ Head(q).index = i /\ ~Mentions(Tail(q), i) =>
                  (Head(q).type = "add" <=> i \in nl)
<1>0. /\ Head(q) = q[1] /\ 1 \in DOMAIN q
      /\ \A n \in DOMAIN Tail(q) :
             n \in Nat /\ n + 1 \in DOMAIN q /\ n + 1 # 1 /\ Tail(q)[n] = q[n + 1]
      /\ \A n \in DOMAIN q :
             n # 1 => n \in Nat /\ n - 1 \in DOMAIN Tail(q) /\ Tail(q)[n - 1] = q[n]
    BY HeadTail
<1>1. LastTells(Tail(q), i, nl)
    <2> SUFFICES ASSUME NEW n \in DOMAIN Tail(q), Tail(q)[n].index = i,
                        \A m \in DOMAIN Tail(q) : m > n => Tail(q)[m].index # i
                 PROVE  Tail(q)[n].type = "add" <=> i \in nl
        BY DEF LastTells
    <2>1. n \in Nat /\ n + 1 \in DOMAIN q /\ Tail(q)[n] = q[n + 1]
        BY <1>0
    <2>2. ASSUME NEW m \in DOMAIN q, m > n + 1 PROVE q[m].index # i
        <3>1. m # 1
            BY <2>1, <2>2
        <3>2. m \in Nat /\ m - 1 \in DOMAIN Tail(q) /\ Tail(q)[m - 1] = q[m]
            BY <1>0, <3>1
        <3>3. m - 1 > n
            BY <2>1, <2>2, <3>2
        <3> QED
            BY <3>2, <3>3
    <2> QED
        BY <2>1, <2>2 DEF LastTells
<1>2. Head(q).index # i => (Mentions(Tail(q), i) <=> Mentions(q, i))
    <2>1. Mentions(Tail(q), i) => Mentions(q, i)
        BY <1>0 DEF Mentions
    <2>2. ASSUME Head(q).index # i, NEW n \in DOMAIN q, q[n].index = i PROVE Mentions(Tail(q), i)
        <3>1. n # 1
            BY <1>0, <2>2
        <3>2. n - 1 \in DOMAIN Tail(q) /\ Tail(q)[n - 1] = q[n]
            BY <1>0, <3>1
        <3> QED
            BY <2>2, <3>2 DEF Mentions
    <2> QED
        BY <2>1, <2>2 DEF Mentions
<1>3. ASSUME Head(q).index = i, ~Mentions(Tail(q), i) PROVE Head(q).type = "add" <=> i \in nl
    <2>1. \A m \in DOMAIN q : m > 1 => q[m].index # i
        <3> SUFFICES ASSUME NEW m \in DOMAIN q, m > 1, q[m].index = i PROVE FALSE
            OBVIOUS
        <3>1. m # 1
            OBVIOUS
        <3> QED
            BY <1>0, <1>3, <3>1 DEF Mentions
    <2> QED
        BY <1>0, <1>3, <2>1 DEF LastTells
<1> QED
    BY <1>1, <1>2, <1>3

\* A new event is the last word on its interface, and none on the others.
LEMMA TellsAppend ==
    ASSUME NEW q \in Seq(Event), NEW e \in Event, NEW i, NEW nl
    PROVE  /\ e.index = i /\ (e.type = "add" <=> i \in nl) => LastTells(Append(q, e), i, nl)
           /\ e.index = i => Mentions(Append(q, e), i)
           /\ e.index # i =>
                  /\ LastTells(q, i, nl) => LastTells(Append(q, e), i, nl)
                  /\ Mentions(Append(q, e), i) <=> Mentions(q, i)
<1>0. /\ Len(q) \in Nat
      /\ DOMAIN Append(q, e) = DOMAIN q \cup {Len(q) + 1}
      /\ \A n \in DOMAIN q : n \in Nat /\ n < Len(q) + 1 /\ Append(q, e)[n] = q[n]
      /\ Append(q, e)[Len(q) + 1] = e
    BY AppendEvent
<1> DEFINE r == Append(q, e)
           l == Len(q) + 1
<1>1. /\ DOMAIN r = DOMAIN q \cup {l} /\ r[l] = e
      /\ \A n \in DOMAIN q : n \in Nat /\ l > n /\ r[n] = q[n]
    BY <1>0
<1> HIDE DEF r, l
<1>2. e.index = i /\ (e.type = "add" <=> i \in nl) => LastTells(r, i, nl)
    BY <1>1 DEF LastTells
<1>3. Mentions(r, i) <=> Mentions(q, i) \/ e.index = i
    BY <1>1 DEF Mentions
<1>4. ASSUME e.index # i, LastTells(q, i, nl) PROVE LastTells(r, i, nl)
    <2> SUFFICES ASSUME NEW n \in DOMAIN r, r[n].index = i,
                        \A m \in DOMAIN r : m > n => r[m].index # i
                 PROVE  r[n].type = "add" <=> i \in nl
        BY DEF LastTells
    <2>1. n \in DOMAIN q /\ r[n] = q[n]
        BY <1>1, <1>4
    <2>2. \A m \in DOMAIN q : m > n => q[m].index # i
        BY <1>1
    <2> QED
        BY <1>4, <2>1, <2>2 DEF LastTells
<1> QED
    BY <1>2, <1>3, <1>4 DEF r

\* A plugin receives the oldest event of its channel, and of no other's.
LEMMA Received ==
    ASSUME TypeOK, NEW p \in Plugins, ch[p] # <<>>, ch' = [ch EXCEPT ![p] = Tail(@)]
    PROVE  /\ ch[p] \in Seq(Event) /\ Head(ch[p]) \in Event /\ Head(ch[p]).index \in Index
           /\ ch' \in [Plugins -> Seq(Event)] /\ \A x \in Plugins : Len(ch'[x]) <= ChCap
           /\ ch'[p] = Tail(ch[p]) /\ \A x \in Plugins : x # p => ch'[x] = ch[x]
<1> USE VethWatchAssumption
<1>1. ch \in [Plugins -> Seq(Event)] /\ \A x \in Plugins : Len(ch[x]) <= ChCap
    BY DEF TypeOK
<1>2. ch[p] \in Seq(Event)
    BY <1>1
<1>3. /\ Head(ch[p]) \in Event /\ Tail(ch[p]) \in Seq(Event)
      /\ Len(Tail(ch[p])) = Len(ch[p]) - 1
    BY <1>2, HeadTail
<1>4. Head(ch[p]).index \in Index
    BY <1>3 DEF Event
<1>5. ch'[p] = Tail(ch[p]) /\ \A x \in Plugins : x # p => ch'[x] = ch[x]
    BY <1>1
<1>6. ch' \in [Plugins -> Seq(Event)]
    BY <1>1, <1>3
<1>7. Len(Tail(ch[p])) <= ChCap
    <2>1. Len(ch[p]) <= ChCap /\ Len(ch[p]) \in Nat
        BY <1>1, <1>2
    <2> QED
        BY <1>3, <2>1
<1>8. \A x \in Plugins : Len(ch'[x]) <= ChCap
    BY <1>1, <1>5, <1>7
<1> QED
    BY <1>2, <1>3, <1>4, <1>5, <1>6, <1>8

\* Counting per plugin and interface.
LEMMA Counted ==
    ASSUME NEW f \in [Plugins -> [Index -> Nat]], NEW p \in Plugins, NEW i \in Index, NEW n \in Nat
    PROVE  /\ [f EXCEPT ![p][i] = n] \in [Plugins -> [Index -> Nat]]
           /\ [f EXCEPT ![p][i] = n][p][i] = n
           /\ \A x \in Plugins, j \in Index : <<x, j>> # <<p, i>> =>
                  [f EXCEPT ![p][i] = n][x][j] = f[x][j]
<1>1. [f[p] EXCEPT ![i] = n] \in [Index -> Nat]
    OBVIOUS
<1> QED
    BY <1>1

\* Adding to and removing from a plugin's set of interfaces.
LEMMA SetOf ==
    ASSUME NEW f \in [Plugins -> SUBSET Index], NEW p \in Plugins, NEW i \in Index
    PROVE  /\ [f EXCEPT ![p] = @ \cup {i}] \in [Plugins -> SUBSET Index]
           /\ [f EXCEPT ![p] = @ \ {i}] \in [Plugins -> SUBSET Index]
           /\ [f EXCEPT ![p] = @ \cup {i}][p] = f[p] \cup {i}
           /\ [f EXCEPT ![p] = @ \ {i}][p] = f[p] \ {i}
           /\ \A x \in Plugins : x # p => /\ [f EXCEPT ![p] = @ \cup {i}][x] = f[x]
                                          /\ [f EXCEPT ![p] = @ \ {i}][x] = f[x]
<1>1. f[p] \cup {i} \in SUBSET Index /\ f[p] \ {i} \in SUBSET Index
    OBVIOUS
<1> QED
    BY <1>1

-----------------------------------------------------------------------------
(* Type correctness.                                                       *)

\* The agent starts with the table filled and no plugin gathering.
LEMMA InitTyped == Init => Typed
<1> SUFFICES ASSUME Init PROVE Typed
    OBVIOUS
<1> USE VethWatchAssumption DEF Init
<1>1. /\ link \in [Index -> {"none", "bare", "ready", "gone"}] /\ netLinks \subseteq Index
      /\ changes \in 0 .. MaxChanges /\ exited \in BOOLEAN
    <2>1. link \in [Index -> {"none", "bare", "ready"}]
        OBVIOUS
    <2>2. link \in [Index -> {"none", "bare", "ready", "gone"}]
        BY <2>1
    <2>3. netLinks \subseteq Index
        BY DEF Vethes
    <2>4. changes = 0 /\ exited = FALSE
        OBVIOUS
    <2>5. changes \in 0 .. MaxChanges
        BY <2>4
    <2> QED
        BY <2>2, <2>3, <2>4, <2>5
<1>2. watcher \in [pc : {"idle", "update", "notify"},
                   added : SUBSET (Index \X {1, 2}), removed : SUBSET Index,
                   event : Event \cup {<<>>}, to : SUBSET Plugins]
    OBVIOUS
<1>3. ch \in [Plugins -> Seq(Event)] /\ \A p \in Plugins : Len(ch[p]) <= ChCap
    OBVIOUS
<1>4. plugin \in [Plugins -> [pc : {"start", "load", "loop"},
                              todo : SUBSET Index, seen : SUBSET Index]]
    OBVIOUS
<1>5. /\ probes \in [Plugins -> SUBSET Index] /\ filters \in [Plugins -> [Index -> Nat]]
      /\ missed \in [Plugins -> SUBSET Index] /\ failed \in [Plugins -> SUBSET Index]
      /\ flaps \in [Plugins -> [Index -> Nat]] /\ listeners \subseteq Plugins
    OBVIOUS
<1>6. Sending
    BY DEF Sending
<1> QED
    BY <1>1, <1>2, <1>3, <1>4, <1>5, <1>6 DEF Typed, TypeOK

\* Every step keeps the state well typed.
LEMMA StepTyped == Typed /\ [Next]_vars => Typed'
<1> SUFFICES ASSUME Typed, [Next]_vars PROVE Typed'
    OBVIOUS
<1> USE VethWatchAssumption
<1>0. TypeOK /\ Sending
    BY DEF Typed
<1>1. ASSUME NEW i \in Index, NEW to \in {"bare", "ready", "gone"}, LinkChange(i, to) PROVE Typed'
    <2>1. /\ link' \in [Index -> {"none", "bare", "ready", "gone"}] /\ changes' \in 0 .. MaxChanges
          /\ filters' \in [Plugins -> [Index -> Nat]]
        BY <1>0, <1>1 DEF LinkChange, TypeOK
    <2> QED
        BY <1>0, <1>1, <2>1 DEF LinkChange, Typed, TypeOK, Sending
<1>2. ASSUME NEW twice \in SUBSET Index, GetVethesDiff(twice) PROVE Typed'
    <2>1. /\ watcher' \in [pc : {"idle", "update", "notify"},
                           added : SUBSET (Index \X {1, 2}), removed : SUBSET Index,
                           event : Event \cup {<<>>}, to : SUBSET Plugins]
          /\ watcher'.pc = "update" /\ watcher'.to = watcher.to
        BY <1>0, <1>2 DEF GetVethesDiff, TypeOK, Vethes
    <2>2. watcher.to = {}
        BY <1>0, <1>2 DEF GetVethesDiff, Sending
    <2> QED
        BY <1>0, <1>2, <2>1, <2>2 DEF GetVethesDiff, Typed, TypeOK, Sending
<1>3. CASE UpdateLinks
    <2>1. /\ watcher' \in [pc : {"idle", "update", "notify"},
                           added : SUBSET (Index \X {1, 2}), removed : SUBSET Index,
                           event : Event \cup {<<>>}, to : SUBSET Plugins]
          /\ watcher'.pc = "notify" /\ watcher'.to = watcher.to
        BY <1>0, <1>3 DEF UpdateLinks, TypeOK
    <2>2. watcher.to = {}
        BY <1>0, <1>3 DEF UpdateLinks, Sending
    <2>3. netLinks' \subseteq Index
        BY <1>0, <1>3 DEF UpdateLinks, TypeOK
    <2> QED
        BY <1>0, <1>3, <2>1, <2>2, <2>3 DEF UpdateLinks, Typed, TypeOK, Sending
<1>4. ASSUME NEW e \in Event, NextEvent(e) PROVE Typed'
    <2>1. /\ watcher' \in [pc : {"idle", "update", "notify"},
                           added : SUBSET (Index \X {1, 2}), removed : SUBSET Index,
                           event : Event \cup {<<>>}, to : SUBSET Plugins]
          /\ watcher'.pc = "notify" /\ watcher'.event = e
        <3>0. /\ watcher \in [pc : {"idle", "update", "notify"},
                              added : SUBSET (Index \X {1, 2}), removed : SUBSET Index,
                              event : Event \cup {<<>>}, to : SUBSET Plugins]
              /\ listeners \in SUBSET Plugins /\ watcher.pc = "notify"
            BY <1>0, <1>4 DEF NextEvent, TypeOK
        <3>1. ASSUME NEW a, watcher' = [watcher EXCEPT !.added = @ \ {a}, !.event = e, !.to = listeners]
              PROVE  <2>1
            BY <3>0, <3>1
        <3>2. ASSUME watcher' = [watcher EXCEPT !.removed = @ \ {e.index}, !.event = e, !.to = listeners]
              PROVE  <2>1
            BY <3>0, <3>2
        <3> QED
            BY <1>4, <3>1, <3>2 DEF NextEvent
    <2>2. missed' \in [Plugins -> SUBSET Index]
        BY <1>0, <1>4 DEF NextEvent, TypeOK, Event
    <2> QED
        BY <1>0, <1>4, <2>1, <2>2 DEF NextEvent, Typed, TypeOK, Sending
<1>5. ASSUME NEW p \in Plugins, SendEvent(p) PROVE Typed'
    <2>1. watcher.pc = "notify" /\ watcher.event \in Event
        BY <1>0, <1>5 DEF SendEvent, Sending
    <2>2. /\ watcher' \in [pc : {"idle", "update", "notify"},
                           added : SUBSET (Index \X {1, 2}), removed : SUBSET Index,
                           event : Event \cup {<<>>}, to : SUBSET Plugins]
          /\ watcher'.pc = "notify" /\ watcher'.event = watcher.event
        BY <1>0, <1>5, <2>1 DEF SendEvent, TypeOK
    <2>3. ch' \in [Plugins -> Seq(Event)] /\ \A x \in Plugins : Len(ch'[x]) <= ChCap
        BY <1>0, <1>5, <2>1, AppendEvent DEF SendEvent, TypeOK
    <2> QED
        BY <1>0, <1>5, <2>1, <2>2, <2>3 DEF SendEvent, Typed, TypeOK, Sending
<1>6. CASE EndRefresh
    <2>1. /\ watcher' \in [pc : {"idle", "update", "notify"},
                           added : SUBSET (Index \X {1, 2}), removed : SUBSET Index,
                           event : Event \cup {<<>>}, to : SUBSET Plugins]
          /\ watcher'.to = {} /\ watcher'.added = {} /\ watcher'.removed = {}
        BY <1>0, <1>6 DEF EndRefresh, TypeOK
    <2> QED
        BY <1>0, <1>6, <2>1 DEF EndRefresh, Typed, TypeOK, Sending
<1>7. ASSUME NEW p \in Plugins, GetVethes(p) PROVE Typed'
    BY <1>0, <1>7 DEF GetVethes, Typed, TypeOK, Sending
<1>8. ASSUME NEW p \in Plugins, NEW i \in Index, NEW ok \in BOOLEAN, LoadInitial(p, i, ok)
      PROVE  Typed'
    <2>1. /\ plugin' \in [Plugins -> [pc : {"start", "load", "loop"},
                                      todo : SUBSET Index, seen : SUBSET Index]]
          /\ probes' \in [Plugins -> SUBSET Index] /\ failed' \in [Plugins -> SUBSET Index]
          /\ exited' \in BOOLEAN
        <3>1. plugin' \in [Plugins -> [pc : {"start", "load", "loop"},
                                       todo : SUBSET Index, seen : SUBSET Index]]
            <4>1. plugin \in [Plugins -> [pc : {"start", "load", "loop"},
                                          todo : SUBSET Index, seen : SUBSET Index]]
                BY <1>0 DEF TypeOK
            <4>2. [plugin[p] EXCEPT !.todo = @ \ {i}] \in
                      [pc : {"start", "load", "loop"}, todo : SUBSET Index, seen : SUBSET Index]
                BY <4>1
            <4>3. plugin' = [plugin EXCEPT ![p] = [plugin[p] EXCEPT !.todo = @ \ {i}]]
                BY <1>8 DEF LoadInitial
            <4> QED
                BY <4>1, <4>2, <4>3
        <3>2. probes' = probes \/ probes' = [probes EXCEPT ![p] = @ \cup {i}]
            BY <1>8 DEF LoadInitial
        <3>3. failed' = failed \/ failed' = [failed EXCEPT ![p] = @ \cup {i}]
            BY <1>8 DEF LoadInitial
        <3>4. exited' \in BOOLEAN
            BY <1>0, <1>8 DEF LoadInitial, TypeOK
        <3>5. probes' \in [Plugins -> SUBSET Index]
            <4>1. probes \in [Plugins -> SUBSET Index]
                BY <1>0 DEF TypeOK
            <4> QED
                BY <3>2, <4>1, SetOf
        <3>6. failed' \in [Plugins -> SUBSET Index]
            <4>1. failed \in [Plugins -> SUBSET Index]
                BY <1>0 DEF TypeOK
            <4> QED
                BY <3>3, <4>1, SetOf
        <3> QED
            BY <3>1, <3>4, <3>5, <3>6
    <2>2. filters' \in [Plugins -> [Index -> Nat]]
        <3>1. filters' = filters \/ filters' = [filters EXCEPT ![p][i] = filters[p][i] + 1]
            BY <1>8 DEF LoadInitial
        <3>2. filters \in [Plugins -> [Index -> Nat]] /\ filters[p][i] + 1 \in Nat
            BY <1>0 DEF TypeOK
        <3> QED
            BY <3>1, <3>2, Counted
    <2> QED
        BY <1>0, <1>8, <2>1, <2>2 DEF LoadInitial, Typed, TypeOK, Sending
<1>9. ASSUME NEW p \in Plugins, RegisterNetLinkListener(p) PROVE Typed'
    <2>1. plugin' \in [Plugins -> [pc : {"start", "load", "loop"},
                                   todo : SUBSET Index, seen : SUBSET Index]]
        <3>1. plugin \in [Plugins -> [pc : {"start", "load", "loop"},
                                      todo : SUBSET Index, seen : SUBSET Index]]
            BY <1>0 DEF TypeOK
        <3>2. [plugin[p] EXCEPT !.pc = "loop"] \in
                  [pc : {"start", "load", "loop"}, todo : SUBSET Index, seen : SUBSET Index]
            BY <3>1
        <3>3. plugin' = [plugin EXCEPT ![p] = [plugin[p] EXCEPT !.pc = "loop"]]
            BY <1>9 DEF RegisterNetLinkListener
        <3> QED
            BY <3>1, <3>2, <3>3
    <2>2. listeners' \subseteq Plugins
        BY <1>0, <1>9 DEF RegisterNetLinkListener, TypeOK
    <2> QED
        BY <1>0, <1>9, <2>1, <2>2 DEF RegisterNetLinkListener, Typed, TypeOK, Sending
<1>10. ASSUME NEW p \in Plugins, NEW ok \in BOOLEAN, HandleAdd(p, ok) PROVE Typed'
    <2>1. /\ Head(ch[p]).index \in Index
          /\ ch' \in [Plugins -> Seq(Event)] /\ \A x \in Plugins : Len(ch'[x]) <= ChCap
        BY <1>0, <1>10, Received DEF HandleAdd
    <2> DEFINE i == Head(ch[p]).index
    <2>2. /\ probes' \in [Plugins -> SUBSET Index] /\ failed' \in [Plugins -> SUBSET Index]
          /\ missed' \in [Plugins -> SUBSET Index] /\ plugin' = plugin
        <3>1. probes' = probes \/ probes' = [probes EXCEPT ![p] = @ \cup {i}]
            BY <1>10 DEF HandleAdd
        <3>2. \/ failed' = failed \/ failed' = [failed EXCEPT ![p] = @ \cup {i}]
              \/ failed' = [failed EXCEPT ![p] = @ \ {i}]
            BY <1>10 DEF HandleAdd
        <3>3. missed' = [missed EXCEPT ![p] = @ \ {i}] /\ plugin' = plugin
            BY <1>10 DEF HandleAdd, AfterFailedLoad
        <3>4. /\ probes \in [Plugins -> SUBSET Index] /\ failed \in [Plugins -> SUBSET Index]
              /\ missed \in [Plugins -> SUBSET Index]
            BY <1>0 DEF TypeOK
        <3> HIDE DEF i
        <3>5. failed' \in [Plugins -> SUBSET Index]
            BY <2>1, <3>2, <3>4 DEF i
        <3> QED
            BY <2>1, <3>1, <3>3, <3>4, <3>5 DEF i
    <2>3. filters' \in [Plugins -> [Index -> Nat]]
        <3>1. filters' = filters \/ filters' = [filters EXCEPT ![p][i] = filters[p][i] + 1]
            BY <1>10 DEF HandleAdd
        <3>2. filters \in [Plugins -> [Index -> Nat]] /\ filters[p][i] + 1 \in Nat
            BY <1>0, <2>1 DEF TypeOK
        <3> QED
            BY <2>1, <3>1, <3>2, Counted
    <2> QED
        BY <1>0, <1>10, <2>1, <2>2, <2>3 DEF HandleAdd, Typed, TypeOK, Sending
<1>11. ASSUME NEW p \in Plugins, HandleDelete(p) PROVE Typed'
    <2>1. /\ Head(ch[p]).index \in Index
          /\ ch' \in [Plugins -> Seq(Event)] /\ \A x \in Plugins : Len(ch'[x]) <= ChCap
        BY <1>0, <1>11, Received DEF HandleDelete
    <2>2. /\ probes' \in [Plugins -> SUBSET Index] /\ failed' \in [Plugins -> SUBSET Index]
          /\ missed' \in [Plugins -> SUBSET Index]
        BY <1>0, <1>11, <2>1 DEF HandleDelete, TypeOK, ProbesAfterDelete
    <2>3. filters' \in [Plugins -> [Index -> Nat]] /\ flaps' \in [Plugins -> [Index -> Nat]]
        BY <1>0, <1>11, <2>1 DEF HandleDelete, TypeOK, FiltersAfterDelete
    <2> QED
        BY <1>0, <1>11, <2>1, <2>2, <2>3 DEF HandleDelete, Typed, TypeOK, Sending
<1>12. CASE UNCHANGED vars
    BY <1>0, <1>12 DEF vars, Typed, TypeOK, Sending
<1> QED
    BY <1>1, <1>2, <1>3, <1>4, <1>5, <1>6, <1>7, <1>8, <1>9, <1>10, <1>11, <1>12
       DEF Next, Watch, Gather, Handle

\* The state stays well typed: no channel holds more events than its capacity,
\* and the number of filters on an interface never goes below zero.
THEOREM TypeCorrect == Spec => []TypeOK
<1>1. Typed => TypeOK
    BY DEF Typed
<1> QED
    BY <1>1, InitTyped, StepTyped, PTL DEF Spec

-----------------------------------------------------------------------------
(* The refresh.                                                            *)

\* Who changes what: the refresh its own state and the table, a plugin its own.
LEMMA Steps ==
    ASSUME [Next]_vars
    PROVE  /\ \/ UNCHANGED <<watcher, netLinks>>
              \/ \E twice \in SUBSET Index : GetVethesDiff(twice)
              \/ UpdateLinks
              \/ \E e \in Event : NextEvent(e)
              \/ \E p \in Plugins : SendEvent(p)
              \/ EndRefresh
           /\ \/ UNCHANGED <<plugin, listeners, probes, failed>>
              \/ \E p \in Plugins : GetVethes(p)
              \/ \E p \in Plugins, i \in Index, ok \in BOOLEAN : LoadInitial(p, i, ok)
              \/ \E p \in Plugins : RegisterNetLinkListener(p)
              \/ \E p \in Plugins, ok \in BOOLEAN : HandleAdd(p, ok)
              \/ \E p \in Plugins : HandleDelete(p)
<1>1. ASSUME NEW i \in Index, NEW to \in {"bare", "ready", "gone"}, LinkChange(i, to)
      PROVE  UNCHANGED <<watcher, netLinks>> /\ UNCHANGED <<plugin, listeners, probes, failed>>
    BY <1>1 DEF LinkChange
<1>2. ASSUME Watch PROVE UNCHANGED <<plugin, listeners, probes, failed>>
    BY <1>2 DEF Watch, GetVethesDiff, UpdateLinks, NextEvent, SendEvent, EndRefresh
<1>3. ASSUME NEW p \in Plugins, Gather(p) PROVE UNCHANGED <<watcher, netLinks>>
    BY <1>3 DEF Gather, Handle, GetVethes, LoadInitial, RegisterNetLinkListener, HandleAdd, HandleDelete
<1>4. CASE UNCHANGED vars
    BY <1>4 DEF vars
<1>5. CASE Watch
    BY <1>2, <1>5 DEF Watch
<1>6. ASSUME NEW p \in Plugins, Gather(p)
      PROVE  /\ UNCHANGED <<watcher, netLinks>>
             /\ \/ GetVethes(p)
                \/ \E i \in Index, ok \in BOOLEAN : LoadInitial(p, i, ok)
                \/ RegisterNetLinkListener(p)
                \/ \E ok \in BOOLEAN : HandleAdd(p, ok)
                \/ HandleDelete(p)
    BY <1>3, <1>6 DEF Gather, Handle
<1> QED
    BY <1>1, <1>4, <1>5, <1>6 DEF Next

\* What an event of the refresh says is true of netLinks.
LEMMA StepAnnounced == Typed /\ Announced /\ [Next]_vars => Announced'
<1> SUFFICES ASSUME Typed, Announced, [Next]_vars PROVE Announced'
    OBVIOUS
<1>0. /\ watcher \in [pc : {"idle", "update", "notify"},
                      added : SUBSET (Index \X {1, 2}), removed : SUBSET Index,
                      event : Event \cup {<<>>}, to : SUBSET Plugins]
      /\ watcher.to # {} => watcher.pc = "notify"
    BY DEF Typed, TypeOK, Sending
<1>1. CASE UNCHANGED <<watcher, netLinks>>
    BY <1>1 DEF Announced
<1>2. ASSUME NEW twice \in SUBSET Index, GetVethesDiff(twice) PROVE Announced'
    <2>1. /\ watcher.to = {} /\ watcher'.to = watcher.to /\ watcher'.pc = "update"
          /\ netLinks' = netLinks /\ watcher'.removed = netLinks \ Vethes
          /\ watcher'.added = ((Vethes \ netLinks) \X {1}) \cup (twice \X {2})
          /\ twice \subseteq Vethes \ netLinks
        BY <1>0, <1>2 DEF GetVethesDiff
    <2> QED
        BY <2>1 DEF Announced
<1>3. CASE UpdateLinks
    <2>1. /\ watcher.to = {} /\ watcher'.to = watcher.to /\ watcher'.pc = "notify"
          /\ watcher'.added = watcher.added /\ watcher'.removed = watcher.removed
          /\ netLinks' = (netLinks \cup {a[1] : a \in watcher.added}) \ watcher.removed
        BY <1>0, <1>3 DEF UpdateLinks
    <2>2. /\ \A a \in watcher.added : a[1] \notin netLinks
          /\ watcher.removed \subseteq netLinks
        BY <1>3 DEF UpdateLinks, Announced
    <2>3. \A a \in watcher.added : a[1] \in netLinks'
        BY <2>1, <2>2
    <2> QED
        BY <2>1, <2>3 DEF Announced
<1>4. ASSUME NEW e \in Event, NextEvent(e) PROVE Announced'
    <2>0. /\ \A a \in watcher.added : a[1] \in netLinks
          /\ watcher.removed \cap netLinks = {} /\ netLinks' = netLinks
        BY <1>4 DEF NextEvent, Announced
    <2>1. /\ watcher'.added \subseteq watcher.added /\ watcher'.removed \subseteq watcher.removed
          /\ watcher'.pc = "notify" /\ watcher'.event = e
          /\ e.type = "add" => \E a \in watcher.added : e.index = a[1]
          /\ e.type = "delete" => e.index \in watcher.removed
          /\ e.type \in {"add", "delete"}
        BY <1>0, <1>4 DEF NextEvent
    <2>2. e.type = "add" <=> e.index \in netLinks
        BY <2>0, <2>1
    <2> QED
        BY <2>0, <2>1, <2>2 DEF Announced
<1>5. ASSUME NEW p \in Plugins, SendEvent(p) PROVE Announced'
    <2>1. /\ watcher'.added = watcher.added /\ watcher'.removed = watcher.removed
          /\ watcher'.pc = watcher.pc /\ watcher'.event = watcher.event
          /\ watcher.to # {} /\ netLinks' = netLinks
        BY <1>0, <1>5 DEF SendEvent
    <2> QED
        BY <2>1 DEF Announced
<1>6. CASE EndRefresh
    <2>1. watcher'.pc = "idle" /\ watcher'.to = {}
        BY <1>0, <1>6 DEF EndRefresh
    <2> QED
        BY <2>1 DEF Announced
<1> QED
    BY <1>1, <1>2, <1>3, <1>4, <1>5, <1>6, Steps

\* A plugin listens from its registration on, and has no events before.
LEMMA StepRegistered == Typed /\ Registered /\ [Next]_vars => Registered'
<1> SUFFICES ASSUME Typed, Registered, [Next]_vars PROVE Registered'
    OBVIOUS
<1>0. /\ TypeOK
      /\ watcher \in [pc : {"idle", "update", "notify"},
                      added : SUBSET (Index \X {1, 2}), removed : SUBSET Index,
                      event : Event \cup {<<>>}, to : SUBSET Plugins]
      /\ plugin \in [Plugins -> [pc : {"start", "load", "loop"},
                                 todo : SUBSET Index, seen : SUBSET Index]]
      /\ ch \in [Plugins -> Seq(Event)]
    BY DEF Typed, TypeOK
<1>i. /\ \A p \in Plugins : p \in listeners <=> plugin[p].pc = "loop"
      /\ \A p \in Plugins : ch[p] # <<>> => p \in listeners
      /\ watcher.to \subseteq listeners
    BY DEF Registered
\* What the plugins' own steps do.
<1>p. /\ \A p \in Plugins : p \in listeners' <=> plugin'[p].pc = "loop"
      /\ listeners \subseteq listeners'
    <2>1. CASE UNCHANGED <<plugin, listeners, probes, failed>>
        BY <1>i, <2>1
    <2>2. ASSUME NEW p \in Plugins, GetVethes(p) PROVE <1>p
        BY <1>0, <1>i, <2>2 DEF GetVethes
    <2>3. ASSUME NEW p \in Plugins, NEW i \in Index, NEW ok \in BOOLEAN, LoadInitial(p, i, ok)
          PROVE  <1>p
        <3>1. listeners' = listeners /\ plugin' = [plugin EXCEPT ![p].todo = @ \ {i}]
            BY <2>3 DEF LoadInitial
        <3>2. \A x \in Plugins : plugin'[x].pc = plugin[x].pc
            BY <1>0, <3>1
        <3> QED
            BY <1>i, <3>1, <3>2
    <2>4. ASSUME NEW p \in Plugins, RegisterNetLinkListener(p) PROVE <1>p
        <3>1. listeners' = listeners \cup {p} /\ plugin' = [plugin EXCEPT ![p].pc = "loop"]
            BY <2>4 DEF RegisterNetLinkListener
        <3>2. plugin'[p].pc = "loop" /\ \A x \in Plugins : x # p => plugin'[x] = plugin[x]
            BY <1>0, <3>1
        <3> QED
            BY <1>i, <3>1, <3>2
    <2>5. ASSUME NEW p \in Plugins, NEW ok \in BOOLEAN, HandleAdd(p, ok) PROVE <1>p
        <3>1. plugin' = plugin /\ listeners' = listeners
            BY <2>5 DEF HandleAdd, AfterFailedLoad
        <3> QED
            BY <1>i, <3>1
    <2>6. ASSUME NEW p \in Plugins, HandleDelete(p) PROVE <1>p
        BY <1>i, <2>6 DEF HandleDelete
    <2> QED
        BY <2>1, <2>2, <2>3, <2>4, <2>5, <2>6, Steps
<1>w. watcher'.to \subseteq listeners'
    <2>1. watcher'.to \subseteq watcher.to \/ watcher'.to = listeners
        <3>1. CASE UNCHANGED <<watcher, netLinks>>
            BY <3>1
        <3>2. ASSUME NEW twice \in SUBSET Index, GetVethesDiff(twice) PROVE <2>1
            BY <1>0, <3>2 DEF GetVethesDiff
        <3>3. CASE UpdateLinks \/ EndRefresh
            BY <1>0, <3>3 DEF UpdateLinks, EndRefresh
        <3>4. ASSUME NEW e \in Event, NextEvent(e) PROVE <2>1
            BY <1>0, <3>4 DEF NextEvent
        <3>5. ASSUME NEW p \in Plugins, SendEvent(p) PROVE <2>1
            BY <1>0, <3>5 DEF SendEvent
        <3> QED
            BY <3>1, <3>2, <3>3, <3>4, <3>5, Steps
    <2> QED
        BY <1>i, <1>p, <2>1
<1>c. ASSUME NEW p \in Plugins, ch'[p] # <<>> PROVE p \in listeners'
    <2>1. CASE ch'[p] = ch[p]
        BY <1>c, <1>i, <1>p, <2>1
    <2>2. CASE SendEvent(p)
        BY <1>i, <1>p, <2>2 DEF SendEvent
    <2>3. CASE (\E ok \in BOOLEAN : HandleAdd(p, ok)) \/ HandleDelete(p)
        BY <1>i, <1>p, <2>3 DEF HandleAdd, HandleDelete
    <2>4. ch'[p] = ch[p] \/ SendEvent(p) \/ (\E ok \in BOOLEAN : HandleAdd(p, ok)) \/ HandleDelete(p)
        <3>1. ASSUME NEW x \in Plugins, SendEvent(x), x # p PROVE ch'[p] = ch[p]
            BY <1>0, <3>1 DEF SendEvent
        <3>2. ASSUME NEW x \in Plugins, HandleDelete(x) \/ \E ok \in BOOLEAN : HandleAdd(x, ok), x # p
              PROVE  ch'[p] = ch[p]
            BY <1>0, <3>2 DEF HandleAdd, HandleDelete
        <3>3. ASSUME \/ UNCHANGED vars
                     \/ \E i \in Index, to \in {"bare", "ready", "gone"} : LinkChange(i, to)
                     \/ \E twice \in SUBSET Index : GetVethesDiff(twice)
                     \/ UpdateLinks \/ EndRefresh \/ \E e \in Event : NextEvent(e)
              PROVE  ch'[p] = ch[p]
            BY <3>3 DEF vars, LinkChange, GetVethesDiff, UpdateLinks, EndRefresh, NextEvent
        <3>4. ASSUME NEW x \in Plugins,
                     \/ GetVethes(x) \/ RegisterNetLinkListener(x)
                     \/ \E i \in Index, ok \in BOOLEAN : LoadInitial(x, i, ok)
              PROVE  ch'[p] = ch[p]
            BY <3>4 DEF GetVethes, RegisterNetLinkListener, LoadInitial
        <3> QED
            BY <3>1, <3>2, <3>3, <3>4 DEF Next, Watch, Gather, Handle
    <2> QED
        BY <2>1, <2>2, <2>3, <2>4
<1> QED
    BY <1>p, <1>w, <1>c DEF Registered

\* A step of the refresh leaves the membership of an interface in netLinks and
\* what remains to be said of it alone, or has something to say of it, or takes
\* up the event that says it.
LEMMA RefreshStep ==
    ASSUME Typed, [Next]_vars, NEW i \in Index
    PROVE  \/ Remaining(watcher', i)
           \/ (i \in netLinks' <=> i \in netLinks) /\ ~Remaining(watcher, i)
           \/ \E e \in Event : NextEvent(e) /\ e.index = i
<1> DEFINE Goal == \/ Remaining(watcher', i)
                   \/ (i \in netLinks' <=> i \in netLinks) /\ ~Remaining(watcher, i)
                   \/ \E e \in Event : NextEvent(e) /\ e.index = i
<1>0. watcher \in [pc : {"idle", "update", "notify"},
                   added : SUBSET (Index \X {1, 2}), removed : SUBSET Index,
                   event : Event \cup {<<>>}, to : SUBSET Plugins]
    BY DEF Typed, TypeOK
<1>1. CASE UNCHANGED <<watcher, netLinks>>
    BY <1>1
<1>2. ASSUME NEW twice \in SUBSET Index, GetVethesDiff(twice) PROVE Goal
    BY <1>2 DEF GetVethesDiff, Remaining
<1>3. ASSUME UpdateLinks PROVE Goal
    <2>1. /\ watcher'.pc = "notify" /\ watcher.pc = "update"
          /\ watcher'.added = watcher.added /\ watcher'.removed = watcher.removed
          /\ netLinks' = (netLinks \cup {a[1] : a \in watcher.added}) \ watcher.removed
        BY <1>0, <1>3 DEF UpdateLinks
    <2> QED
        BY <2>1 DEF Remaining
<1>4. ASSUME NEW e \in Event, NextEvent(e), e.index # i PROVE Goal
    <2>1. /\ netLinks' = netLinks /\ watcher'.pc = watcher.pc
          /\ \/ /\ watcher'.removed = watcher.removed
                /\ \E a \in watcher.added : a[1] = e.index /\ watcher'.added = watcher.added \ {a}
             \/ watcher'.added = watcher.added /\ watcher'.removed = watcher.removed \ {e.index}
        BY <1>0, <1>4 DEF NextEvent
    <2>2. Remaining(watcher', i) <=> Remaining(watcher, i)
        BY <1>4, <2>1 DEF Remaining
    <2> QED
        BY <2>1, <2>2
<1>5. ASSUME NEW p \in Plugins, SendEvent(p) PROVE Goal
    <2>1. /\ watcher'.added = watcher.added /\ watcher'.removed = watcher.removed
          /\ watcher'.pc = watcher.pc /\ netLinks' = netLinks
        BY <1>0, <1>5 DEF SendEvent
    <2> QED
        BY <2>1 DEF Remaining
<1>6. ASSUME EndRefresh PROVE Goal
    BY <1>6 DEF EndRefresh, Remaining
<1> QED
    BY <1>1, <1>2, <1>3, <1>4, <1>5, <1>6, Steps

-----------------------------------------------------------------------------
(* The start of a plugin.                                                  *)

\* Until it registers, a plugin misses no change that `missed' does not record.
LEMMA StepLoads == Typed /\ Announced /\ LoadsWhatItRead /\ [Next]_vars => LoadsWhatItRead'
<1> SUFFICES ASSUME Typed, Announced, LoadsWhatItRead, [Next]_vars, NEW p \in Plugins
             PROVE  /\ plugin'[p].pc = "start" => probes'[p] = {}
                    /\ plugin'[p].pc = "load" =>
                           /\ plugin'[p].todo \subseteq plugin'[p].seen
                           /\ plugin'[p].todo \cap probes'[p] = {}
                           /\ probes'[p] \subseteq plugin'[p].seen
                           /\ plugin'[p].seen \subseteq plugin'[p].todo \cup probes'[p] \cup failed'[p]
                           /\ \A i \in Index :
                                  \/ i \in netLinks' <=> i \in plugin'[p].seen
                                  \/ i \in missed'[p]
                                  \/ Remaining(watcher', i)
    BY DEF LoadsWhatItRead, Remaining
<1>0. /\ TypeOK
      /\ plugin \in [Plugins -> [pc : {"start", "load", "loop"},
                                 todo : SUBSET Index, seen : SUBSET Index]]
      /\ probes \in [Plugins -> SUBSET Index] /\ failed \in [Plugins -> SUBSET Index]
      /\ missed \in [Plugins -> SUBSET Index]
    BY DEF Typed, TypeOK
<1>i. /\ plugin[p].pc = "start" => probes[p] = {}
      /\ plugin[p].pc = "load" =>
             /\ plugin[p].todo \subseteq plugin[p].seen
             /\ plugin[p].todo \cap probes[p] = {}
             /\ probes[p] \subseteq plugin[p].seen
             /\ plugin[p].seen \subseteq plugin[p].todo \cup probes[p] \cup failed[p]
    BY DEF LoadsWhatItRead
<1>j. ASSUME plugin[p].pc = "load", NEW i \in Index
      PROVE  (i \in netLinks <=> i \in plugin[p].seen) \/ i \in missed[p] \/ Remaining(watcher, i)
    BY <1>j DEF LoadsWhatItRead
\* The plugin's own step, if it is one.
<1>1. \/ plugin'[p] = plugin[p] /\ (plugin[p].pc # "loop" => probes'[p] = probes[p] /\ failed'[p] = failed[p])
      \/ GetVethes(p)
      \/ \E i \in Index, ok \in BOOLEAN : LoadInitial(p, i, ok)
      \/ RegisterNetLinkListener(p)
    <2>1. CASE UNCHANGED <<plugin, listeners, probes, failed>>
        BY <2>1
    <2>2. ASSUME NEW x \in Plugins, GetVethes(x), x # p PROVE <1>1
        BY <1>0, <2>2 DEF GetVethes
    <2>3. ASSUME NEW x \in Plugins, NEW i \in Index, NEW ok \in BOOLEAN, LoadInitial(x, i, ok), x # p
          PROVE  <1>1
        <3>1. plugin'[p] = plugin[p]
            BY <1>0, <2>3 DEF LoadInitial
        <3>2. probes' = probes \/ probes' = [probes EXCEPT ![x] = @ \cup {i}]
            BY <2>3 DEF LoadInitial
        <3>3. failed' = failed \/ failed' = [failed EXCEPT ![x] = @ \cup {i}]
            BY <2>3 DEF LoadInitial
        <3>4. probes'[p] = probes[p] /\ failed'[p] = failed[p]
            BY <1>0, <2>3, <3>2, <3>3
        <3> QED
            BY <3>1, <3>4
    <2>4. ASSUME NEW x \in Plugins, RegisterNetLinkListener(x), x # p PROVE <1>1
        BY <1>0, <2>4 DEF RegisterNetLinkListener
    <2>5. ASSUME NEW x \in Plugins, NEW ok \in BOOLEAN, HandleAdd(x, ok) PROVE <1>1
        <3> DEFINE i == Head(ch[x]).index
        <3>1. plugin' = plugin /\ plugin[x].pc = "loop"
            BY <2>5 DEF HandleAdd, AfterFailedLoad
        <3>2. probes' = probes \/ probes' = [probes EXCEPT ![x] = @ \cup {i}]
            BY <2>5 DEF HandleAdd
        <3>3. \/ failed' = failed \/ failed' = [failed EXCEPT ![x] = @ \cup {i}]
              \/ failed' = [failed EXCEPT ![x] = @ \ {i}]
            BY <2>5 DEF HandleAdd
        <3> HIDE DEF i
        <3>4. x # p => probes'[p] = probes[p] /\ failed'[p] = failed[p]
            BY <1>0, <3>2, <3>3
        <3> QED
            BY <3>1, <3>4
    <2>6. ASSUME NEW x \in Plugins, HandleDelete(x) PROVE <1>1
        BY <1>0, <2>6 DEF HandleDelete
    <2> QED
        BY <2>1, <2>2, <2>3, <2>4, <2>5, <2>6, Steps
\* The part about netLinks, when the plugin was loading before.
<1>2. ASSUME plugin[p].pc = "load", plugin'[p].seen = plugin[p].seen, NEW i \in Index
      PROVE  \/ i \in netLinks' <=> i \in plugin'[p].seen
             \/ i \in missed'[p]
             \/ Remaining(watcher', i)
    <2>1. missed[p] \subseteq missed'[p]
        <3>1. ASSUME NEW x \in Plugins, HandleDelete(x) \/ \E ok \in BOOLEAN : HandleAdd(x, ok)
              PROVE  missed'[p] = missed[p]
            <4>1. x # p
                BY <1>2, <3>1 DEF HandleDelete, HandleAdd
            <4>2. missed' = [missed EXCEPT ![x] = @ \ {Head(ch[x]).index}]
                BY <3>1 DEF HandleDelete, HandleAdd
            <4> QED
                BY <1>0, <4>1, <4>2
        <3>2. ASSUME NEW e \in Event, NextEvent(e) PROVE missed[p] \subseteq missed'[p]
            BY <3>2 DEF NextEvent
        <3>3. ASSUME \/ UNCHANGED vars
                     \/ \E x \in Index, to \in {"bare", "ready", "gone"} : LinkChange(x, to)
                     \/ \E twice \in SUBSET Index : GetVethesDiff(twice)
                     \/ UpdateLinks \/ EndRefresh \/ \E x \in Plugins : SendEvent(x)
              PROVE  missed' = missed
            BY <3>3 DEF vars, LinkChange, GetVethesDiff, UpdateLinks, EndRefresh, SendEvent
        <3>4. ASSUME NEW x \in Plugins,
                     \/ GetVethes(x) \/ RegisterNetLinkListener(x)
                     \/ \E y \in Index, ok \in BOOLEAN : LoadInitial(x, y, ok)
              PROVE  missed' = missed
            BY <3>4 DEF GetVethes, RegisterNetLinkListener, LoadInitial
        <3> QED
            BY <3>1, <3>2, <3>3, <3>4 DEF Next, Watch, Gather, Handle
    <2>2. CASE (i \in netLinks' <=> i \in netLinks) /\ ~Remaining(watcher, i)
        BY <1>2, <1>j, <2>1, <2>2
    <2>3. ASSUME NEW e \in Event, NextEvent(e), e.index = i
          PROVE  (i \in netLinks' <=> i \in plugin'[p].seen) \/ i \in missed'[p]
        <3>1. e.type = "add" <=> i \in netLinks
            BY <2>3 DEF NextEvent, Announced
        <3>2. TooLate(p, e) => i \in missed'[p]
            BY <2>3 DEF NextEvent
        <3>3. netLinks' = netLinks
            BY <2>3 DEF NextEvent
        <3> QED
            BY <1>2, <2>3, <3>1, <3>2, <3>3 DEF TooLate
    <2> QED
        BY <2>2, <2>3, RefreshStep
<1>3. CASE plugin'[p] = plugin[p] /\ (plugin[p].pc # "loop" => probes'[p] = probes[p] /\ failed'[p] = failed[p])
    BY <1>2, <1>3, <1>i
<1>4. CASE GetVethes(p)
    <2>1. /\ plugin'[p] = [pc |-> "load", todo |-> netLinks, seen |-> netLinks]
          /\ netLinks' = netLinks /\ probes' = probes /\ plugin[p].pc = "start"
        BY <1>0, <1>4 DEF GetVethes
    <2> QED
        BY <1>i, <2>1
<1>5. ASSUME NEW i \in Index, NEW ok \in BOOLEAN, LoadInitial(p, i, ok)
      PROVE  plugin'[p].pc = "load" /\
             /\ plugin'[p].todo \subseteq plugin'[p].seen
             /\ plugin'[p].todo \cap probes'[p] = {}
             /\ probes'[p] \subseteq plugin'[p].seen
             /\ plugin'[p].seen \subseteq plugin'[p].todo \cup probes'[p] \cup failed'[p]
             /\ plugin'[p].seen = plugin[p].seen
    <2>1. /\ plugin'[p].pc = "load" /\ plugin[p].pc = "load"
          /\ plugin'[p].seen = plugin[p].seen /\ plugin'[p].todo = plugin[p].todo \ {i}
          /\ i \in plugin[p].todo
        BY <1>0, <1>5 DEF LoadInitial
    <2>2. \/ probes'[p] = probes[p] \cup {i} /\ failed'[p] = failed[p]
          \/ probes'[p] = probes[p] /\ failed'[p] = failed[p] \cup {i}
        BY <1>0, <1>5 DEF LoadInitial
    <2> QED
        BY <1>i, <2>1, <2>2
<1>6. CASE RegisterNetLinkListener(p)
    <2>1. plugin'[p].pc = "loop"
        BY <1>0, <1>6 DEF RegisterNetLinkListener
    <2> QED
        BY <2>1
<1>7. ASSUME NEW i \in Index, NEW ok \in BOOLEAN, LoadInitial(p, i, ok) PROVE plugin[p].pc = "load"
    BY <1>7 DEF LoadInitial
<1> QED
    BY <1>1, <1>2, <1>3, <1>4, <1>5, <1>6, <1>7

-----------------------------------------------------------------------------
(* The loop of a plugin.                                                   *)

\* Every step keeps a plugin in its loop on the way to the probes of netLinks.
LEMMA StepFollows == IInv /\ [Next]_vars => Follows'
<1> SUFFICES ASSUME IInv, [Next]_vars, NEW p \in Plugins, NEW i \in Index,
                    plugin'[p].pc = "loop", ~Awaits(watcher', p, i)
             PROVE  /\ LastTells(ch'[p], i, netLinks')
                    /\ \/ Mentions(ch'[p], i)
                       \/ i \in missed'[p] \cup failed'[p]
                       \/ i \in probes'[p] <=> i \in netLinks'
    BY DEF Follows, Awaits, Remaining, LastTells, Mentions
<1> DEFINE Goal == /\ LastTells(ch'[p], i, netLinks')
                   /\ \/ Mentions(ch'[p], i)
                      \/ i \in missed'[p] \cup failed'[p]
                      \/ i \in probes'[p] <=> i \in netLinks'
<1>0. /\ Typed /\ TypeOK
      /\ watcher \in [pc : {"idle", "update", "notify"},
                      added : SUBSET (Index \X {1, 2}), removed : SUBSET Index,
                      event : Event \cup {<<>>}, to : SUBSET Plugins]
      /\ watcher.to # {} => watcher.pc = "notify" /\ watcher.event \in Event
      /\ plugin \in [Plugins -> [pc : {"start", "load", "loop"},
                                 todo : SUBSET Index, seen : SUBSET Index]]
      /\ probes \in [Plugins -> SUBSET Index] /\ failed \in [Plugins -> SUBSET Index]
      /\ missed \in [Plugins -> SUBSET Index] /\ ch \in [Plugins -> Seq(Event)]
    BY DEF IInv, Typed, TypeOK, Sending
<1>i. ASSUME plugin[p].pc = "loop", ~Awaits(watcher, p, i)
      PROVE  /\ LastTells(ch[p], i, netLinks)
             /\ \/ Mentions(ch[p], i)
                \/ i \in missed[p] \cup failed[p]
                \/ i \in probes[p] <=> i \in netLinks
    BY <1>i DEF IInv, Follows
\* Steps that concern neither the interface nor what the plugin knows of it.
<1>a. ASSUME plugin[p].pc = "loop", ~Awaits(watcher, p, i), i \in netLinks' <=> i \in netLinks,
             ch'[p] = ch[p], missed'[p] = missed[p], failed'[p] = failed[p], probes'[p] = probes[p]
      PROVE  Goal
    BY <1>a, <1>i DEF LastTells
<1>1. ASSUME NEW j \in Index, NEW to \in {"bare", "ready", "gone"}, LinkChange(j, to) PROVE Goal
    BY <1>1, <1>a DEF LinkChange
<1>2. ASSUME NEW twice \in SUBSET Index, GetVethesDiff(twice) PROVE Goal
    <2>1. ~Awaits(watcher, p, i)
        BY <1>0, <1>2 DEF GetVethesDiff, Awaits, Remaining
    <2>2. plugin[p].pc = "loop"
        BY <1>2 DEF GetVethesDiff
    <2> QED
        BY <1>2, <1>a, <2>1, <2>2 DEF GetVethesDiff
<1>3. ASSUME UpdateLinks PROVE Goal
    <2>1. ~Awaits(watcher, p, i)
        BY <1>0, <1>3 DEF UpdateLinks, Awaits, Remaining
    <2>2. ~(\E e \in Event : NextEvent(e))
        BY <1>3 DEF UpdateLinks, NextEvent
    <2>3. i \in netLinks' <=> i \in netLinks
        BY <1>0, <2>2, RefreshStep DEF Awaits
    <2>4. /\ plugin[p].pc = "loop" /\ ch' = ch /\ missed' = missed /\ failed' = failed
          /\ probes' = probes
        BY <1>3 DEF UpdateLinks
    <2> QED
        BY <1>a, <2>1, <2>3, <2>4
<1>4. ASSUME NEW e \in Event, NextEvent(e) PROVE Goal
    <2>1. /\ plugin[p].pc = "loop" /\ ch' = ch /\ failed' = failed /\ probes' = probes
          /\ netLinks' = netLinks /\ watcher.to = {}
        BY <1>4 DEF NextEvent
    <2>2. missed'[p] = missed[p]
        BY <1>4, <2>1 DEF NextEvent, TooLate
    <2>3. watcher'.to = listeners /\ watcher'.event = e
        BY <1>0, <1>4 DEF NextEvent
    <2>4. p \in listeners
        BY <2>1 DEF IInv, Registered
    <2>5. e.index # i
        BY <2>3, <2>4 DEF Awaits
    <2>6. Remaining(watcher', i) <=> Remaining(watcher, i)
        <3>1. /\ watcher'.pc = watcher.pc
              /\ \/ /\ watcher'.removed = watcher.removed
                    /\ \E a \in watcher.added : a[1] = e.index /\ watcher'.added = watcher.added \ {a}
                 \/ watcher'.added = watcher.added /\ watcher'.removed = watcher.removed \ {e.index}
            BY <1>0, <1>4 DEF NextEvent
        <3> QED
            BY <2>5, <3>1 DEF Remaining
    <2>7. ~Awaits(watcher, p, i)
        BY <2>1, <2>6 DEF Awaits
    <2> QED
        BY <1>a, <2>1, <2>2, <2>7
<1>5. ASSUME NEW x \in Plugins, SendEvent(x) PROVE Goal
    <2>1. /\ watcher'.added = watcher.added /\ watcher'.removed = watcher.removed
          /\ watcher'.pc = watcher.pc /\ watcher'.event = watcher.event
          /\ watcher'.to = watcher.to \ {x} /\ x \in watcher.to
        BY <1>0, <1>5 DEF SendEvent
    <2>2. /\ plugin[p].pc = "loop" /\ missed' = missed /\ failed' = failed
          /\ probes' = probes /\ netLinks' = netLinks
          /\ ch' = [ch EXCEPT ![x] = Append(@, watcher.event)]
        BY <1>5 DEF SendEvent
    <2>3. Remaining(watcher', i) <=> Remaining(watcher, i)
        BY <2>1 DEF Remaining
    <2>4. CASE x # p
        <3>1. ~Awaits(watcher, p, i)
            BY <2>1, <2>3, <2>4 DEF Awaits
        <3>2. ch'[p] = ch[p]
            BY <1>0, <2>2, <2>4
        <3> QED
            BY <1>a, <2>2, <3>1, <3>2
    <2>5. CASE x = p
        <3>1. /\ ch'[p] = Append(ch[p], watcher.event) /\ ch[p] \in Seq(Event)
              /\ watcher.event \in Event
            BY <1>0, <2>1, <2>2, <2>5
        <3>2. CASE watcher.event.index = i
            <4>1. watcher.event.type = "add" <=> i \in netLinks
                BY <2>1, <3>2 DEF IInv, Announced
            <4>2. LastTells(Append(ch[p], watcher.event), i, netLinks)
                  /\ Mentions(Append(ch[p], watcher.event), i)
                BY <3>1, <3>2, <4>1, TellsAppend
            <4> QED
                BY <2>2, <3>1, <4>2
        <3>3. CASE watcher.event.index # i
            <4>1. ~Awaits(watcher, p, i)
                BY <2>3, <3>3 DEF Awaits
            <4>2. /\ LastTells(ch[p], i, netLinks) => LastTells(Append(ch[p], watcher.event), i, netLinks)
                  /\ Mentions(Append(ch[p], watcher.event), i) <=> Mentions(ch[p], i)
                BY <3>1, <3>3, TellsAppend
            <4> QED
                BY <1>i, <2>2, <3>1, <4>1, <4>2
        <3> QED
            BY <3>2, <3>3
    <2> QED
        BY <2>4, <2>5
<1>6. ASSUME EndRefresh PROVE Goal
    <2>1. ~Awaits(watcher, p, i)
        BY <1>6 DEF EndRefresh, Awaits, Remaining
    <2>2. plugin[p].pc = "loop"
        BY <1>6 DEF EndRefresh
    <2> QED
        BY <1>6, <1>a, <2>1, <2>2 DEF EndRefresh
<1>7. ASSUME NEW x \in Plugins, GetVethes(x) PROVE Goal
    <2>1. x # p
        BY <1>0, <1>7 DEF GetVethes
    <2>2. plugin'[p] = plugin[p] /\ UNCHANGED <<watcher, netLinks, ch, missed, failed, probes>>
        BY <1>0, <1>7, <2>1 DEF GetVethes
    <2> QED
        BY <1>a, <2>2
<1>8. ASSUME NEW x \in Plugins, NEW j \in Index, NEW ok \in BOOLEAN, LoadInitial(x, j, ok) PROVE Goal
    <2>1. x # p
        BY <1>0, <1>8 DEF LoadInitial
    <2>2. plugin'[p] = plugin[p] /\ UNCHANGED <<watcher, netLinks, ch, missed>>
        BY <1>0, <1>8, <2>1 DEF LoadInitial
    <2>3. probes' = probes \/ probes' = [probes EXCEPT ![x] = @ \cup {j}]
        BY <1>8 DEF LoadInitial
    <2>4. failed' = failed \/ failed' = [failed EXCEPT ![x] = @ \cup {j}]
        BY <1>8 DEF LoadInitial
    <2>5. probes'[p] = probes[p] /\ failed'[p] = failed[p]
        BY <1>0, <2>1, <2>3, <2>4
    <2> QED
        BY <1>a, <2>2, <2>5
<1>9. ASSUME NEW x \in Plugins, RegisterNetLinkListener(x) PROVE Goal
    <2>0. UNCHANGED <<watcher, netLinks, ch, missed, failed, probes>>
        BY <1>9 DEF RegisterNetLinkListener
    <2>1. CASE x # p
        <3>1. plugin'[p] = plugin[p]
            BY <1>0, <1>9, <2>1 DEF RegisterNetLinkListener
        <3> QED
            BY <1>a, <2>0, <3>1
    <2>2. CASE x = p
        <3>1. plugin[p].pc = "load" /\ plugin[p].todo = {}
            BY <1>9, <2>2 DEF RegisterNetLinkListener
        <3>2. ch[p] = <<>>
            BY <3>1 DEF IInv, Registered
        <3>3. LastTells(ch[p], i, netLinks)
            BY <3>2 DEF LastTells
        <3>4. ~Remaining(watcher, i)
            BY <2>0 DEF Awaits
        <3>5. /\ probes[p] \subseteq plugin[p].seen
              /\ plugin[p].seen \subseteq probes[p] \cup failed[p]
              /\ (i \in netLinks <=> i \in plugin[p].seen) \/ i \in missed[p]
            BY <3>1, <3>4 DEF IInv, LoadsWhatItRead
        <3> QED
            BY <2>0, <3>3, <3>5
    <2> QED
        BY <2>1, <2>2
\* Handling an event: what it does to the plugin's sets.
<1>h. ASSUME NEW x \in Plugins, ch[x] # <<>>, ch' = [ch EXCEPT ![x] = Tail(@)],
             UNCHANGED <<plugin, watcher, netLinks>>,
             \A y \in Plugins : y # x =>
                 missed'[y] = missed[y] /\ failed'[y] = failed[y] /\ probes'[y] = probes[y],
             \A j \in Index : j # Head(ch[x]).index =>
                 /\ j \in missed'[x] <=> j \in missed[x]
                 /\ j \in failed'[x] <=> j \in failed[x]
                 /\ j \in probes'[x] <=> j \in probes[x],
             Head(ch[x]).type = "add" =>
                 Head(ch[x]).index \in probes'[x] \/ Head(ch[x]).index \in failed'[x],
             Head(ch[x]).type # "add" => Head(ch[x]).index \notin probes'[x]
      PROVE  Goal
    <2>0. plugin[p].pc = "loop" /\ ~Awaits(watcher, p, i) /\ netLinks' = netLinks
        BY <1>h
    <2>r. ch[x] \in Seq(Event) /\ ch'[x] = Tail(ch[x]) /\ \A y \in Plugins : y # x => ch'[y] = ch[y]
        BY <1>0, <1>h, Received
    <2>1. CASE x # p
        <3>1. ch'[p] = ch[p] /\ missed'[p] = missed[p] /\ failed'[p] = failed[p] /\ probes'[p] = probes[p]
            BY <1>h, <2>1, <2>r
        <3> QED
            BY <1>a, <2>0, <3>1
    <2>2. CASE x = p
        <3>1. LastTells(ch[p], i, netLinks)
            BY <1>i, <2>0
        <3>2. /\ LastTells(Tail(ch[p]), i, netLinks)
              /\ Head(ch[p]).index # i => (Mentions(Tail(ch[p]), i) <=> Mentions(ch[p], i))
              /\ Head(ch[p]).index = i /\ ~Mentions(Tail(ch[p]), i) =>
                     (Head(ch[p]).type = "add" <=> i \in netLinks)
            BY <1>h, <2>2, <2>r, <3>1, TellsTail
        <3>3. CASE Head(ch[p]).index # i
            <4>1. /\ i \in missed'[p] <=> i \in missed[p]
                  /\ i \in failed'[p] <=> i \in failed[p]
                  /\ i \in probes'[p] <=> i \in probes[p]
                BY <1>h, <2>2, <3>3
            <4> QED
                BY <1>i, <2>0, <2>2, <2>r, <3>2, <3>3, <4>1
        <3>4. CASE Head(ch[p]).index = i
            <4>1. /\ Head(ch[p]).type = "add" => i \in probes'[p] \/ i \in failed'[p]
                  /\ Head(ch[p]).type # "add" => i \notin probes'[p]
                BY <1>h, <2>2, <3>4
            <4> QED
                BY <2>0, <2>2, <2>r, <3>2, <3>4, <4>1
        <3> QED
            BY <3>3, <3>4
    <2> QED
        BY <2>1, <2>2
<1>10. ASSUME NEW x \in Plugins, NEW ok \in BOOLEAN, HandleAdd(x, ok) PROVE Goal
    <2> DEFINE j == Head(ch[x]).index
    <2>0. /\ ch[x] # <<>> /\ ch' = [ch EXCEPT ![x] = Tail(@)] /\ Head(ch[x]).type = "add"
          /\ UNCHANGED <<plugin, watcher, netLinks>>
        BY <1>10 DEF HandleAdd, AfterFailedLoad
    <2>r. j \in Index
        BY <1>0, <2>0, Received
    <2>1. missed' = [missed EXCEPT ![x] = @ \ {j}]
        BY <1>10 DEF HandleAdd
    <2>2. \/ j \in probes[x] /\ probes' = probes /\ failed' = failed
          \/ probes' = [probes EXCEPT ![x] = @ \cup {j}] /\ failed' = [failed EXCEPT ![x] = @ \ {j}]
          \/ probes' = probes /\ failed' = [failed EXCEPT ![x] = @ \cup {j}]
        BY <1>10 DEF HandleAdd, Knows
    <2> HIDE DEF j
    <2>3. /\ \A y \in Plugins : y # x => missed'[y] = missed[y]
          /\ missed'[x] = missed[x] \ {j}
        BY <1>0, <2>1
    <2>4. /\ \A y \in Plugins : y # x => failed'[y] = failed[y] /\ probes'[y] = probes[y]
          /\ \A l \in Index : l # j =>
                 (l \in failed'[x] <=> l \in failed[x]) /\ (l \in probes'[x] <=> l \in probes[x])
          /\ j \in probes'[x] \/ j \in failed'[x]
        <3>1. CASE j \in probes[x] /\ probes' = probes /\ failed' = failed
            BY <3>1
        <3>2. CASE probes' = [probes EXCEPT ![x] = @ \cup {j}] /\ failed' = [failed EXCEPT ![x] = @ \ {j}]
            BY <1>0, <3>2
        <3>3. CASE probes' = probes /\ failed' = [failed EXCEPT ![x] = @ \cup {j}]
            BY <1>0, <3>3
        <3> QED
            BY <2>2, <3>1, <3>2, <3>3
    <2> QED
        BY <1>h, <2>0, <2>3, <2>4 DEF j
<1>11. ASSUME NEW x \in Plugins, HandleDelete(x) PROVE Goal
    <2> DEFINE j == Head(ch[x]).index
    <2>0. /\ ch[x] # <<>> /\ ch' = [ch EXCEPT ![x] = Tail(@)] /\ Head(ch[x]).type # "add"
          /\ UNCHANGED <<plugin, watcher, netLinks>>
        BY <1>11 DEF HandleDelete
    <2>1. /\ missed' = [missed EXCEPT ![x] = @ \ {j}] /\ failed' = [failed EXCEPT ![x] = @ \ {j}]
          /\ probes' = [probes EXCEPT ![x] = probes[x] \ {j}]
        BY <1>11 DEF HandleDelete, ProbesAfterDelete
    <2> HIDE DEF j
    <2>2. /\ \A y \in Plugins : y # x =>
                 missed'[y] = missed[y] /\ failed'[y] = failed[y] /\ probes'[y] = probes[y]
          /\ missed'[x] = missed[x] \ {j} /\ failed'[x] = failed[x] \ {j}
          /\ probes'[x] = probes[x] \ {j}
        BY <1>0, <2>1
    <2> QED
        BY <1>h, <2>0, <2>2 DEF j
<1>12. ASSUME UNCHANGED vars PROVE Goal
    BY <1>12, <1>a DEF vars
<1> QED
    BY <1>1, <1>2, <1>3, <1>4, <1>5, <1>6, <1>7, <1>8, <1>9, <1>10, <1>11, <1>12
       DEF Next, Watch, Gather, Handle

-----------------------------------------------------------------------------
(* Filters.                                                                *)

\* Every step keeps the filters of a plugin that looks its table up within its
\* probes and the LinkDelete events it handled.
LEMMA StepFilter == IInv /\ [Next]_vars => FilterPerProbe'
<1> SUFFICES ASSUME IInv, [Next]_vars, NEW p \in Plugins \ {"http"}, NEW i \in Index
             PROVE  filters'[p][i] <= flaps'[p][i] + (IF i \in probes'[p] THEN 1 ELSE 0)
    BY DEF FilterPerProbe
<1> DEFINE Goal == filters'[p][i] <= flaps'[p][i] + (IF i \in probes'[p] THEN 1 ELSE 0)
<1>0. /\ TypeOK /\ filters \in [Plugins -> [Index -> Nat]] /\ flaps \in [Plugins -> [Index -> Nat]]
      /\ probes \in [Plugins -> SUBSET Index]
      /\ filters[p][i] \in Nat /\ flaps[p][i] \in Nat /\ p # "http"
    BY DEF IInv, Typed, TypeOK
<1>i. filters[p][i] <= flaps[p][i] + (IF i \in probes[p] THEN 1 ELSE 0)
    BY DEF IInv, FilterPerProbe
\* Steps that leave the plugin's filters, or take them away.
<1>a. ASSUME filters'[p][i] \in {filters[p][i], 0}, flaps' = flaps, i \in probes'[p] <=> i \in probes[p]
      PROVE  Goal
    BY <1>0, <1>a, <1>i
\* Steps that load a probe.
<1>b. ASSUME NEW x \in Plugins, NEW j \in Index, x # "http" => j \notin probes[x],
             filters' = [filters EXCEPT ![x][j] = filters[x][j] + 1],
             probes' = [probes EXCEPT ![x] = @ \cup {j}], flaps' = flaps
      PROVE  Goal
    <2>0. filters[x][j] + 1 \in Nat
        BY <1>0
    <2>1. /\ filters'[x][j] = filters[x][j] + 1
          /\ <<p, i>> # <<x, j>> => filters'[p][i] = filters[p][i]
        BY <1>0, <1>b, <2>0, Counted
    <2>2. CASE x = p /\ i = j
        <3>1. i \notin probes[p] /\ i \in probes'[p]
            BY <1>0, <1>b, <2>2
        <3>2. filters'[p][i] = filters[p][i] + 1
            BY <2>1, <2>2
        <3> QED
            BY <1>0, <1>b, <1>i, <3>1, <3>2
    <2>3. CASE ~(x = p /\ i = j)
        <3>1. filters'[p][i] = filters[p][i]
            BY <2>1, <2>3
        <3>2. i \in probes'[p] <=> i \in probes[p]
            BY <1>0, <1>b, <2>3
        <3> QED
            BY <1>a, <1>b, <3>1, <3>2
    <2> QED
        BY <2>2, <2>3
<1>1. ASSUME NEW j \in Index, NEW to \in {"bare", "ready", "gone"}, LinkChange(j, to) PROVE Goal
    <2>1. filters'[p][i] \in {filters[p][i], 0}
        BY <1>0, <1>1 DEF LinkChange
    <2> QED
        BY <1>1, <1>a, <2>1 DEF LinkChange
<1>2. ASSUME Watch \/ UNCHANGED vars PROVE Goal
    <2>1. UNCHANGED <<filters, flaps, probes>>
        BY <1>2 DEF Watch, GetVethesDiff, UpdateLinks, NextEvent, SendEvent, EndRefresh, vars
    <2> QED
        BY <1>a, <2>1
<1>3. ASSUME NEW x \in Plugins, GetVethes(x) \/ RegisterNetLinkListener(x) PROVE Goal
    <2>1. UNCHANGED <<filters, flaps, probes>>
        BY <1>3 DEF GetVethes, RegisterNetLinkListener
    <2> QED
        BY <1>a, <2>1
<1>4. ASSUME NEW x \in Plugins, NEW j \in Index, NEW ok \in BOOLEAN, LoadInitial(x, j, ok) PROVE Goal
    <2>1. j \notin probes[x]
        BY <1>4 DEF LoadInitial, IInv, LoadsWhatItRead
    <2>2. CASE ok
        BY <1>4, <1>b, <2>1, <2>2 DEF LoadInitial
    <2>3. CASE ~ok
        BY <1>4, <1>a, <2>3 DEF LoadInitial
    <2> QED
        BY <2>2, <2>3
<1>5. ASSUME NEW x \in Plugins, NEW ok \in BOOLEAN, HandleAdd(x, ok) PROVE Goal
    <2> DEFINE j == Head(ch[x]).index
    <2>0. j \in Index
        BY <1>0, <1>5, Received DEF HandleAdd
    <2>1. \/ UNCHANGED <<probes, filters, flaps>>
          \/ /\ ~Knows(x, j) /\ probes' = [probes EXCEPT ![x] = @ \cup {j}]
             /\ filters' = [filters EXCEPT ![x][j] = filters[x][j] + 1] /\ flaps' = flaps
        BY <1>5 DEF HandleAdd
    <2> HIDE DEF j
    <2> QED
        BY <1>a, <1>b, <2>0, <2>1 DEF Knows
<1>6. ASSUME NEW x \in Plugins, HandleDelete(x) PROVE Goal
    <2> DEFINE j == Head(ch[x]).index
    <2>0. j \in Index
        BY <1>0, <1>6, Received DEF HandleDelete
    <2>1. /\ probes' = [probes EXCEPT ![x] = probes[x] \ {j}]
          /\ filters' = [filters EXCEPT ![x][j] = FiltersAfterDelete(x, j)]
          /\ flaps' = [flaps EXCEPT ![x][j] = flaps[x][j] + 1]
        BY <1>6 DEF HandleDelete, ProbesAfterDelete
    <2> HIDE DEF j
    <2>2. /\ FiltersAfterDelete(x, j) \in Nat /\ flaps[x][j] + 1 \in Nat
          /\ x = p => FiltersAfterDelete(x, j) = filters[x][j]
        BY <1>0, <2>0 DEF FiltersAfterDelete
    <2>3. /\ filters'[x][j] = FiltersAfterDelete(x, j)
          /\ <<p, i>> # <<x, j>> => filters'[p][i] = filters[p][i]
        BY <1>0, <2>0, <2>1, <2>2, Counted
    <2>4. /\ flaps'[x][j] = flaps[x][j] + 1
          /\ <<p, i>> # <<x, j>> => flaps'[p][i] = flaps[p][i]
        BY <1>0, <2>0, <2>1, <2>2, Counted
    <2>5. CASE x = p /\ i = j
        BY <1>0, <1>i, <2>2, <2>3, <2>4, <2>5
    <2>6. CASE ~(x = p /\ i = j)
        <3>1. i \in probes'[p] <=> i \in probes[p]
            BY <1>0, <2>1, <2>6
        <3>2. filters'[p][i] = filters[p][i] /\ flaps'[p][i] = flaps[p][i]
            BY <2>3, <2>4, <2>6
        <3> QED
            BY <1>i, <3>1, <3>2
    <2> QED
        BY <2>5, <2>6
<1> QED
    BY <1>1, <1>2, <1>3, <1>4, <1>5, <1>6 DEF Next, Gather, Handle

-----------------------------------------------------------------------------
(* The theorems.                                                           *)

\* The inductive invariant holds throughout.
LEMMA Invariance == Spec => []IInv
<1>1. Init => IInv
    <2> SUFFICES ASSUME Init PROVE IInv
        OBVIOUS
    <2>1. Typed
        BY InitTyped
    <2>2. Announced /\ Registered
        BY DEF Init, Announced, Registered
    <2>3. LoadsWhatItRead /\ Follows
        BY DEF Init, LoadsWhatItRead, Follows
    <2>4. FilterPerProbe
        BY DEF Init, FilterPerProbe
    <2> QED
        BY <2>1, <2>2, <2>3, <2>4 DEF IInv
<1>2. IInv /\ [Next]_vars => IInv'
    BY StepTyped, StepAnnounced, StepRegistered, StepLoads, StepFollows, StepFilter DEF IInv
<1> QED
    BY <1>1, <1>2, PTL DEF Spec

\* Whenever the refresh rests and a plugin has handled its events, the plugin's
\* probes are those of netLinks, except where a Load failed or a change came
\* while the plugin was starting.
THEOREM ProbesAreThoseOfLinks == Spec => []ProbesFollowLinks
<1>1. IInv => ProbesFollowLinks
    <2> SUFFICES ASSUME IInv, NEW p \in Plugins, Quiet(p),
                        NEW i \in Index \ (missed[p] \cup failed[p])
                 PROVE  i \in probes[p] <=> i \in netLinks
        BY DEF ProbesFollowLinks
    <2>1. ~Awaits(watcher, p, i)
        BY DEF IInv, Typed, Sending, Quiet, Awaits, Remaining
    <2>2. ~Mentions(ch[p], i)
        BY DEF Quiet, Mentions
    <2> QED
        BY <2>1, <2>2 DEF IInv, Follows, Quiet
<1> QED
    BY <1>1, Invariance, PTL

\* The rpc and kafka plugins attach one filter to an interface however often it
\* is announced, and one more for each LinkDelete, which detaches none.
THEOREM OneFilterPerInterface == Spec => []OneFilter
<1>1. IInv => OneFilter
    <2> SUFFICES ASSUME IInv, NEW p \in Plugins \ {"http"}, NEW i \in Index
                 PROVE  filters[p][i] <= 1 + flaps[p][i]
        BY DEF OneFilter
    <2>1. filters[p][i] \in Nat /\ flaps[p][i] \in Nat
        BY DEF IInv, Typed, TypeOK
    <2>2. filters[p][i] <= flaps[p][i] + (IF i \in probes[p] THEN 1 ELSE 0)
        BY DEF IInv, FilterPerProbe
    <2> QED
        BY <2>1, <2>2
<1> QED
    BY <1>1, Invariance, PTL

=============================================================================
