---------------------------- MODULE CachesProofs ----------------------------
(***************************************************************************)
(* Theorems about the caches behind the conversion to metrics, each for    *)
(* any sizes of its sets, maps and channels, any lives and periods and any *)
(* number of steps: the NAT table, the pod and service caches, and the     *)
(* process cache with the OOM events.  The three share no state; each has  *)
(* a specification of its own, NatSpec, PodSpec and OomSpec, in which all  *)
(* its parts take their steps.                                             *)
(***************************************************************************)
EXTENDS NatTable, PodCache, OomWatch, TLAPS

-----------------------------------------------------------------------------
(***************************************************************************)
(* The NAT table: what disturbed records is all that can make GetNatInfo   *)
(* wrong.                                                                  *)
(***************************************************************************)

NatSpec == NatInit /\ [][NatProbes \/ NatGather]_natVars

-----------------------------------------------------------------------------
(* The inductive invariant.                                                *)

CallStates == [pc : {"none", "entered", "altered", "deleted"}, task : Task \cup {None},
          conn : NatConn \cup {None}, args : NatConn \cup {None}]

NatTypes ==
    /\ call \in [Context -> CallStates]
    /\ \A x \in InCalls : call[x].conn \in NatConn /\ call[x].task \in Task
    /\ \A x \in Context : call[x].pc = "deleted" => call[x].args \in NatConn
    /\ setup \in [NatConn -> 0 .. 2]
    /\ conn_maps \in [Task -> NatConn \cup {None}]
    /\ nf_conn_maps \in [0 .. MaxTime -> NatEvents \cup {None}]
    /\ natReader \in [key : 0 .. MaxTime, ev : NatEvents] \cup {None}
    /\ natCache \in [Source -> NatEvents \cup {None}]
    /\ ktime \in 0 .. MaxTime
    /\ disturbed \subseteq Source

\* The kernel sets up the connections of a client one after the other.
SetUpInOrder ==
    /\ \A c, d \in NatConn :
           SourceOf[c] = SourceOf[d] /\ d < c /\ setup[c] > 0 => setup[d] = 2
    /\ \A x, y \in InCalls : SourceOf[call[x].conn] = SourceOf[call[y].conn] => x = y
    /\ \A x \in InCalls :
           /\ call[x].pc = "entered" => setup[call[x].conn] < 2
           /\ call[x].pc # "entered" => setup[call[x].conn] > 0
           /\ \A d \in NatConn :
                  SourceOf[d] = SourceOf[call[x].conn] =>
                      /\ d < call[x].conn => setup[d] = 2
                      /\ d > call[x].conn => setup[d] = 0

\* Of a client that was not disturbed: its call alone has its pid_tgid, and
\* finds its own connection in conn_maps and in the slot it has deleted.
FindsOwn ==
    \A x \in InCalls :
        SourceOf[call[x].conn] \notin disturbed =>
            /\ \A y \in InCalls : y # x => call[y].task # call[x].task
            /\ call[x].pc # "deleted" => conn_maps[call[x].task] = call[x].conn
            /\ call[x].pc = "deleted" => call[x].args = call[x].conn

\* ... and nobody else finds it.
FoundByOwner ==
    /\ \A t \in Task :
           conn_maps[t] # None /\ SourceOf[conn_maps[t]] \notin disturbed =>
               \E x \in InCalls :
                   call[x].pc # "deleted" /\ call[x].task = t /\ call[x].conn = conn_maps[t]
    /\ \A x \in InCalls :
           call[x].pc = "deleted" /\ SourceOf[call[x].args] \notin disturbed =>
               call[x].conn = call[x].args

\* ... and what Gather has read of it is still in the map.
ReaderHas ==
    natReader # None /\ SourceOf[natReader.ev.conn] \notin disturbed =>
        nf_conn_maps[natReader.key] = natReader.ev

Seen(s) == {c \in NatConn : SourceOf[c] = s /\ setup[c] > 0 /\ ~IsDns(c)}

Last(S) == CHOOSE c \in S : \A d \in S : d <= c

\* No call is under way that will leave an event of client s.
Calm(s) == \A x \in InCalls : SourceOf[call[x].conn] = s => IsDns(call[x].conn)

Waits(k, s) == nf_conn_maps[k] # None /\ SourceOf[nf_conn_maps[k].conn] = s

\* ... and its events were read after the kernel had altered the tuple; those
\* that wait, or otherwise the one in natCache, are of its latest connection.
EventsAreLatest ==
    \A s \in Source \ disturbed :
        /\ \A k \in 0 .. MaxTime : Waits(k, s) =>
               /\ nf_conn_maps[k].altered
               /\ Calm(s) => nf_conn_maps[k].conn = Last(Seen(s))
        /\ natCache[s] # None /\ Calm(s) /\ (\A k \in 0 .. MaxTime : ~Waits(k, s)) =>
               natCache[s] = [conn |-> Last(Seen(s)), altered |-> TRUE]

NatInv ==
    /\ NatTypes /\ SetUpInOrder /\ FindsOwn /\ FoundByOwner /\ ReaderHas
    /\ EventsAreLatest

-----------------------------------------------------------------------------
(* What the steps do.                                                      *)

\* The greatest of a set of connections is the one CHOOSE finds.
LEMMA LastIs ==
    ASSUME NEW S \in SUBSET NatConn, NEW c \in S, \A d \in S : d <= c
    PROVE  Last(S) = c
<1>1. Last(S) \in S /\ \A d \in S : d <= Last(S)
    BY DEF Last
<1>2. \A d \in S : d \in Int
    <2>1. MaxConns \in Nat
        BY NatAssumption
    <2> QED
        BY <2>1 DEF NatConn
<1> QED
    BY <1>1, <1>2

\* A connection has a client.
LEMMA SourceType == ASSUME NEW c \in NatConn PROVE SourceOf[c] \in Source
BY NatAssumption

\* kprobe_nf_nat_setup_info: the call begins with its connection in conn_maps;
\* every other call keeps its own, but for clients that are disturbed by it.
LEMMA EnterEffect ==
    ASSUME NatTypes, NEW x \in Context, NEW t \in Task, NEW c \in NatConn, NatEnter(x, t, c)
    PROVE  /\ x \notin InCalls /\ InCalls' = InCalls \cup {x}
           /\ call' \in [Context -> CallStates]
           /\ call'[x].pc = "entered" /\ call'[x].task = t /\ call'[x].conn = c
           /\ \A y \in InCalls :
                  /\ call'[y].pc = call[y].pc /\ call'[y].task = call[y].task
                  /\ call'[y].conn = call[y].conn
                  /\ \/ call'[y].args = call[y].args
                     \/ /\ call'[y].args = c
                        /\ {SourceOf[c], SourceOf[call[y].conn]} \subseteq disturbed'
                  /\ call[y].task = t =>
                        {SourceOf[c], SourceOf[call[y].conn]} \subseteq disturbed'
           /\ ~Fits(conn_maps, t, ConnMax) => SourceOf[c] \in disturbed'
           /\ disturbed \subseteq disturbed' /\ disturbed' \subseteq Source
           /\ conn_maps' \in [Task -> NatConn \cup {None}]
           /\ \A u \in Task : u # t => conn_maps'[u] = conn_maps[u]
           /\ Fits(conn_maps, t, ConnMax) => conn_maps'[t] = c
           /\ ~Fits(conn_maps, t, ConnMax) => conn_maps' = conn_maps
           /\ UNCHANGED <<setup, nf_conn_maps, natReader, natCache, ktime>>
<1>0. /\ call \in [Context -> CallStates] /\ call[x].pc = "none"
      /\ \A y \in InCalls : call[y].conn \in NatConn
    BY DEF NatTypes, NatEnter
<1> DEFINE new == [pc |-> "entered", task |-> t, conn |-> c, args |-> None]
           shared == {y \in InCalls : call[y].task = t}
<1>1. PICK reused \in SUBSET {y \in InCalls : call[y].pc = "deleted"} :
          /\ call' = [y \in Context |-> IF y = x THEN new
                                        ELSE IF y \in reused THEN [call[y] EXCEPT !.args = c]
                                        ELSE call[y]]
          /\ disturbed' = disturbed
                 \cup {SourceOf[call[y].conn] : y \in shared \cup reused}
                 \cup (IF shared \cup reused = {} /\ Fits(conn_maps, t, ConnMax)
                       THEN {} ELSE {SourceOf[c]})
    BY DEF NatEnter
<1>2. new \in CallStates /\ new.pc = "entered" /\ new.task = t /\ new.conn = c
    BY DEF CallStates
<1>3. \A y \in Context :
          /\ [call[y] EXCEPT !.args = c] \in CallStates
          /\ [call[y] EXCEPT !.args = c].pc = call[y].pc
          /\ [call[y] EXCEPT !.args = c].task = call[y].task
          /\ [call[y] EXCEPT !.args = c].conn = call[y].conn
          /\ [call[y] EXCEPT !.args = c].args = c
    BY <1>0 DEF CallStates
<1>4. x \notin InCalls /\ InCalls \subseteq Context
    BY <1>0 DEF InCalls
<1>5. call' \in [Context -> CallStates] /\ call'[x] = new
    <2> HIDE DEF new
    <2> QED
        BY <1>0, <1>1, <1>2, <1>3
<1>6. ASSUME NEW y \in InCalls
      PROVE  /\ call'[y].pc = call[y].pc /\ call'[y].task = call[y].task
             /\ call'[y].conn = call[y].conn
             /\ call'[y].args = call[y].args \/ (y \in reused /\ call'[y].args = c)
    <2>1. CASE y \in reused
        <3>1. call'[y] = [call[y] EXCEPT !.args = c]
            BY <1>1, <1>4, <2>1
        <3> QED
            BY <1>3, <1>4, <2>1, <3>1
    <2>2. CASE y \notin reused
        <3>1. call'[y] = call[y]
            BY <1>1, <1>4, <2>2
        <3> QED
            BY <3>1
    <2> QED
        BY <2>1, <2>2
<1>7. InCalls' = InCalls \cup {x}
    <2>1. \A y \in Context : y # x /\ y \notin InCalls => call'[y].pc = "none"
        <3>1. \A y \in Context : y # x /\ y \notin InCalls => call'[y] = call[y]
            BY <1>1
        <3> QED
            BY <3>1 DEF InCalls
    <2>2. \A y \in InCalls : call'[y].pc # "none"
        BY <1>6 DEF InCalls
    <2>3. call'[x].pc # "none"
        BY <1>2, <1>5
    <2> QED
        BY <2>1, <2>2, <2>3 DEF InCalls
<1>8. /\ disturbed \subseteq disturbed' /\ disturbed' \subseteq Source
      /\ ~Fits(conn_maps, t, ConnMax) => SourceOf[c] \in disturbed'
      /\ \A y \in shared \cup reused : {SourceOf[c], SourceOf[call[y].conn]} \subseteq disturbed'
    <2>1. disturbed \subseteq Source /\ SourceOf[c] \in Source
          /\ \A y \in InCalls : SourceOf[call[y].conn] \in Source
        BY <1>0, SourceType DEF NatTypes
    <2> QED
        BY <1>1, <2>1
<1>9. /\ conn_maps' \in [Task -> NatConn \cup {None}]
      /\ \A u \in Task : u # t => conn_maps'[u] = conn_maps[u]
      /\ Fits(conn_maps, t, ConnMax) => conn_maps'[t] = c
      /\ ~Fits(conn_maps, t, ConnMax) => conn_maps' = conn_maps
    <2>1. conn_maps' = UpdateElem(conn_maps, t, c, ConnMax)
          /\ conn_maps \in [Task -> NatConn \cup {None}]
        BY DEF NatEnter, ConnMapsAfterEnter, NatTypes
    <2>2. CASE Fits(conn_maps, t, ConnMax)
        BY <2>1, <2>2 DEF UpdateElem
    <2>3. CASE ~Fits(conn_maps, t, ConnMax)
        BY <2>1, <2>3 DEF UpdateElem
    <2> QED
        BY <2>2, <2>3
<1>10. UNCHANGED <<setup, nf_conn_maps, natReader, natCache, ktime>>
    BY DEF NatEnter
<1>11. \A y \in InCalls :
           /\ \/ call'[y].args = call[y].args
              \/ /\ call'[y].args = c
                 /\ {SourceOf[c], SourceOf[call[y].conn]} \subseteq disturbed'
           /\ call[y].task = t => {SourceOf[c], SourceOf[call[y].conn]} \subseteq disturbed'
    BY <1>6, <1>8
<1>12. call'[x].pc = "entered" /\ call'[x].task = t /\ call'[x].conn = c
    BY <1>2, <1>5
<1> QED
    BY <1>4, <1>5, <1>6, <1>7, <1>8, <1>9, <1>10, <1>11, <1>12

\* A context that goes on in its call, or leaves it.
LEMMA CallChanges ==
    ASSUME NatTypes, NEW x \in Context, NEW r \in CallStates, call' = [call EXCEPT ![x] = r]
    PROVE  /\ call' \in [Context -> CallStates]
           /\ call'[x] = r
           /\ \A y \in Context : y # x => call'[y] = call[y]
           /\ InCalls' = IF r.pc = "none" THEN InCalls \ {x} ELSE InCalls \cup {x}
<1>1. call \in [Context -> CallStates]
    BY DEF NatTypes
<1>2. call' \in [Context -> CallStates] /\ call'[x] = r /\ \A y \in Context : y # x => call'[y] = call[y]
    BY <1>1
<1> QED
    BY <1>2 DEF InCalls

\* A context outside nf_nat_setup_info.
LEMMA RestingIsCall == Resting \in CallStates /\ Resting.pc = "none"
BY DEF Resting, CallStates

\* nf_nat_setup_info has altered the tuple of the call's connection.
LEMMA AlterEffect ==
    ASSUME NatTypes, NEW x \in Context, NatAlter(x)
    PROVE  LET r == call'[x]
           IN  /\ x \in InCalls /\ InCalls' = InCalls
               /\ call' \in [Context -> CallStates]
               /\ call[x].pc = "entered" /\ r.pc = "altered"
               /\ r.task = call[x].task /\ r.conn = call[x].conn /\ r.args = call[x].args
               /\ \A y \in Context : y # x => call'[y] = call[y]
               /\ call[x].conn \in NatConn
               /\ setup' = [setup EXCEPT ![call[x].conn] = setup[call[x].conn] + 1]
               /\ UNCHANGED <<conn_maps, nf_conn_maps, natReader, natCache, ktime, disturbed>>
<1>0. call[x] \in CallStates /\ call[x].pc = "entered" /\ x \in InCalls
    BY DEF NatTypes, NatAlter, InCalls
<1> DEFINE r == [call[x] EXCEPT !.pc = "altered"]
<1>1. /\ r \in CallStates /\ r.pc = "altered" /\ r.task = call[x].task
      /\ r.conn = call[x].conn /\ r.args = call[x].args
    BY <1>0 DEF CallStates
<1>2. call' = [call EXCEPT ![x] = r]
    BY DEF NatAlter
<1>3. setup' = [setup EXCEPT ![call[x].conn] = setup[call[x].conn] + 1]
      /\ UNCHANGED <<conn_maps, nf_conn_maps, natReader, natCache, ktime, disturbed>>
    BY DEF NatAlter
<1>4. call[x].conn \in NatConn
    BY <1>0 DEF NatTypes
<1> HIDE DEF r
<1>5. /\ call' \in [Context -> CallStates] /\ call'[x] = r
      /\ \A y \in Context : y # x => call'[y] = call[y]
      /\ InCalls' = InCalls \cup {x}
    BY <1>1, <1>2, CallChanges
<1> QED
    BY <1>0, <1>1, <1>3, <1>4, <1>5

\* kretprobe_nf_nat_setup_info takes what is in conn_maps under its pid_tgid.
LEMMA ReturnEffect ==
    ASSUME NatTypes, NEW x \in Context, NatReturn(x)
    PROVE  LET r == call'[x]
               args == conn_maps[call[x].task]
           IN  /\ x \in InCalls /\ call[x].pc = "altered"
               /\ call' \in [Context -> CallStates]
               /\ call[x].task \in Task
               /\ \A y \in Context : y # x => call'[y] = call[y]
               /\ args = None => InCalls' = InCalls \ {x}
               /\ args # None =>
                      /\ InCalls' = InCalls /\ r.pc = "deleted" /\ r.task = call[x].task
                      /\ r.conn = call[x].conn /\ r.args = args /\ args \in NatConn
               /\ conn_maps' = [conn_maps EXCEPT ![call[x].task] = None]
               /\ UNCHANGED <<setup, nf_conn_maps, natReader, natCache, ktime, disturbed>>
<1>0. /\ call[x] \in CallStates /\ call[x].pc = "altered" /\ x \in InCalls /\ call[x].task \in Task
      /\ conn_maps \in [Task -> NatConn \cup {None}]
    BY DEF NatTypes, NatReturn, InCalls
<1> DEFINE args == conn_maps[call[x].task]
           r == [call[x] EXCEPT !.pc = "deleted", !.args = args]
<1>1. /\ conn_maps' = [conn_maps EXCEPT ![call[x].task] = None]
      /\ UNCHANGED <<setup, nf_conn_maps, natReader, natCache, ktime, disturbed>>
    BY DEF NatReturn, DeleteElem
<1>2. CASE args = None
    <2>1. call' = [call EXCEPT ![x] = Resting]
        BY <1>2 DEF NatReturn
    <2>2. /\ call' \in [Context -> CallStates]
          /\ \A y \in Context : y # x => call'[y] = call[y]
          /\ InCalls' = InCalls \ {x}
        BY <2>1, CallChanges, RestingIsCall
    <2> QED
        BY <1>0, <1>1, <1>2, <2>2
<1>3. CASE args # None
    <2>1. args \in NatConn
        BY <1>0, <1>3
    <2>2. call' = [call EXCEPT ![x] = r]
        BY <1>3 DEF NatReturn
    <2> HIDE DEF args
    <2>3. /\ r \in CallStates /\ r.pc = "deleted" /\ r.task = call[x].task
          /\ r.conn = call[x].conn /\ r.args = args
        BY <1>0, <2>1 DEF CallStates
    <2> HIDE DEF r
    <2>4. /\ call' \in [Context -> CallStates] /\ call'[x] = r
          /\ \A y \in Context : y # x => call'[y] = call[y]
          /\ InCalls' = InCalls \cup {x}
        BY <2>2, <2>3, CallChanges
    <2> QED
        BY <1>0, <1>1, <1>3, <2>1, <2>3, <2>4 DEF args
<1> QED
    BY <1>2, <1>3

\* The call is over: the kretprobe did not run, or has stored the event.
LEMMA LeaveEffect ==
    ASSUME NatTypes, NEW x \in Context, NatUnseen(x) \/ NatStore(x)
    PROVE  /\ x \in InCalls /\ InCalls' = InCalls \ {x}
           /\ call' \in [Context -> CallStates]
           /\ \A y \in InCalls' : call'[y] = call[y]
           /\ UNCHANGED <<setup, conn_maps, natReader, natCache>>
<1>1. call' = [call EXCEPT ![x] = Resting] /\ call[x].pc # "none"
      /\ UNCHANGED <<setup, conn_maps, natReader, natCache>>
    BY DEF NatUnseen, NatStore
<1>2. /\ call' \in [Context -> CallStates]
      /\ \A y \in Context : y # x => call'[y] = call[y]
      /\ InCalls' = InCalls \ {x}
    BY <1>1, CallChanges, RestingIsCall
<1>3. x \in InCalls /\ InCalls \subseteq Context
    BY <1>1 DEF InCalls
<1> QED
    BY <1>1, <1>2, <1>3

\* kretprobe_nf_nat_setup_info stores the event of the connection it has found,
\* unless it is DNS; who loses an event by it, or has another one waiting, is
\* disturbed.
LEMMA StoreEffect ==
    ASSUME NatTypes, NEW x \in Context, NatStore(x)
    PROVE  LET c == call[x].args
           IN  /\ call[x].pc = "deleted" /\ c \in NatConn
               /\ disturbed \subseteq disturbed' /\ disturbed' \subseteq Source
               /\ \/ IsDns(c) /\ UNCHANGED <<nf_conn_maps, ktime, disturbed>>
                  \/ /\ ~IsDns(c)
                     /\ \E k \in 0 .. MaxTime :
                          /\ ktime' = k
                          /\ nf_conn_maps' \in [0 .. MaxTime -> NatEvents \cup {None}]
                          /\ \A i \in 0 .. MaxTime : i # k => nf_conn_maps'[i] = nf_conn_maps[i]
                          /\ \/ nf_conn_maps'[k] = NatEvent(c)
                             \/ nf_conn_maps' = nf_conn_maps /\ SourceOf[c] \in disturbed'
                          /\ nf_conn_maps[k] # None => SourceOf[nf_conn_maps[k].conn] \in disturbed'
                          /\ \A i \in 0 .. MaxTime :
                                 /\ i # k /\ nf_conn_maps[i] # None
                                 /\ SourceOf[nf_conn_maps[i].conn] = SourceOf[c]
                                 /\ nf_conn_maps[i].conn # c
                                 => SourceOf[c] \in disturbed'
<1> DEFINE c == call[x].args
           ev == NatEvent(c)
<1>0. /\ call[x].pc = "deleted" /\ c \in NatConn /\ disturbed \subseteq Source
      /\ nf_conn_maps \in [0 .. MaxTime -> NatEvents \cup {None}]
    BY DEF NatStore, NatTypes
<1>1. ev \in NatEvents
    BY <1>0 DEF NatEvent, NatEvents, NatTypes
<1>2. CASE IsDns(c)
    <2>1. UNCHANGED <<nf_conn_maps, ktime, disturbed>>
        BY <1>2 DEF NatStore
    <2> QED
        BY <1>0, <1>2, <2>1
<1>3. CASE ~IsDns(c)
    <2> DEFINE over(k) == IF nf_conn_maps[k] = None THEN {} ELSE {nf_conn_maps[k].conn}
               others(k) == {nf_conn_maps[i].conn : i \in Used(nf_conn_maps) \ {k}}
               twin(k) == {d \in others(k) : SourceOf[d] = SourceOf[c] /\ d # c}
    <2>1. PICK k \in {ktime, ktime + 1} \cap (0 .. MaxTime) :
              /\ ktime' = k
              /\ nf_conn_maps' = UpdateElem(nf_conn_maps, k, ev, NfMax)
              /\ disturbed' = disturbed
                     \cup {SourceOf[d] : d \in over(k) \cup twin(k)}
                     \cup (IF Fits(nf_conn_maps, k, NfMax) THEN {} ELSE {SourceOf[c]})
        BY <1>3 DEF NatStore
    <2>2. k \in 0 .. MaxTime
        OBVIOUS
    <2>3. \A i \in 0 .. MaxTime : nf_conn_maps[i] # None => nf_conn_maps[i].conn \in NatConn
        BY <1>0 DEF NatEvents
    <2>4. /\ nf_conn_maps' \in [0 .. MaxTime -> NatEvents \cup {None}]
          /\ \A i \in 0 .. MaxTime : i # k => nf_conn_maps'[i] = nf_conn_maps[i]
          /\ \/ nf_conn_maps'[k] = ev
             \/ nf_conn_maps' = nf_conn_maps /\ ~Fits(nf_conn_maps, k, NfMax)
        <3> HIDE DEF ev
        <3>1. CASE Fits(nf_conn_maps, k, NfMax)
            BY <1>0, <1>1, <2>1, <2>2, <3>1 DEF UpdateElem
        <3>2. CASE ~Fits(nf_conn_maps, k, NfMax)
            BY <1>0, <2>1, <3>2 DEF UpdateElem
        <3> QED
            BY <3>1, <3>2
    <2>5. others(k) \subseteq NatConn /\ over(k) \subseteq NatConn
        BY <1>0, <2>2, <2>3 DEF Used
    <2>6. /\ disturbed \subseteq disturbed'
          /\ ~Fits(nf_conn_maps, k, NfMax) => SourceOf[c] \in disturbed'
          /\ \A d \in over(k) \cup twin(k) : SourceOf[d] \in disturbed'
        BY <2>1
    <2>7. disturbed' \subseteq Source
        <3>1. \A d \in over(k) \cup twin(k) \cup {c} : SourceOf[d] \in Source
            BY <1>0, <2>5, SourceType
        <3> QED
            BY <1>0, <2>1, <3>1
    <2>8. nf_conn_maps[k] # None => SourceOf[nf_conn_maps[k].conn] \in disturbed'
        BY <2>6
    <2>9. ASSUME NEW i \in 0 .. MaxTime, i # k, nf_conn_maps[i] # None,
                 SourceOf[nf_conn_maps[i].conn] = SourceOf[c], nf_conn_maps[i].conn # c
          PROVE  SourceOf[c] \in disturbed'
        <3>1. i \in Used(nf_conn_maps) \ {k}
            BY <1>0, <2>9 DEF Used
        <3>2. nf_conn_maps[i].conn \in twin(k)
            BY <2>9, <3>1
        <3> QED
            BY <2>6, <2>9, <3>2
    <2> HIDE DEF over, others, twin
    <2> QED
        BY <1>0, <1>3, <2>1, <2>2, <2>4, <2>6, <2>7, <2>8, <2>9
<1> QED
    BY <1>2, <1>3

\* Gather deletes what it has read and hands it to natCache; an event that it
\* had not read disturbs its client.
LEMMA DeleteEffect ==
    ASSUME NatTypes, NatDelete
    PROVE  LET k == natReader.key  ev == natReader.ev
           IN  /\ k \in 0 .. MaxTime /\ ev \in NatEvents /\ ev.conn \in NatConn
               /\ nf_conn_maps' = [nf_conn_maps EXCEPT ![k] = None]
               /\ natCache' = [natCache EXCEPT ![SourceOf[ev.conn]] = ev]
               /\ natReader' = None
               /\ nf_conn_maps[k] # None /\ nf_conn_maps[k] # ev =>
                      SourceOf[nf_conn_maps[k].conn] \in disturbed'
               /\ disturbed \subseteq disturbed' /\ disturbed' \subseteq Source
               /\ UNCHANGED <<call, setup, conn_maps, ktime>>
<1>0. /\ natReader \in [key : 0 .. MaxTime, ev : NatEvents] /\ disturbed \subseteq Source
      /\ nf_conn_maps \in [0 .. MaxTime -> NatEvents \cup {None}]
    BY DEF NatDelete, NatTypes
<1>1. natReader.key \in 0 .. MaxTime /\ natReader.ev \in NatEvents /\ natReader.ev.conn \in NatConn
    BY <1>0 DEF NatEvents
<1>2. /\ nf_conn_maps' = [nf_conn_maps EXCEPT ![natReader.key] = None]
      /\ natCache' = [natCache EXCEPT ![SourceOf[natReader.ev.conn]] = natReader.ev]
      /\ natReader' = None
      /\ UNCHANGED <<call, setup, conn_maps, ktime>>
    BY DEF NatDelete, DeleteElem, NatCacheAfter
<1>3. disturbed' = disturbed \cup
          (IF nf_conn_maps[natReader.key] \in {None, natReader.ev} THEN {}
           ELSE {SourceOf[nf_conn_maps[natReader.key].conn]})
    BY DEF NatDelete
<1>4. nf_conn_maps[natReader.key] # None => SourceOf[nf_conn_maps[natReader.key].conn] \in Source
    <2>1. nf_conn_maps[natReader.key] # None => nf_conn_maps[natReader.key].conn \in NatConn
        BY <1>0, <1>1 DEF NatEvents
    <2> QED
        BY <2>1, SourceType
<1> QED
    BY <1>0, <1>1, <1>2, <1>3, <1>4

-----------------------------------------------------------------------------
(* Every step preserves the invariant.                                     *)

\* At the start there are no calls, no events and nothing in natCache.
LEMMA NatInitInv == NatInit => NatInv
<1> SUFFICES ASSUME NatInit PROVE NatInv
    OBVIOUS
<1>1. InCalls = {}
    BY DEF NatInit, InCalls, Resting
<1>2. NatTypes
    <2>1. 0 \in 0 .. MaxTime
        <3>1. MaxTime \in Nat
            BY NatAssumption
        <3> QED
            BY <3>1
    <2>2. call \in [Context -> CallStates] /\ \A x \in Context : call[x].pc = "none"
        BY RestingIsCall DEF NatInit
    <2> QED
        BY <1>1, <2>1, <2>2 DEF NatInit, NatTypes
<1>3. EventsAreLatest
    BY DEF NatInit, EventsAreLatest, Waits
<1> QED
    BY <1>1, <1>2, <1>3 DEF NatInit, NatInv, SetUpInOrder, FindsOwn, FoundByOwner, ReaderHas

\* Every step keeps the types.
LEMMA NatStepTypes ==
    ASSUME NatTypes, SetUpInOrder, NatProbes \/ NatGather \/ UNCHANGED natVars
    PROVE  NatTypes'
<1>1. ASSUME NEW x \in Context, NEW t \in Task, NEW c \in NatConn, NatEnter(x, t, c)
      PROVE  NatTypes'
    <2>1. /\ call' \in [Context -> CallStates] /\ InCalls' = InCalls \cup {x}
          /\ call'[x].pc = "entered" /\ call'[x].task = t /\ call'[x].conn = c
          /\ \A y \in InCalls :
                 /\ call'[y].pc = call[y].pc /\ call'[y].task = call[y].task
                 /\ call'[y].conn = call[y].conn
                 /\ call'[y].args = call[y].args \/ call'[y].args = c
          /\ disturbed' \subseteq Source
          /\ conn_maps' \in [Task -> NatConn \cup {None}]
          /\ UNCHANGED <<setup, nf_conn_maps, natReader, natCache, ktime>>
        BY <1>1, EnterEffect
    <2>2. \A y \in InCalls' : call'[y].conn \in NatConn /\ call'[y].task \in Task
        BY <2>1 DEF NatTypes
    <2>3. ASSUME NEW y \in Context, call'[y].pc = "deleted" PROVE call'[y].args \in NatConn
        <3>1. y \in InCalls' /\ y # x
            BY <2>1, <2>3 DEF InCalls
        <3> QED
            BY <2>1, <2>3, <3>1 DEF NatTypes
    <2> QED
        BY <2>1, <2>2, <2>3 DEF NatTypes
<1>2. ASSUME NEW x \in Context, NatAlter(x) PROVE NatTypes'
    <2>1. /\ x \in InCalls /\ InCalls' = InCalls
          /\ call' \in [Context -> CallStates]
          /\ call[x].pc = "entered" /\ call'[x].pc = "altered"
          /\ call'[x].task = call[x].task /\ call'[x].conn = call[x].conn
          /\ \A y \in Context : y # x => call'[y] = call[y]
          /\ call[x].conn \in NatConn
          /\ setup' = [setup EXCEPT ![call[x].conn] = setup[call[x].conn] + 1]
          /\ UNCHANGED <<conn_maps, nf_conn_maps, natReader, natCache, ktime, disturbed>>
        BY <1>2, AlterEffect
    <2>2. setup' \in [NatConn -> 0 .. 2]
        <3>1. setup[call[x].conn] + 1 \in 0 .. 2
            BY <2>1 DEF SetUpInOrder, NatTypes
        <3> QED
            BY <2>1, <3>1 DEF NatTypes
    <2>3. \A y \in InCalls' : call'[y].conn \in NatConn /\ call'[y].task \in Task
        BY <2>1 DEF NatTypes, InCalls
    <2>4. \A y \in Context : call'[y].pc = "deleted" => call'[y].args \in NatConn
        BY <2>1 DEF NatTypes
    <2> QED
        BY <2>1, <2>2, <2>3, <2>4 DEF NatTypes
<1>3. ASSUME NEW x \in Context, NatReturn(x) PROVE NatTypes'
    <2>1. /\ x \in InCalls /\ call' \in [Context -> CallStates]
          /\ call[x].task \in Task
          /\ \A y \in Context : y # x => call'[y] = call[y]
          /\ conn_maps[call[x].task] = None => InCalls' = InCalls \ {x}
          /\ conn_maps[call[x].task] # None =>
                 /\ InCalls' = InCalls /\ call'[x].pc = "deleted"
                 /\ call'[x].task = call[x].task /\ call'[x].conn = call[x].conn
                 /\ call'[x].args \in NatConn
          /\ conn_maps' = [conn_maps EXCEPT ![call[x].task] = None]
          /\ UNCHANGED <<setup, nf_conn_maps, natReader, natCache, ktime, disturbed>>
        BY <1>3, ReturnEffect
    <2>2. \A y \in InCalls' : call'[y].conn \in NatConn /\ call'[y].task \in Task
        BY <2>1 DEF NatTypes, InCalls
    <2>3. ASSUME NEW y \in Context, call'[y].pc = "deleted" PROVE call'[y].args \in NatConn
        <3>1. y \in InCalls'
            BY <2>3 DEF InCalls
        <3> QED
            BY <2>1, <2>3, <3>1 DEF NatTypes
    <2>4. conn_maps' \in [Task -> NatConn \cup {None}]
        BY <2>1 DEF NatTypes
    <2> QED
        BY <2>1, <2>2, <2>3, <2>4 DEF NatTypes
<1>4. ASSUME NEW x \in Context, NatUnseen(x) \/ NatStore(x) PROVE NatTypes'
    <2>1. /\ x \in InCalls /\ InCalls' = InCalls \ {x}
          /\ call' \in [Context -> CallStates]
          /\ \A y \in InCalls' : call'[y] = call[y]
          /\ UNCHANGED <<setup, conn_maps, natReader, natCache>>
        BY <1>4, LeaveEffect
    <2>2. \A y \in InCalls' : call'[y].conn \in NatConn /\ call'[y].task \in Task
        BY <2>1 DEF NatTypes
    <2>3. ASSUME NEW y \in Context, call'[y].pc = "deleted" PROVE call'[y].args \in NatConn
        <3>1. y \in InCalls'
            BY <2>3 DEF InCalls
        <3> QED
            BY <2>1, <2>3, <3>1 DEF NatTypes
    <2>4. CASE NatUnseen(x)
        <3>1. SourceOf[call[x].conn] \in Source
            BY <2>1, SourceType DEF NatTypes
        <3>2. disturbed' \subseteq Source /\ UNCHANGED <<nf_conn_maps, ktime>>
            BY <2>4, <3>1 DEF NatUnseen, NatTypes
        <3> QED
            BY <2>1, <2>2, <2>3, <3>2 DEF NatTypes
    <2>5. CASE NatStore(x)
        <3>1. /\ disturbed' \subseteq Source /\ ktime' \in 0 .. MaxTime
              /\ nf_conn_maps' \in [0 .. MaxTime -> NatEvents \cup {None}]
            <4>1. nf_conn_maps \in [0 .. MaxTime -> NatEvents \cup {None}] /\ ktime \in 0 .. MaxTime
                BY DEF NatTypes
            <4> QED
                BY <2>5, <4>1, StoreEffect
        <3> QED
            BY <2>1, <2>2, <2>3, <3>1 DEF NatTypes
    <2> QED
        BY <1>4, <2>4, <2>5
<1>5. CASE NatNext
    <2>1. PICK k \in Used(nf_conn_maps) : natReader' = [key |-> k, ev |-> nf_conn_maps[k]]
        BY <1>5 DEF NatNext
    <2>2. k \in 0 .. MaxTime /\ nf_conn_maps[k] \in NatEvents
        BY <2>1 DEF Used, NatTypes
    <2>3. natReader' \in [key : 0 .. MaxTime, ev : NatEvents]
        BY <2>1, <2>2
    <2> QED
        BY <1>5, <2>3 DEF NatNext, NatTypes, InCalls
<1>6. CASE NatDelete
    <2>1. /\ natReader.ev \in NatEvents
          /\ nf_conn_maps' = [nf_conn_maps EXCEPT ![natReader.key] = None]
          /\ natCache' = [natCache EXCEPT ![SourceOf[natReader.ev.conn]] = natReader.ev]
          /\ natReader' = None /\ disturbed' \subseteq Source
          /\ UNCHANGED <<call, setup, conn_maps, ktime>>
        BY <1>6, DeleteEffect
    <2>2. /\ nf_conn_maps' \in [0 .. MaxTime -> NatEvents \cup {None}]
          /\ natCache' \in [Source -> NatEvents \cup {None}]
        BY <2>1 DEF NatTypes
    <2> QED
        BY <2>1, <2>2 DEF NatTypes, InCalls
<1>7. ASSUME NEW s \in Source, NatExpire(s) PROVE NatTypes'
    BY <1>7 DEF NatExpire, NatTypes, InCalls
<1>8. CASE UNCHANGED natVars
    BY <1>8 DEF natVars, NatTypes, InCalls
<1> QED
    BY <1>1, <1>2, <1>3, <1>4, <1>5, <1>6, <1>7, <1>8 DEF NatProbes, NatGather

\* Only the probes' steps change where calls are, and only they and Gather who
\* is disturbed.
LEMMA GatherKeepsCalls ==
    ASSUME NatTypes, NatGather \/ UNCHANGED natVars
    PROVE  /\ UNCHANGED <<call, setup, conn_maps>> /\ InCalls' = InCalls
           /\ disturbed \subseteq disturbed'
<1>1. UNCHANGED <<call, setup, conn_maps>> /\ disturbed \subseteq disturbed'
    BY DEF NatGather, NatNext, NatDelete, NatExpire, natVars
<1> QED
    BY <1>1 DEF InCalls

\* The connections of a client keep being set up one after the other.
LEMMA StepSetUp ==
    ASSUME NatTypes, SetUpInOrder, NatProbes \/ NatGather \/ UNCHANGED natVars
    PROVE  SetUpInOrder'
<1>0. /\ setup \in [NatConn -> 0 .. 2]
      /\ \A x \in InCalls : call[x].conn \in NatConn
      /\ NatConn \subseteq Int
    <2>1. MaxConns \in Nat
        BY NatAssumption
    <2> QED
        BY <2>1 DEF NatTypes, NatConn
<1>1. ASSUME NEW x \in Context, NEW t \in Task, NEW c \in NatConn, NatEnter(x, t, c)
      PROVE  SetUpInOrder'
    <2>1. /\ x \notin InCalls /\ InCalls' = InCalls \cup {x}
          /\ call'[x].pc = "entered" /\ call'[x].conn = c
          /\ \A y \in InCalls : call'[y].pc = call[y].pc /\ call'[y].conn = call[y].conn
          /\ setup' = setup
        BY <1>1, EnterEffect
    <2>2. /\ setup[c] < 2
          /\ \A y \in InCalls : SourceOf[call[y].conn] # SourceOf[c]
          /\ \A d \in NatConn : d < c /\ SourceOf[d] = SourceOf[c] => setup[d] = 2
        BY <1>0, <1>1 DEF NatEnter, MaySetUp, NatConn
    <2>3. \A d \in NatConn : d > c /\ SourceOf[d] = SourceOf[c] => setup[d] = 0
        BY <1>0, <2>2 DEF SetUpInOrder
    <2>4. \A y, z \in InCalls' : SourceOf[call'[y].conn] = SourceOf[call'[z].conn] => y = z
        BY <2>1, <2>2 DEF SetUpInOrder
    <2>5. ASSUME NEW y \in InCalls'
          PROVE  /\ call'[y].pc = "entered" => setup[call'[y].conn] < 2
                 /\ call'[y].pc # "entered" => setup[call'[y].conn] > 0
                 /\ \A d \in NatConn :
                        SourceOf[d] = SourceOf[call'[y].conn] =>
                            /\ d < call'[y].conn => setup[d] = 2
                            /\ d > call'[y].conn => setup[d] = 0
        BY <2>1, <2>2, <2>3 DEF SetUpInOrder
    <2> QED
        BY <2>1, <2>4, <2>5 DEF SetUpInOrder
<1>2. ASSUME NEW x \in Context, NatAlter(x) PROVE SetUpInOrder'
    <2> DEFINE c == call[x].conn
    <2>1. /\ x \in InCalls /\ InCalls' = InCalls
          /\ call[x].pc = "entered" /\ call'[x].pc = "altered" /\ call'[x].conn = c
          /\ \A y \in InCalls : y # x => call'[y] = call[y]
          /\ c \in NatConn
          /\ setup' = [setup EXCEPT ![c] = setup[c] + 1]
        BY <1>2, AlterEffect DEF InCalls
    <2> HIDE DEF c
    <2>2. /\ setup'[c] = setup[c] + 1 /\ setup[c] < 2 /\ setup[c] \in 0 .. 2
          /\ \A d \in NatConn : d # c => setup'[d] = setup[d]
        BY <1>0, <2>1 DEF SetUpInOrder, c
    <2>3. /\ \A d \in NatConn : SourceOf[d] = SourceOf[c] =>
                 /\ d < c => setup[d] = 2
                 /\ d > c => setup[d] = 0
          /\ \A y \in InCalls : y # x => SourceOf[call[y].conn] # SourceOf[c]
        BY <2>1 DEF SetUpInOrder, c
    <2>4. ASSUME NEW a \in NatConn, NEW d \in NatConn, SourceOf[a] = SourceOf[d], d < a,
                 setup'[a] > 0
          PROVE  setup'[d] = 2
        <3>1. CASE a = c
            BY <1>0, <2>2, <2>3, <2>4, <3>1
        <3>2. CASE a # c
            <4>1. setup[a] > 0 /\ setup[d] = 2
                BY <2>2, <2>4, <3>2 DEF SetUpInOrder
            <4>2. d # c
                BY <2>2, <4>1
            <4> QED
                BY <2>2, <4>1, <4>2
        <3> QED
            BY <3>1, <3>2
    <2>5. \A y, z \in InCalls' : SourceOf[call'[y].conn] = SourceOf[call'[z].conn] => y = z
        BY <2>1, <2>3 DEF SetUpInOrder
    <2>6. ASSUME NEW y \in InCalls'
          PROVE  /\ call'[y].pc = "entered" => setup'[call'[y].conn] < 2
                 /\ call'[y].pc # "entered" => setup'[call'[y].conn] > 0
                 /\ \A d \in NatConn :
                        SourceOf[d] = SourceOf[call'[y].conn] =>
                            /\ d < call'[y].conn => setup'[d] = 2
                            /\ d > call'[y].conn => setup'[d] = 0
        <3>1. CASE y = x
            BY <1>0, <2>1, <2>2, <2>3, <3>1
        <3>2. CASE y # x
            <4>1. y \in InCalls /\ call'[y] = call[y] /\ call[y].conn \in NatConn
                BY <1>0, <2>1, <3>2
            <4>2. SourceOf[call[y].conn] # SourceOf[c]
                BY <2>3, <3>2, <4>1
            <4>3. \A d \in NatConn : SourceOf[d] = SourceOf[call[y].conn] => setup'[d] = setup[d]
                BY <2>2, <4>2
            <4> QED
                BY <4>1, <4>3 DEF SetUpInOrder
        <3> QED
            BY <3>1, <3>2
    <2> QED
        BY <2>4, <2>5, <2>6 DEF SetUpInOrder
<1>3. ASSUME NEW x \in Context, setup' = setup, InCalls' \subseteq InCalls,
             \A y \in InCalls' : /\ call'[y].conn = call[y].conn
                                 /\ call'[y].pc = "entered" <=> call[y].pc = "entered"
      PROVE  SetUpInOrder'
    BY <1>3 DEF SetUpInOrder
<1>4. ASSUME NEW x \in Context, NatReturn(x) PROVE SetUpInOrder'
    <2>1. /\ x \in InCalls /\ InCalls' \subseteq InCalls /\ InCalls \subseteq Context
          /\ \A y \in InCalls : y # x => call'[y] = call[y]
          /\ x \in InCalls' => call'[x].pc = "deleted" /\ call'[x].conn = call[x].conn
          /\ call[x].pc = "altered" /\ setup' = setup
        BY <1>4, ReturnEffect DEF InCalls
    <2> QED
        BY <1>3, <2>1
<1>5. ASSUME NEW x \in Context, NatUnseen(x) \/ NatStore(x) PROVE SetUpInOrder'
    BY <1>3, <1>5, LeaveEffect
<1>6. CASE NatGather \/ UNCHANGED natVars
    BY <1>6, GatherKeepsCalls DEF SetUpInOrder
<1> QED
    BY <1>1, <1>2, <1>4, <1>5, <1>6 DEF NatProbes

\* A call of a client that is not disturbed goes on finding its connection.
LEMMA StepFindsOwn ==
    ASSUME NatTypes, FindsOwn, NatProbes \/ NatGather \/ UNCHANGED natVars
    PROVE  FindsOwn'
<1>0. conn_maps \in [Task -> NatConn \cup {None}] /\ InCalls \subseteq Context
      /\ \A x \in InCalls : call[x].task \in Task /\ call[x].conn \in NatConn
    BY DEF NatTypes, InCalls
<1>1. ASSUME NEW x \in Context, NEW t \in Task, NEW c \in NatConn, NatEnter(x, t, c)
      PROVE  FindsOwn'
    <2>1. /\ x \notin InCalls /\ InCalls' = InCalls \cup {x}
          /\ call'[x].pc = "entered" /\ call'[x].task = t /\ call'[x].conn = c
          /\ \A y \in InCalls :
                 /\ call'[y].pc = call[y].pc /\ call'[y].task = call[y].task
                 /\ call'[y].conn = call[y].conn
                 /\ \/ call'[y].args = call[y].args
                    \/ SourceOf[call[y].conn] \in disturbed'
                 /\ call[y].task = t =>
                        SourceOf[c] \in disturbed' /\ SourceOf[call[y].conn] \in disturbed'
          /\ ~Fits(conn_maps, t, ConnMax) => SourceOf[c] \in disturbed'
          /\ disturbed \subseteq disturbed'
          /\ \A u \in Task : u # t => conn_maps'[u] = conn_maps[u]
          /\ Fits(conn_maps, t, ConnMax) => conn_maps'[t] = c
        BY <1>1, EnterEffect
    <2>2. ASSUME NEW y \in InCalls', SourceOf[call'[y].conn] \notin disturbed'
          PROVE  /\ \A z \in InCalls' : z # y => call'[z].task # call'[y].task
                 /\ call'[y].pc # "deleted" => conn_maps'[call'[y].task] = call'[y].conn
                 /\ call'[y].pc = "deleted" => call'[y].args = call'[y].conn
        <3>1. CASE y = x
            BY <2>1, <2>2, <3>1
        <3>2. CASE y # x
            <4>1. y \in InCalls /\ SourceOf[call[y].conn] \notin disturbed /\ call[y].task # t
                BY <2>1, <2>2, <3>2
            <4> QED
                BY <1>0, <2>1, <2>2, <4>1 DEF FindsOwn
        <3> QED
            BY <3>1, <3>2
    <2> QED
        BY <2>2 DEF FindsOwn
<1>2. ASSUME NEW x \in Context, NatAlter(x) PROVE FindsOwn'
    <2>1. /\ x \in InCalls /\ InCalls' = InCalls
          /\ call[x].pc = "entered" /\ call'[x].pc = "altered"
          /\ call'[x].task = call[x].task /\ call'[x].conn = call[x].conn
          /\ \A y \in InCalls : y # x => call'[y] = call[y]
          /\ UNCHANGED <<conn_maps, disturbed>>
        BY <1>0, <1>2, AlterEffect
    <2>2. \A y \in InCalls : call'[y].task = call[y].task /\ call'[y].conn = call[y].conn
        BY <2>1
    <2>3. \A y \in InCalls : /\ call'[y].pc = "deleted" <=> call[y].pc = "deleted"
                             /\ call'[y].pc = "deleted" => call'[y].args = call[y].args
        BY <2>1
    <2> QED
        BY <2>1, <2>2, <2>3 DEF FindsOwn
<1>3. ASSUME NEW x \in Context, NatReturn(x) PROVE FindsOwn'
    <2>1. /\ x \in InCalls /\ call[x].pc = "altered" /\ InCalls' \subseteq InCalls
          /\ call[x].task \in Task
          /\ \A y \in InCalls : y # x => call'[y] = call[y]
          /\ x \in InCalls' => /\ call'[x].pc = "deleted" /\ call'[x].task = call[x].task
                               /\ call'[x].conn = call[x].conn
                               /\ call'[x].args = conn_maps[call[x].task]
          /\ conn_maps' = [conn_maps EXCEPT ![call[x].task] = None]
          /\ disturbed' = disturbed
        BY <1>0, <1>3, ReturnEffect
    <2>2. ASSUME NEW y \in InCalls', SourceOf[call'[y].conn] \notin disturbed'
          PROVE  /\ \A z \in InCalls' : z # y => call'[z].task # call'[y].task
                 /\ call'[y].pc # "deleted" => conn_maps'[call'[y].task] = call'[y].conn
                 /\ call'[y].pc = "deleted" => call'[y].args = call'[y].conn
        <3>1. \A z \in InCalls' : call'[z].task = call[z].task /\ call'[z].conn = call[z].conn
            BY <2>1
        <3>2. /\ y \in InCalls /\ SourceOf[call[y].conn] \notin disturbed
              /\ \A z \in InCalls : z # y => call[z].task # call[y].task
            BY <2>1, <2>2, <3>1 DEF FindsOwn
        <3>3. CASE y = x
            BY <2>1, <2>2, <3>1, <3>2, <3>3 DEF FindsOwn
        <3>4. CASE y # x
            <4>1. call[x].task # call[y].task /\ call'[y] = call[y]
                BY <2>1, <3>2, <3>4
            <4>2. conn_maps'[call[y].task] = conn_maps[call[y].task]
                BY <1>0, <2>1, <3>2, <4>1
            <4> QED
                BY <2>1, <3>1, <3>2, <4>1, <4>2 DEF FindsOwn
        <3> QED
            BY <3>3, <3>4
    <2> QED
        BY <2>2 DEF FindsOwn
<1>4. ASSUME NEW x \in Context, NatUnseen(x) \/ NatStore(x) PROVE FindsOwn'
    <2>1. /\ InCalls' \subseteq InCalls /\ \A y \in InCalls' : call'[y] = call[y]
          /\ conn_maps' = conn_maps
        BY <1>4, LeaveEffect
    <2>2. disturbed \subseteq disturbed'
        BY <1>4, StoreEffect DEF NatUnseen
    <2> QED
        BY <2>1, <2>2 DEF FindsOwn
<1>5. CASE NatGather \/ UNCHANGED natVars
    BY <1>5, GatherKeepsCalls DEF FindsOwn
<1> QED
    BY <1>1, <1>2, <1>3, <1>4, <1>5 DEF NatProbes

\* The connection of such a client is found by its own call only.
LEMMA StepFoundByOwner ==
    ASSUME NatTypes, FindsOwn, FoundByOwner, NatProbes \/ NatGather \/ UNCHANGED natVars
    PROVE  FoundByOwner'
<1>0. conn_maps \in [Task -> NatConn \cup {None}] /\ InCalls \subseteq Context
      /\ \A x \in InCalls : call[x].task \in Task /\ call[x].conn \in NatConn
    BY DEF NatTypes, InCalls
<1> DEFINE Owned(u) == \E y \in InCalls :
                call[y].pc # "deleted" /\ call[y].task = u /\ call[y].conn = conn_maps[u]
<1>a. \A u \in Task : conn_maps[u] # None /\ SourceOf[conn_maps[u]] \notin disturbed => Owned(u)
    BY DEF FoundByOwner
<1>b. \A y \in InCalls :
          call[y].pc = "deleted" /\ SourceOf[call[y].args] \notin disturbed =>
              call[y].conn = call[y].args
    BY DEF FoundByOwner
<1>1. ASSUME NEW x \in Context, NEW t \in Task, NEW c \in NatConn, NatEnter(x, t, c)
      PROVE  FoundByOwner'
    <2>1. /\ x \notin InCalls /\ InCalls' = InCalls \cup {x}
          /\ call'[x].pc = "entered" /\ call'[x].task = t /\ call'[x].conn = c
          /\ \A y \in InCalls :
                 /\ call'[y].pc = call[y].pc /\ call'[y].task = call[y].task
                 /\ call'[y].conn = call[y].conn
                 /\ \/ call'[y].args = call[y].args
                    \/ call'[y].args = c /\ SourceOf[c] \in disturbed'
          /\ disturbed \subseteq disturbed'
          /\ \A u \in Task : u # t => conn_maps'[u] = conn_maps[u]
          /\ Fits(conn_maps, t, ConnMax) => conn_maps'[t] = c
          /\ ~Fits(conn_maps, t, ConnMax) => conn_maps' = conn_maps
        BY <1>1, EnterEffect
    <2>2. ASSUME NEW u \in Task, conn_maps'[u] # None, SourceOf[conn_maps'[u]] \notin disturbed'
          PROVE  \E y \in InCalls' :
                    call'[y].pc # "deleted" /\ call'[y].task = u /\ call'[y].conn = conn_maps'[u]
        <3>1. CASE u = t /\ Fits(conn_maps, t, ConnMax)
            BY <2>1, <3>1
        <3>2. CASE ~(u = t /\ Fits(conn_maps, t, ConnMax))
            <4>1. conn_maps'[u] = conn_maps[u]
                BY <2>1, <3>2
            <4>2. Owned(u)
                BY <1>a, <2>1, <2>2, <4>1
            <4> QED
                BY <2>1, <4>1, <4>2
        <3> QED
            BY <3>1, <3>2
    <2>3. \A y \in InCalls' :
              call'[y].pc = "deleted" /\ SourceOf[call'[y].args] \notin disturbed' =>
                  call'[y].conn = call'[y].args
        BY <1>b, <2>1
    <2> QED
        BY <2>2, <2>3 DEF FoundByOwner
<1>2. ASSUME NEW x \in Context, NatAlter(x) PROVE FoundByOwner'
    <2>1. /\ x \in InCalls /\ InCalls' = InCalls
          /\ call[x].pc = "entered" /\ call'[x].pc = "altered"
          /\ call'[x].task = call[x].task /\ call'[x].conn = call[x].conn
          /\ \A y \in InCalls : y # x => call'[y] = call[y]
          /\ UNCHANGED <<conn_maps, disturbed>>
        BY <1>0, <1>2, AlterEffect
    <2>2. \A y \in InCalls : /\ call'[y].pc = "deleted" <=> call[y].pc = "deleted"
                             /\ call'[y].pc = "deleted" => call'[y].args = call[y].args
                             /\ call'[y].task = call[y].task /\ call'[y].conn = call[y].conn
        BY <2>1
    <2>3. \A u \in Task : Owned(u) => \E y \in InCalls' :
              call'[y].pc # "deleted" /\ call'[y].task = u /\ call'[y].conn = conn_maps'[u]
        BY <2>1, <2>2
    <2>4. \A y \in InCalls' :
              call'[y].pc = "deleted" /\ SourceOf[call'[y].args] \notin disturbed' =>
                  call'[y].conn = call'[y].args
        BY <1>b, <2>1, <2>2
    <2> HIDE DEF Owned
    <2> QED
        BY <1>a, <2>1, <2>3, <2>4 DEF FoundByOwner
<1>3. ASSUME NEW x \in Context, NatReturn(x) PROVE FoundByOwner'
    <2>1. /\ x \in InCalls /\ call[x].pc = "altered" /\ InCalls \ {x} \subseteq InCalls'
          /\ InCalls' \subseteq InCalls
          /\ call[x].task \in Task
          /\ \A y \in InCalls : y # x => call'[y] = call[y]
          /\ x \in InCalls' => /\ call'[x].pc = "deleted" /\ call'[x].task = call[x].task
                               /\ call'[x].conn = call[x].conn
                               /\ call'[x].args = conn_maps[call[x].task]
                               /\ conn_maps[call[x].task] # None
          /\ conn_maps' = [conn_maps EXCEPT ![call[x].task] = None]
          /\ disturbed' = disturbed
        BY <1>0, <1>3, ReturnEffect
    <2>2. ASSUME NEW u \in Task, conn_maps'[u] # None, SourceOf[conn_maps'[u]] \notin disturbed'
          PROVE  \E y \in InCalls' :
                    call'[y].pc # "deleted" /\ call'[y].task = u /\ call'[y].conn = conn_maps'[u]
        <3>1. u # call[x].task /\ conn_maps'[u] = conn_maps[u]
            BY <1>0, <2>1, <2>2
        <3>2. PICK y \in InCalls :
                  call[y].pc # "deleted" /\ call[y].task = u /\ call[y].conn = conn_maps[u]
            BY <1>a, <2>1, <2>2, <3>1
        <3>3. y \in InCalls' /\ call'[y] = call[y]
            BY <2>1, <3>1, <3>2
        <3> QED
            BY <3>1, <3>2, <3>3
    <2>3. ASSUME NEW y \in InCalls', call'[y].pc = "deleted",
                 SourceOf[call'[y].args] \notin disturbed'
          PROVE  call'[y].conn = call'[y].args
        <3>1. CASE y = x
            <4>1. PICK z \in InCalls : /\ call[z].pc # "deleted" /\ call[z].task = call[x].task
                                       /\ call[z].conn = conn_maps[call[x].task]
                BY <1>a, <2>1, <2>3, <3>1
            <4>2. z = x
                BY <2>1, <2>3, <3>1, <4>1 DEF FindsOwn
            <4> QED
                BY <2>1, <3>1, <4>1, <4>2
        <3>2. CASE y # x
            <4>1. call'[y] = call[y] /\ y \in InCalls
                BY <2>1, <3>2
            <4> QED
                BY <1>b, <2>1, <2>3, <4>1
        <3> QED
            BY <3>1, <3>2
    <2> QED
        BY <2>2, <2>3 DEF FoundByOwner
<1>4. ASSUME NEW x \in Context, NatUnseen(x) \/ NatStore(x) PROVE FoundByOwner'
    <2>1. /\ InCalls' = InCalls \ {x} /\ \A y \in InCalls' : call'[y] = call[y]
          /\ conn_maps' = conn_maps
        BY <1>4, LeaveEffect
    <2>2. disturbed \subseteq disturbed'
        BY <1>4, StoreEffect DEF NatUnseen
    <2>3. call[x].pc = "deleted" \/ SourceOf[call[x].conn] \in disturbed'
        BY <1>4 DEF NatUnseen, NatStore
    <2>4. ASSUME NEW u \in Task, conn_maps'[u] # None, SourceOf[conn_maps'[u]] \notin disturbed'
          PROVE  \E y \in InCalls' :
                    call'[y].pc # "deleted" /\ call'[y].task = u /\ call'[y].conn = conn_maps'[u]
        <3>1. PICK y \in InCalls :
                  call[y].pc # "deleted" /\ call[y].task = u /\ call[y].conn = conn_maps[u]
            BY <1>a, <2>1, <2>2, <2>4
        <3>2. y # x
            BY <2>1, <2>3, <2>4, <3>1
        <3> QED
            BY <2>1, <3>1, <3>2
    <2>5. \A y \in InCalls' :
              call'[y].pc = "deleted" /\ SourceOf[call'[y].args] \notin disturbed' =>
                  call'[y].conn = call'[y].args
        BY <1>b, <2>1, <2>2
    <2> QED
        BY <2>4, <2>5 DEF FoundByOwner
<1>5. CASE NatGather \/ UNCHANGED natVars
    BY <1>5, GatherKeepsCalls DEF FoundByOwner
<1> QED
    BY <1>1, <1>2, <1>3, <1>4, <1>5 DEF NatProbes

\* What Gather has read stays in nf_conn_maps until it deletes it, or its client
\* is disturbed.
LEMMA StepReaderHas ==
    ASSUME NatTypes, ReaderHas, NatProbes \/ NatGather \/ UNCHANGED natVars
    PROVE  ReaderHas'
<1>1. ASSUME UNCHANGED <<natReader, nf_conn_maps>>, disturbed \subseteq disturbed'
      PROVE  ReaderHas'
    BY <1>1 DEF ReaderHas
<1>2. ASSUME NEW x \in Context, NEW t \in Task, NEW c \in NatConn, NatEnter(x, t, c)
      PROVE  ReaderHas'
    BY <1>1, <1>2, EnterEffect
<1>3. ASSUME NEW x \in Context, NatAlter(x) \/ NatUnseen(x) \/ NatReturn(x) PROVE ReaderHas'
    BY <1>1, <1>3 DEF NatAlter, NatUnseen, NatReturn
<1>4. ASSUME NEW x \in Context, NatStore(x) PROVE ReaderHas'
    <2>1. natReader' = natReader
        BY <1>4 DEF NatStore
    <2>2. natReader # None => natReader.key \in 0 .. MaxTime
        BY DEF NatTypes
    <2>3. /\ disturbed \subseteq disturbed'
          /\ \/ nf_conn_maps' = nf_conn_maps
             \/ \E k \in 0 .. MaxTime :
                    /\ \A i \in 0 .. MaxTime : i # k => nf_conn_maps'[i] = nf_conn_maps[i]
                    /\ nf_conn_maps[k] # None => SourceOf[nf_conn_maps[k].conn] \in disturbed'
        BY <1>4, StoreEffect
    <2>4. natReader # None => natReader.ev # None
        BY NoneIsNoEvent DEF NatTypes
    <2> QED
        BY <2>1, <2>2, <2>3, <2>4 DEF ReaderHas
<1>5. CASE NatNext
    <2>1. PICK k \in Used(nf_conn_maps) : natReader' = [key |-> k, ev |-> nf_conn_maps[k]]
        BY <1>5 DEF NatNext
    <2>2. nf_conn_maps' = nf_conn_maps
        BY <1>5 DEF NatNext
    <2> QED
        BY <2>1, <2>2 DEF ReaderHas
<1>6. CASE NatDelete
    BY <1>6 DEF NatDelete, ReaderHas
<1>7. ASSUME NEW s \in Source, NatExpire(s) PROVE ReaderHas'
    BY <1>1, <1>7 DEF NatExpire
<1>8. CASE UNCHANGED natVars
    BY <1>1, <1>8 DEF natVars
<1> QED
    BY <1>2, <1>3, <1>4, <1>5, <1>6, <1>7, <1>8 DEF NatProbes, NatGather

\* A step that leaves the events alone keeps them latest, if it neither ends a
\* call that owed an event nor adds to the connections seen while all is calm.
LEMMA KeepsLatest ==
    ASSUME EventsAreLatest, UNCHANGED <<nf_conn_maps, natCache>>, disturbed \subseteq disturbed',
           \A s \in Source : s \notin disturbed' /\ Calm(s)' => Calm(s) /\ Seen(s)' = Seen(s)
    PROVE  EventsAreLatest'
<1> SUFFICES ASSUME NEW s \in Source \ disturbed'
             PROVE  /\ \A k \in 0 .. MaxTime : Waits(k, s)' =>
                           /\ nf_conn_maps'[k].altered
                           /\ Calm(s)' => nf_conn_maps'[k].conn = Last(Seen(s)')
                    /\ natCache'[s] # None /\ Calm(s)' /\ (\A k \in 0 .. MaxTime : ~Waits(k, s)') =>
                           natCache'[s] = [conn |-> Last(Seen(s)'), altered |-> TRUE]
    BY DEF EventsAreLatest, Last
<1>1. s \in Source \ disturbed
    OBVIOUS
<1>2. \A k : Waits(k, s)' <=> Waits(k, s)
    BY DEF Waits
<1>3. CASE Calm(s)'
    BY <1>1, <1>2, <1>3 DEF EventsAreLatest
<1>4. CASE ~Calm(s)'
    BY <1>1, <1>2, <1>4 DEF EventsAreLatest
<1> QED
    BY <1>3, <1>4

\* An event that was read after the alteration.
LEMMA EventIs ==
    ASSUME NEW ev \in NatEvents, ev.altered
    PROVE  ev = [conn |-> ev.conn, altered |-> TRUE]
BY DEF NatEvents

\* Events that wait, and natCache when none does, stay those of the latest
\* connection of their client.
LEMMA StepLatest ==
    ASSUME NatInv, NatProbes \/ NatGather \/ UNCHANGED natVars
    PROVE  EventsAreLatest'
<1>0. /\ NatTypes /\ SetUpInOrder /\ FindsOwn /\ FoundByOwner /\ ReaderHas /\ EventsAreLatest
      /\ InCalls \subseteq Context
    BY DEF NatInv, InCalls
<1>a. \A s \in Source : setup' = setup => Seen(s)' = Seen(s)
    BY DEF Seen
<1>b. \A x \in InCalls : call[x].conn \in NatConn /\ SourceOf[call[x].conn] \in Source
    BY <1>0, SourceType DEF NatTypes
<1>1. ASSUME NEW x \in Context, NEW t \in Task, NEW c \in NatConn, NatEnter(x, t, c)
      PROVE  EventsAreLatest'
    <2>1. /\ InCalls' = InCalls \cup {x}
          /\ \A y \in InCalls : call'[y].conn = call[y].conn
          /\ disturbed \subseteq disturbed'
          /\ UNCHANGED <<setup, nf_conn_maps, natCache>>
        BY <1>0, <1>1, EnterEffect
    <2>2. \A s \in Source : Calm(s)' => Calm(s)
        BY <2>1 DEF Calm
    <2> QED
        BY <1>0, <1>a, <2>1, <2>2, KeepsLatest
<1>2. ASSUME NEW x \in Context, NatAlter(x) PROVE EventsAreLatest'
    <2> DEFINE c == call[x].conn
    <2>1. /\ x \in InCalls /\ InCalls' = InCalls
          /\ \A y \in InCalls : call'[y].conn = call[y].conn
          /\ c \in NatConn
          /\ setup' = [setup EXCEPT ![c] = setup[c] + 1]
          /\ UNCHANGED <<nf_conn_maps, natCache, disturbed>>
        <3>1. /\ x \in InCalls /\ InCalls' = InCalls
              /\ call'[x].conn = c
              /\ \A y \in Context : y # x => call'[y] = call[y]
              /\ c \in NatConn
              /\ setup' = [setup EXCEPT ![c] = setup[c] + 1]
              /\ UNCHANGED <<nf_conn_maps, natCache, disturbed>>
            BY <1>0, <1>2, AlterEffect
        <3> QED
            BY <1>0, <3>1
    <2>2. \A s \in Source : Calm(s)' => Calm(s)
        BY <2>1 DEF Calm
    <2>3. ASSUME NEW s \in Source, Calm(s)' PROVE Seen(s)' = Seen(s)
        <3>1. SourceOf[c] = s => IsDns(c)
            BY <2>1, <2>2, <2>3 DEF Calm
        <3>2. \A d \in NatConn : d # c => setup'[d] = setup[d]
            BY <1>0, <2>1 DEF NatTypes
        <3> QED
            BY <3>1, <3>2 DEF Seen
    <2> QED
        BY <1>0, <2>1, <2>2, <2>3, KeepsLatest
<1>3. ASSUME NEW x \in Context, NatReturn(x) PROVE EventsAreLatest'
    <2>1. /\ x \in InCalls /\ call[x].pc = "altered" /\ call[x].task \in Task
          /\ \A y \in InCalls : y # x => y \in InCalls' /\ call'[y] = call[y]
          /\ conn_maps[call[x].task] # None => x \in InCalls' /\ call'[x].conn = call[x].conn
          /\ UNCHANGED <<setup, nf_conn_maps, natCache, disturbed>>
        BY <1>0, <1>3, ReturnEffect
    <2>2. SourceOf[call[x].conn] \notin disturbed => conn_maps[call[x].task] # None
        <3>1. None \notin NatConn
            BY NoneIsNoEvent
        <3> QED
            BY <1>0, <1>b, <2>1, <3>1 DEF FindsOwn
    <2>3. \A s \in Source : s \notin disturbed' /\ Calm(s)' => Calm(s)
        BY <2>1, <2>2 DEF Calm
    <2> QED
        BY <1>0, <1>a, <2>1, <2>3, KeepsLatest
<1>4. ASSUME NEW x \in Context, NatUnseen(x) PROVE EventsAreLatest'
    <2>1. /\ InCalls' = InCalls \ {x} /\ \A y \in InCalls' : call'[y] = call[y]
          /\ UNCHANGED <<setup, natCache>>
        BY <1>0, <1>4, LeaveEffect
    <2>2. /\ SourceOf[call[x].conn] \in disturbed' /\ disturbed \subseteq disturbed'
          /\ nf_conn_maps' = nf_conn_maps
        BY <1>4 DEF NatUnseen
    <2>3. \A s \in Source : s \notin disturbed' /\ Calm(s)' => Calm(s)
        BY <2>1, <2>2 DEF Calm
    <2> QED
        BY <1>0, <1>a, <2>1, <2>2, <2>3, KeepsLatest
<1>5. ASSUME NEW x \in Context, NatStore(x) PROVE EventsAreLatest'
    <2> DEFINE c == call[x].args
    <2>1. /\ x \in InCalls /\ InCalls' = InCalls \ {x}
          /\ \A y \in InCalls' : call'[y] = call[y]
          /\ UNCHANGED <<setup, natCache>>
        BY <1>0, <1>5, LeaveEffect
    <2>2. /\ call[x].pc = "deleted" /\ c \in NatConn /\ disturbed \subseteq disturbed'
        BY <1>0, <1>5, StoreEffect
    <2>3. /\ SourceOf[call[x].conn] \notin disturbed => c = call[x].conn
          /\ SourceOf[c] \notin disturbed => c = call[x].conn
        BY <1>0, <2>1, <2>2 DEF FindsOwn, FoundByOwner
    <2>4. CASE IsDns(c)
        <3>1. UNCHANGED <<nf_conn_maps, disturbed>>
            BY <1>0, <1>5, <2>4, StoreEffect
        <3>2. \A s \in Source : s \notin disturbed' /\ Calm(s)' => Calm(s)
            BY <2>1, <2>3, <2>4, <3>1 DEF Calm
        <3> QED
            BY <1>0, <1>a, <2>1, <3>1, <3>2, KeepsLatest
    <2>5. CASE ~IsDns(c)
        <3>1. PICK k \in 0 .. MaxTime :
                 /\ \A i \in 0 .. MaxTime : i # k => nf_conn_maps'[i] = nf_conn_maps[i]
                 /\ \/ nf_conn_maps'[k] = NatEvent(c)
                    \/ nf_conn_maps' = nf_conn_maps /\ SourceOf[c] \in disturbed'
                 /\ nf_conn_maps[k] # None => SourceOf[nf_conn_maps[k].conn] \in disturbed'
                 /\ \A i \in 0 .. MaxTime :
                        /\ i # k /\ nf_conn_maps[i] # None
                        /\ SourceOf[nf_conn_maps[i].conn] = SourceOf[c]
                        /\ nf_conn_maps[i].conn # c
                        => SourceOf[c] \in disturbed'
            BY <1>0, <1>5, <2>5, StoreEffect
        <3>2. NatEvent(c).conn = c /\ NatEvent(c).altered = (setup[c] > 0) /\ NatEvent(c) # None
            <4>1. NatEvent(c) \in NatEvents
                BY <2>2 DEF NatEvent, NatEvents
            <4> QED
                BY <4>1, NoneIsNoEvent DEF NatEvent
        <3> HIDE DEF c
        <3> SUFFICES ASSUME NEW s \in Source \ disturbed'
                     PROVE  /\ \A i \in 0 .. MaxTime : Waits(i, s)' =>
                                   /\ nf_conn_maps'[i].altered
                                   /\ Calm(s)' => nf_conn_maps'[i].conn = Last(Seen(s)')
                            /\ natCache'[s] # None /\ Calm(s)' /\ (\A i \in 0 .. MaxTime : ~Waits(i, s)') =>
                                   natCache'[s] = [conn |-> Last(Seen(s)'), altered |-> TRUE]
            BY DEF EventsAreLatest, Last
        <3>3. s \in Source \ disturbed /\ Seen(s)' = Seen(s)
            BY <1>a, <2>1, <2>2
        <3>4. CASE SourceOf[c] = s
            <4>1. c = call[x].conn /\ nf_conn_maps'[k] = NatEvent(c)
                BY <2>3, <3>1, <3>3, <3>4
            <4>2. /\ setup[c] > 0
                  /\ \A d \in NatConn : SourceOf[d] = s /\ d > c => setup[d] = 0
                BY <1>0, <2>1, <2>2, <3>4, <4>1 DEF SetUpInOrder
            <4>3. Last(Seen(s)) = c
                <5>1. c \in Seen(s) /\ Seen(s) \subseteq NatConn
                    BY <2>2, <2>5, <3>4, <4>2 DEF Seen
                <5>2. NatConn \subseteq Int
                    <6>1. MaxConns \in Nat
                        BY NatAssumption
                    <6> QED
                        BY <6>1 DEF NatConn
                <5>3. \A d \in Seen(s) : d <= c
                    BY <2>2, <4>2, <5>2 DEF Seen
                <5> QED
                    BY <5>1, <5>3, LastIs
            <4>4. Waits(k, s)'
                BY <3>2, <3>4, <4>1 DEF Waits
            <4>5. ASSUME NEW i \in 0 .. MaxTime, Waits(i, s)'
                  PROVE  nf_conn_maps'[i].altered /\ nf_conn_maps'[i].conn = c
                <5>1. CASE i = k
                    BY <3>2, <4>1, <4>2, <5>1
                <5>2. CASE i # k
                    <6>1. nf_conn_maps'[i] = nf_conn_maps[i] /\ Waits(i, s)
                        BY <3>1, <4>5, <5>2 DEF Waits
                    <6>2. nf_conn_maps[i].altered
                        BY <1>0, <3>3, <6>1 DEF EventsAreLatest
                    <6>3. nf_conn_maps[i].conn = c
                        BY <3>1, <3>4, <5>2, <6>1 DEF Waits
                    <6> QED
                        BY <6>1, <6>2, <6>3
                <5> QED
                    BY <5>1, <5>2
            <4> QED
                BY <3>3, <4>3, <4>4, <4>5
        <3>5. CASE SourceOf[c] # s
            <4>1. SourceOf[call[x].conn] # s
                BY <2>3, <3>3, <3>5
            <4>2. Calm(s)' => Calm(s)
                BY <2>1, <4>1 DEF Calm
            <4>3. \A i \in 0 .. MaxTime :
                      /\ Waits(i, s)' <=> Waits(i, s)
                      /\ Waits(i, s) => nf_conn_maps'[i] = nf_conn_maps[i]
                <5>1. ~Waits(k, s)
                    BY <3>1 DEF Waits
                <5>2. ~Waits(k, s)'
                    BY <3>1, <3>2, <3>5, <5>1 DEF Waits
                <5> QED
                    BY <3>1, <5>1, <5>2 DEF Waits
            <4> QED
                BY <1>0, <2>1, <3>3, <4>2, <4>3 DEF EventsAreLatest
        <3> QED
            BY <3>4, <3>5
    <2> QED
        BY <2>4, <2>5
<1>6. CASE NatNext
    <2>1. UNCHANGED <<call, setup, nf_conn_maps, natCache, disturbed>>
        BY <1>6 DEF NatNext
    <2>2. \A s \in Source : Calm(s)' => Calm(s)
        BY <2>1 DEF Calm, InCalls
    <2> QED
        BY <1>0, <1>a, <2>1, <2>2, KeepsLatest
<1>7. CASE NatDelete
    <2> DEFINE k == natReader.key
               ev == natReader.ev
    <2>1. /\ k \in 0 .. MaxTime /\ ev \in NatEvents
          /\ nf_conn_maps' = [nf_conn_maps EXCEPT ![k] = None]
          /\ natCache' = [natCache EXCEPT ![SourceOf[ev.conn]] = ev]
          /\ nf_conn_maps[k] # None /\ nf_conn_maps[k] # ev =>
                 SourceOf[nf_conn_maps[k].conn] \in disturbed'
          /\ disturbed \subseteq disturbed'
          /\ UNCHANGED <<call, setup>>
        BY <1>0, <1>7, DeleteEffect
    <2>2. natReader # None /\ ev # None
        BY <1>7, <2>1, NoneIsNoEvent DEF NatDelete
    <2>3. SourceOf[ev.conn] \notin disturbed => nf_conn_maps[k] = ev
        BY <1>0, <2>2 DEF ReaderHas
    <2> HIDE DEF k, ev
    <2>4. /\ nf_conn_maps'[k] = None
          /\ \A i \in 0 .. MaxTime : i # k => nf_conn_maps'[i] = nf_conn_maps[i]
          /\ \A s \in Source : natCache'[s] = IF s = SourceOf[ev.conn] THEN ev ELSE natCache[s]
        BY <1>0, <2>1 DEF NatTypes
    <2> SUFFICES ASSUME NEW s \in Source \ disturbed'
                 PROVE  /\ \A i \in 0 .. MaxTime : Waits(i, s)' =>
                               /\ nf_conn_maps'[i].altered
                               /\ Calm(s)' => nf_conn_maps'[i].conn = Last(Seen(s)')
                        /\ natCache'[s] # None /\ Calm(s)' /\ (\A i \in 0 .. MaxTime : ~Waits(i, s)') =>
                               natCache'[s] = [conn |-> Last(Seen(s)'), altered |-> TRUE]
        BY DEF EventsAreLatest, Last
    <2>5. s \in Source \ disturbed /\ Seen(s)' = Seen(s) /\ (Calm(s)' <=> Calm(s))
        BY <1>a, <2>1 DEF Calm, InCalls
    <2>6. ASSUME NEW i \in 0 .. MaxTime, Waits(i, s)'
          PROVE  nf_conn_maps'[i] = nf_conn_maps[i] /\ Waits(i, s)
        BY <2>4, <2>6 DEF Waits
    <2>7. ASSUME NEW i \in 0 .. MaxTime, Waits(i, s)'
          PROVE  /\ nf_conn_maps'[i].altered
                 /\ Calm(s)' => nf_conn_maps'[i].conn = Last(Seen(s)')
        <3>1. nf_conn_maps'[i] = nf_conn_maps[i] /\ Waits(i, s)
            BY <2>6, <2>7
        <3>2. /\ nf_conn_maps[i].altered
              /\ Calm(s) => nf_conn_maps[i].conn = Last(Seen(s))
            BY <1>0, <2>5, <3>1 DEF EventsAreLatest
        <3> QED
            BY <2>5, <3>1, <3>2
    <2>8. CASE SourceOf[ev.conn] = s
        <3>1. nf_conn_maps[k] = ev /\ Waits(k, s)
            BY <2>2, <2>3, <2>5, <2>8 DEF Waits
        <3>2. ev.altered /\ (Calm(s) => ev.conn = Last(Seen(s)))
            BY <1>0, <2>1, <2>5, <3>1 DEF EventsAreLatest
        <3>3. ev = [conn |-> ev.conn, altered |-> TRUE]
            BY <2>1, <3>2, EventIs
        <3>4. natCache'[s] = ev
            BY <2>4, <2>8
        <3> QED
            BY <2>5, <2>7, <3>2, <3>3, <3>4
    <2>9. CASE SourceOf[ev.conn] # s
        <3>1. ~Waits(k, s)
            BY <2>1, <2>9 DEF Waits
        <3>2. \A i \in 0 .. MaxTime : Waits(i, s) => Waits(i, s)'
            BY <2>4, <3>1 DEF Waits
        <3>3. natCache'[s] = natCache[s]
            BY <2>4, <2>9
        <3> QED
            BY <1>0, <2>5, <2>7, <3>2, <3>3 DEF EventsAreLatest
    <2> QED
        BY <2>8, <2>9
<1>8. ASSUME NEW z \in Source, NatExpire(z) PROVE EventsAreLatest'
    <2>1. /\ UNCHANGED <<call, setup, nf_conn_maps, disturbed>>
          /\ natCache' = [natCache EXCEPT ![z] = None]
        BY <1>8 DEF NatExpire
    <2> SUFFICES ASSUME NEW s \in Source \ disturbed
                 PROVE  /\ \A i \in 0 .. MaxTime : Waits(i, s) =>
                               /\ nf_conn_maps[i].altered
                               /\ Calm(s) => nf_conn_maps[i].conn = Last(Seen(s))
                        /\ natCache'[s] # None /\ Calm(s) /\ (\A i \in 0 .. MaxTime : ~Waits(i, s)) =>
                               natCache'[s] = [conn |-> Last(Seen(s)), altered |-> TRUE]
        BY <2>1 DEF EventsAreLatest, Last, Waits, Calm, Seen, InCalls
    <2>2. natCache'[s] = None \/ natCache'[s] = natCache[s]
        BY <1>0, <2>1 DEF NatTypes
    <2> QED
        BY <1>0, <2>2 DEF EventsAreLatest
<1>9. CASE UNCHANGED natVars
    <2>1. UNCHANGED <<call, setup, nf_conn_maps, natCache, disturbed>>
        BY <1>9 DEF natVars
    <2>2. \A s \in Source : Calm(s)' => Calm(s)
        BY <2>1 DEF Calm, InCalls
    <2> QED
        BY <1>0, <1>a, <2>1, <2>2, KeepsLatest
<1> QED
    BY <1>1, <1>2, <1>3, <1>4, <1>5, <1>6, <1>7, <1>8, <1>9 DEF NatProbes, NatGather

\* The translation GetNatInfo gives for a client is that of its latest
\* connection, read after the kernel had made it, unless one of the events that
\* disturbed records has happened to the client.
THEOREM NatAnswersLatest == NatSpec => []NatIsLatest
<1>1. NatInv /\ [NatProbes \/ NatGather]_natVars => NatInv'
    BY NatStepTypes, StepSetUp, StepFindsOwn, StepFoundByOwner, StepReaderHas, StepLatest
    DEF NatInv
<1>2. NatInv => NatIsLatest
    <2> SUFFICES ASSUME NatInv, NEW s \in Source, natCache[s] # None, s \notin disturbed, ~OnTheWay(s)
                 PROVE  natCache[s] = [conn |-> Last(Seen(s)), altered |-> TRUE]
        BY DEF NatIsLatest, Latest, Last, Seen
    <2>1. Calm(s)
        BY DEF OnTheWay, Calm
    <2>2. \A k \in 0 .. MaxTime : ~Waits(k, s)
        BY DEF OnTheWay, Waits, Used, NatInv, NatTypes
    <2> QED
        BY <2>1, <2>2 DEF NatInv, EventsAreLatest
<1> QED
    BY <1>1, <1>2, NatInitInv, PTL DEF NatSpec

-----------------------------------------------------------------------------
(***************************************************************************)
(* The pod and service caches: what is gone is not found for long.         *)
(***************************************************************************)

PodSpec ==
    /\ \E lists \in SUBSET {"pods", "services"} : PodInit(lists)
    /\ [][PodsNext \/ ServicesNext \/ RefreshLoop]_podVars

-----------------------------------------------------------------------------
(* The inductive invariant.                                                *)

Informer == {"pod informer", "service informer"}

PodKey == Pod \cup PodIP \cup {NoIP}

PodSet == [op : {"set"}, key : PodKey, val : Pod, ttl : {PodTtl}]
SvcSet == [op : {"set"}, key : ClusterIP, val : Svc, ttl : {SvcTtl}]
Call == PodSet \cup SvcSet \cup [op : {"del"}, key : CacheKey]

PodObject == [pod : Pod, ip : PodIP \cup {NoIP}, evicted : BOOLEAN]
SvcObject == [svc : Svc, old : ClusterIP \cup {NoIP}, new : ClusterIP \cup {NoIP}]

Watched ==
    [kind : {"add", "delete", "tombstone"}, obj : PodObject, at : 0 .. MaxNow]
    \cup [kind : {"update"}, obj : SvcObject, at : 0 .. MaxNow]

Phase == {"absent", "pending", "running", "completed", "evicted", "gone"}

CacheTypes ==
    /\ pods \in [Pod -> [phase : Phase, ip : PodIP \cup {NoIP}, gone : 0 .. Never]]
    /\ svcs \in [Svc -> [ip : ClusterIP \cup {NoIP}, left : [ClusterIP -> 0 .. Never]]]
    /\ events \in [Informer -> Seq(Watched)]
    /\ todo \in [Worker -> Seq(Call)]
    /\ list \in SUBSET Seq(Call)
    /\ now \in 0 .. MaxNow
    /\ since \in 0 .. now
    /\ cache \in [CacheKey -> [val : Pod \cup Svc \cup {NoIP}, until : Int]]
    /\ \A k \in CacheKey : cache[k].until # -1 =>
           cache[k].val \in IF k \in ClusterIP THEN Svc ELSE Pod

\* A pod that was not deleted, and the cluster IP that a service has, have no end.
NoEndYet ==
    /\ \A p \in Pod : pods[p].phase # "gone" => pods[p].gone = Never
    /\ \A s \in Svc : svcs[s].ip # NoIP => svcs[s].left[svcs[s].ip] = Never

\* Nobody is later than MaxDelay, and events come in the order of their times.
Punctual ==
    /\ ~Applied => now <= since + MaxDelay
    /\ \A i \in Informer :
           /\ events[i] # <<>> => now <= events[i][1].at + MaxDelay
           /\ \A m, n \in DOMAIN events[i] : m < n => events[i][m].at <= events[i][n].at
           /\ \A n \in DOMAIN events[i] : events[i][n].at <= now

\* When it ceased to be so that v is behind key k.
Ends(k, v) == IF k \in ClusterIP THEN svcs[v].left[k] ELSE pods[v].gone

Life(k) == IF k \in ClusterIP THEN SvcTtl ELSE PodTtl

\* What the refresh has still to set was so when it was listed.
ListedBeforeEnd(calls) ==
    \A n \in DOMAIN calls :
        calls[n].op = "set" => since <= Ends(calls[n].key, calls[n].val)

\* What an informer has still to set was so MaxDelay ago.
SetInTime(calls) ==
    \A n \in DOMAIN calls :
        calls[n].op = "set" => now <= Ends(calls[n].key, calls[n].val) + MaxDelay

\* What an event tells was so when it happened.
ToldBeforeEnd(ev) ==
    /\ ev.kind = "add" => ev.at <= pods[ev.obj.pod].gone
    /\ ev.kind = "update" /\ ev.obj.new # NoIP => ev.at <= svcs[ev.obj.svc].left[ev.obj.new]

CallsAreRecent ==
    /\ ListedBeforeEnd(todo["refresh"])
    /\ \A item \in list : ListedBeforeEnd(item)
    /\ \A i \in Informer : SetInTime(todo[i])
    /\ \A i \in Informer : \A n \in DOMAIN events[i] : ToldBeforeEnd(events[i][n])

EntriesEnd ==
    \A k \in CacheKey :
        cache[k].until # -1 =>
            /\ cache[k].until <= now + Life(k)
            /\ cache[k].until <= Ends(k, cache[k].val) + Life(k) + MaxDelay

PodInv == CacheTypes /\ NoEndYet /\ Punctual /\ CallsAreRecent /\ EntriesEnd

PodStep == PodsNext \/ ServicesNext \/ RefreshLoop

-----------------------------------------------------------------------------
(* The calls of the handlers and the events.                               *)

\* The two caches have no key in common.
LEMMA KeysApart == \A k \in PodKey : k \notin ClusterIP /\ k \in CacheKey
BY TwoCaches, PodCacheAssumption DEF PodKey, CacheKey

\* AddFunc sets entries of podCache, of the pod that it is given.
LEMMA AddPodCalls ==
    ASSUME NEW o \in PodObject
    PROVE  /\ AddPod(o) \in Seq(Call)
           /\ \A n \in DOMAIN AddPod(o) :
                  AddPod(o)[n].key \notin ClusterIP /\ AddPod(o)[n].val = o.pod
<1>1. /\ Set(o.pod, o.pod, PodEntryTtl) \in PodSet
      /\ Set(o.ip, o.pod, PodEntryTtl) \in PodSet
    BY DEF Set, PodSet, PodEntryTtl, PodObject, PodKey
<1>2. /\ Set(o.pod, o.pod, PodEntryTtl).key \notin ClusterIP
      /\ Set(o.pod, o.pod, PodEntryTtl).val = o.pod
      /\ Set(o.ip, o.pod, PodEntryTtl).key \notin ClusterIP
      /\ Set(o.ip, o.pod, PodEntryTtl).val = o.pod
    BY KeysApart DEF Set, PodObject, PodKey
<1>3. CASE o.evicted
    BY <1>3 DEF AddPod
<1>4. CASE ~o.evicted
    <2> DEFINE a == Set(o.pod, o.pod, PodEntryTtl)
               b == Set(o.ip, o.pod, PodEntryTtl)
    <2>1. a \in Call /\ b \in Call
        BY <1>1 DEF Call
    <2>2. AddPod(o) = <<a, b>>
        BY <1>4 DEF AddPod
    <2>3. /\ a.key \notin ClusterIP /\ a.val = o.pod
          /\ b.key \notin ClusterIP /\ b.val = o.pod
        BY <1>2
    <2> HIDE DEF a, b
    <2>4. <<a, b>> \in Seq(Call) /\ DOMAIN <<a, b>> = {1, 2}
        BY <2>1
    <2> QED
        BY <2>2, <2>3, <2>4
<1> QED
    BY <1>3, <1>4

\* refreshServiceInfo sets the entry of serviceCache for the cluster IP.
LEMMA AddServiceCalls ==
    ASSUME NEW s \in Svc, NEW ip \in ClusterIP \cup {NoIP}
    PROVE  /\ AddService(s, ip) \in Seq(Call)
           /\ \A n \in DOMAIN AddService(s, ip) :
                  /\ ip # NoIP
                  /\ AddService(s, ip)[n].key = ip /\ AddService(s, ip)[n].val = s
<1>1. CASE ip = NoIP
    BY <1>1 DEF AddService
<1>2. CASE ip # NoIP
    <2> DEFINE a == Set(ip, s, SvcTtl)
    <2>1. a \in Call /\ a.key = ip /\ a.val = s
        BY <1>2 DEF Call, SvcSet, Set
    <2>2. AddService(s, ip) = <<a>>
        BY <1>2 DEF AddService
    <2> HIDE DEF a
    <2>3. <<a>> \in Seq(Call) /\ DOMAIN <<a>> = {1}
        BY <2>1
    <2> QED
        BY <1>2, <2>1, <2>2, <2>3
<1> QED
    BY <1>1, <1>2

\* The handlers of the informers set nothing but what the event tells.
LEMMA CallsOfEvent ==
    ASSUME CacheTypes, NEW ev \in Watched, ev.kind # "tombstone", ToldBeforeEnd(ev)
    PROVE  /\ Calls(ev) \in Seq(Call)
           /\ \A n \in DOMAIN Calls(ev) :
                  Calls(ev)[n].op = "set" =>
                      ev.at <= Ends(Calls(ev)[n].key, Calls(ev)[n].val)
<1>1. CASE ev.kind = "add"
    <2>1. ev.obj \in PodObject /\ Calls(ev) = AddPod(ev.obj)
        BY <1>1 DEF Watched, Calls
    <2>2. /\ AddPod(ev.obj) \in Seq(Call)
          /\ \A n \in DOMAIN AddPod(ev.obj) :
                 /\ AddPod(ev.obj)[n].key \notin ClusterIP
                 /\ AddPod(ev.obj)[n].val = ev.obj.pod
        BY <2>1, AddPodCalls
    <2>3. ev.at <= pods[ev.obj.pod].gone
        BY <1>1 DEF ToldBeforeEnd
    <2> QED
        BY <2>1, <2>2, <2>3 DEF Ends
<1>2. CASE ev.kind = "delete"
    <2>1. ev.obj \in PodObject /\ Calls(ev) = <<Del(ev.obj.pod), Del(ev.obj.ip)>>
        BY <1>2 DEF Watched, Calls, ForgetPod
    <2> DEFINE a == Del(ev.obj.pod)
               b == Del(ev.obj.ip)
    <2>2. a \in Call /\ b \in Call /\ a.op = "del" /\ b.op = "del"
        BY <2>1 DEF Del, Call, PodObject, CacheKey
    <2> HIDE DEF a, b
    <2>3. <<a, b>> \in Seq(Call) /\ DOMAIN <<a, b>> = {1, 2}
        BY <2>2
    <2>4. Calls(ev) = <<a, b>>
        BY <2>1 DEF a, b
    <2> QED
        BY <2>2, <2>3, <2>4
<1>3. CASE ev.kind = "update"
    <2> DEFINE s == ev.obj.svc
               f == ForgetService(ev.obj.old)
               g == AddService(s, ev.obj.new)
    <2>1. /\ ev.obj \in SvcObject /\ s \in Svc /\ Calls(ev) = f \o g
          /\ ev.obj.new \in ClusterIP \cup {NoIP}
        BY <1>3 DEF Watched, Calls, SvcObject
    <2>2. f \in Seq(Call) /\ \A n \in DOMAIN f : f[n].op = "del"
        <3>1. CASE ev.obj.old = NoIP
            BY <3>1 DEF ForgetService
        <3>2. CASE ev.obj.old # NoIP
            <4> DEFINE a == Del(ev.obj.old)
            <4>1. a \in Call /\ a.op = "del"
                BY <2>1, <3>2 DEF Del, Call, SvcObject, CacheKey
            <4>2. f = <<a>>
                BY <3>2 DEF ForgetService
            <4> HIDE DEF a, f
            <4>3. <<a>> \in Seq(Call) /\ DOMAIN <<a>> = {1}
                BY <4>1
            <4> QED
                BY <4>1, <4>2, <4>3
        <3> QED
            BY <3>1, <3>2
    <2>3. /\ g \in Seq(Call)
          /\ \A n \in DOMAIN g : /\ ev.obj.new # NoIP
                                 /\ g[n].key = ev.obj.new /\ g[n].val = s
        BY <2>1, AddServiceCalls
    <2>4. ev.obj.new # NoIP => ev.at <= Ends(ev.obj.new, s)
        BY <1>3, <2>1 DEF ToldBeforeEnd, Ends
    <2> HIDE DEF f, g, s
    <2>5. f \o g \in Seq(Call)
        BY <2>2, <2>3
    <2>6. \A n \in DOMAIN (f \o g) :
              (f \o g)[n].op = "set" => ev.at <= Ends((f \o g)[n].key, (f \o g)[n].val)
        <3> SUFFICES ASSUME NEW n \in DOMAIN (f \o g), (f \o g)[n].op = "set"
                     PROVE  ev.at <= Ends((f \o g)[n].key, (f \o g)[n].val)
            OBVIOUS
        <3>1. \/ n \in DOMAIN f /\ (f \o g)[n] = f[n]
              \/ n - Len(f) \in DOMAIN g /\ (f \o g)[n] = g[n - Len(f)]
            BY <2>2, <2>3
        <3>2. n - Len(f) \in DOMAIN g /\ (f \o g)[n] = g[n - Len(f)]
            BY <2>2, <3>1
        <3> QED
            BY <2>3, <2>4, <3>2
    <2> QED
        BY <2>1, <2>5, <2>6
<1> QED
    BY <1>1, <1>2, <1>3 DEF Watched

\* What an event adds to the queue of its informer.
LEMMA Announcing ==
    ASSUME CacheTypes, NEW i \in Informer, NEW ev \in Watched, Announce(i, ev)
    PROVE  LET new == [ev EXCEPT !.at = now]
           IN  /\ new \in Watched
               /\ new.kind = ev.kind /\ new.obj = ev.obj /\ new.at = now
               /\ events' \in [Informer -> Seq(Watched)]
               /\ \A j \in Informer \ {i} : events'[j] = events[j]
               /\ events[i] # <<>> => events'[i][1] = events[i][1]
               /\ events[i] = <<>> => events'[i] = <<new>>
               /\ \A n \in DOMAIN events[i] : n \in Nat /\ n < Len(events[i]) + 1
               /\ \A n \in DOMAIN events'[i] :
                      \/ n \in DOMAIN events[i] /\ events'[i][n] = events[i][n]
                      \/ n = Len(events[i]) + 1 /\ events'[i][n] = new
<1> DEFINE new == [ev EXCEPT !.at = now]
<1>1. now \in 0 .. MaxNow /\ events \in [Informer -> Seq(Watched)]
    BY DEF CacheTypes
<1>2. new \in Watched /\ new.kind = ev.kind /\ new.obj = ev.obj /\ new.at = now
    BY <1>1 DEF Watched
<1>3. events' = [events EXCEPT ![i] = Append(events[i], new)]
    BY DEF Announce
<1> HIDE DEF new
<1>4. /\ Append(events[i], new) \in Seq(Watched)
      /\ DOMAIN Append(events[i], new) = 1 .. Len(events[i]) + 1
      /\ Len(events[i]) \in Nat /\ DOMAIN events[i] = 1 .. Len(events[i])
      /\ \A n \in DOMAIN events[i] : Append(events[i], new)[n] = events[i][n]
      /\ Append(events[i], new)[Len(events[i]) + 1] = new
    BY <1>1, <1>2
<1>5. events'[i] = Append(events[i], new)
    BY <1>1, <1>3
<1>6. events' \in [Informer -> Seq(Watched)] /\ \A j \in Informer \ {i} : events'[j] = events[j]
    BY <1>1, <1>3, <1>4
<1>7. \A n \in DOMAIN events[i] : n \in Nat /\ n < Len(events[i]) + 1
    BY <1>4
<1>8. \A n \in DOMAIN events'[i] :
          \/ n \in DOMAIN events[i] /\ events'[i][n] = events[i][n]
          \/ n = Len(events[i]) + 1 /\ events'[i][n] = new
    BY <1>4, <1>5
<1>9. events[i] # <<>> => events'[i][1] = events[i][1]
    <2>1. events[i] # <<>> => 1 \in DOMAIN events[i]
        BY <1>1, <1>4
    <2> QED
        BY <1>4, <1>5, <2>1
<1>10. events[i] = <<>> => events'[i] = <<new>>
    BY <1>5
<1> QED
    BY <1>2, <1>6, <1>7, <1>8, <1>9, <1>10 DEF new

\* What is left of the queue when its first event is taken.
LEMMA Taking ==
    ASSUME CacheTypes, NEW i \in Informer, events[i] # <<>>,
           events' = [events EXCEPT ![i] = Tail(@)]
    PROVE  /\ events' \in [Informer -> Seq(Watched)]
           /\ Head(events[i]) = events[i][1] /\ events[i][1] \in Watched
           /\ 1 \in DOMAIN events[i]
           /\ \A j \in Informer \ {i} : events'[j] = events[j]
           /\ events'[i] # <<>> => 1 \in DOMAIN events'[i]
           /\ \A n \in DOMAIN events'[i] :
                  /\ n \in Nat /\ n + 1 \in DOMAIN events[i] /\ 1 < n + 1
                  /\ events'[i][n] = events[i][n + 1]
<1>1. events \in [Informer -> Seq(Watched)]
    BY DEF CacheTypes
<1>2. events[i] \in Seq(Watched)
    BY <1>1
<1>3. /\ Head(events[i]) = events[i][1] /\ events[i][1] \in Watched
      /\ 1 \in DOMAIN events[i] /\ Tail(events[i]) \in Seq(Watched)
      /\ Tail(events[i]) # <<>> => 1 \in DOMAIN Tail(events[i])
      /\ \A n \in DOMAIN Tail(events[i]) :
             /\ n \in Nat /\ n + 1 \in DOMAIN events[i] /\ 1 < n + 1
             /\ Tail(events[i])[n] = events[i][n + 1]
    BY <1>2
<1>4. events'[i] = Tail(events[i])
    BY <1>1
<1>5. events' \in [Informer -> Seq(Watched)] /\ \A j \in Informer \ {i} : events'[j] = events[j]
    BY <1>1, <1>3
<1> QED
    BY <1>3, <1>4, <1>5

-----------------------------------------------------------------------------
(* The steps.                                                              *)

\* The events that the cluster's changes announce.
LEMMA Announcements ==
    ASSUME CacheTypes
    PROVE  /\ \A p \in Pod, kind \in {"add", "delete", "tombstone"} :
                  [kind |-> kind, obj |-> Snapshot(p), at |-> 0] \in Watched
           /\ \A s \in Svc, ip \in ClusterIP \cup {NoIP}, tombstone \in BOOLEAN :
                  [kind |-> "update", at |-> 0,
                   obj |-> [svc |-> s, old |-> IF tombstone THEN NoIP ELSE svcs[s].ip,
                            new |-> ip]] \in Watched
           /\ \A p \in Pod : Snapshot(p) \in PodObject
<1>1. \A p \in Pod : Snapshot(p) \in PodObject
    BY DEF CacheTypes, Snapshot, PodObject
<1>2. 0 \in 0 .. MaxNow
    BY PodCacheAssumption
<1>3. \A s \in Svc : svcs[s].ip \in ClusterIP \cup {NoIP}
    BY DEF CacheTypes
<1>4. \A s \in Svc, ip \in ClusterIP \cup {NoIP}, tombstone \in BOOLEAN :
          [svc |-> s, old |-> IF tombstone THEN NoIP ELSE svcs[s].ip, new |-> ip] \in SvcObject
    BY <1>3 DEF SvcObject
<1> QED
    BY <1>1, <1>2, <1>4 DEF Watched

\* Every step is one of these.
LEMMA PodCases ==
    ASSUME [PodStep]_podVars
    PROVE  \/ \E p \in Pod : CreatePod(p)
           \/ \E p \in Pod, ip \in PodIP : StartPod(p, ip)
           \/ \E p \in Pod, phase \in {"completed", "evicted"} : StopPod(p, phase)
           \/ \E p \in Pod, kind \in {"delete", "tombstone"} : DeletePod(p, kind)
           \/ \E s \in Svc, ip \in ClusterIP \cup {NoIP}, tombstone \in BOOLEAN :
                  ChangeService(s, ip, tombstone)
           \/ \E i \in Informer : HandleEvent(i)
           \/ \E what \in {"pods", "services"} : Refresh(what) \/ RefreshFails(what)
           \/ StartInformers
           \/ NextItem
           \/ \E w \in Worker : Apply(w)
           \/ Later
           \/ UNCHANGED podVars
BY DEF PodStep, PodsNext, ServicesNext, RefreshLoop, Informer, Worker

\* What a list holds: calls that set what was so when it was read.
LEMMA Listing ==
    ASSUME CacheTypes, NoEndYet, NEW what, Refresh(what)
    PROVE  /\ list' \in SUBSET Seq(Call)
           /\ \A item \in list' : \A n \in DOMAIN item :
                  now <= Ends(item[n].key, item[n].val)
<1>0. now \in 0 .. MaxNow /\ now <= Never
    BY PodCacheAssumption DEF CacheTypes, Never
<1>1. CASE what = "pods"
    <2> SUFFICES ASSUME NEW p \in Pod, pods[p].phase \notin {"absent", "gone"}
                 PROVE  /\ AddPod(Snapshot(p)) \in Seq(Call)
                        /\ \A n \in DOMAIN AddPod(Snapshot(p)) :
                               now <= Ends(AddPod(Snapshot(p))[n].key,
                                           AddPod(Snapshot(p))[n].val)
        BY <1>1 DEF Refresh
    <2>1. Snapshot(p) \in PodObject /\ Snapshot(p).pod = p
        BY Announcements DEF Snapshot
    <2>2. /\ AddPod(Snapshot(p)) \in Seq(Call)
          /\ \A n \in DOMAIN AddPod(Snapshot(p)) :
                 /\ AddPod(Snapshot(p))[n].key \notin ClusterIP
                 /\ AddPod(Snapshot(p))[n].val = p
        BY <2>1, AddPodCalls
    <2>3. pods[p].gone = Never
        BY DEF NoEndYet
    <2> QED
        BY <1>0, <2>2, <2>3 DEF Ends
<1>2. CASE what # "pods"
    <2> SUFFICES ASSUME NEW s \in Svc
                 PROVE  /\ AddService(s, svcs[s].ip) \in Seq(Call)
                        /\ \A n \in DOMAIN AddService(s, svcs[s].ip) :
                               now <= Ends(AddService(s, svcs[s].ip)[n].key,
                                           AddService(s, svcs[s].ip)[n].val)
        BY <1>2 DEF Refresh
    <2>1. svcs[s].ip \in ClusterIP \cup {NoIP}
        BY DEF CacheTypes
    <2>2. /\ AddService(s, svcs[s].ip) \in Seq(Call)
          /\ \A n \in DOMAIN AddService(s, svcs[s].ip) :
                 /\ svcs[s].ip # NoIP
                 /\ AddService(s, svcs[s].ip)[n].key = svcs[s].ip
                 /\ AddService(s, svcs[s].ip)[n].val = s
        BY <2>1, AddServiceCalls
    <2>3. svcs[s].ip # NoIP => svcs[s].left[svcs[s].ip] = Never
        BY DEF NoEndYet
    <2> QED
        BY <1>0, <2>1, <2>2, <2>3 DEF Ends
<1> QED
    BY <1>1, <1>2

\* Taking the first of the calls a goroutine has yet to make.
LEMMA Applying ==
    ASSUME CacheTypes, NEW w \in Worker, Apply(w)
    PROVE  LET c == todo[w][1]
           IN  /\ c \in Call /\ c.key \in CacheKey /\ 1 \in DOMAIN todo[w]
               /\ cache' = [cache EXCEPT ![c.key] =
                               IF c.op = "del" THEN Empty
                               ELSE [val |-> c.val, until |-> now + c.ttl]]
               /\ todo' \in [Worker -> Seq(Call)]
               /\ \A v \in Worker \ {w} : todo'[v] = todo[v]
               /\ \A n \in DOMAIN todo'[w] :
                      n + 1 \in DOMAIN todo[w] /\ todo'[w][n] = todo[w][n + 1]
<1>1. todo \in [Worker -> Seq(Call)]
    BY DEF CacheTypes
<1>2. todo[w] \in Seq(Call) /\ todo[w] # <<>>
    BY <1>1 DEF Apply
<1>3. /\ Head(todo[w]) = todo[w][1] /\ todo[w][1] \in Call /\ 1 \in DOMAIN todo[w]
      /\ Tail(todo[w]) \in Seq(Call)
      /\ \A n \in DOMAIN Tail(todo[w]) :
             n + 1 \in DOMAIN todo[w] /\ Tail(todo[w])[n] = todo[w][n + 1]
    BY <1>2
<1>4. todo' = [todo EXCEPT ![w] = Tail(todo[w])]
    BY DEF Apply
<1>5. todo[w][1].key \in CacheKey
    BY <1>3 DEF Call, PodSet, SvcSet, PodKey, CacheKey
<1>6. /\ todo' \in [Worker -> Seq(Call)] /\ todo'[w] = Tail(todo[w])
      /\ \A v \in Worker \ {w} : todo'[v] = todo[v]
    BY <1>1, <1>3, <1>4
<1> QED
    BY <1>3, <1>5, <1>6 DEF Apply

\* The state stays well typed.
LEMMA StepCacheTypes ==
    ASSUME PodInv, [PodStep]_podVars
    PROVE  CacheTypes'
<1>0. CacheTypes /\ NoEndYet /\ CallsAreRecent
    BY DEF PodInv
<1>a. /\ MaxNow \in Nat /\ Never = MaxNow + 1 /\ now \in 0 .. MaxNow /\ since \in 0 .. now
      /\ SvcTtl \in Nat /\ PodTtl \in Nat
    BY <1>0, PodCacheAssumption DEF CacheTypes, Never
<1>b. pods \in [Pod -> [phase : Phase, ip : PodIP \cup {NoIP}, gone : 0 .. Never]]
    BY <1>0 DEF CacheTypes
<1>1. ASSUME NEW p \in Pod, CreatePod(p) PROVE CacheTypes'
    <2>1. events' \in [Informer -> Seq(Watched)]
        BY <1>0, <1>1, Announcements, Announcing DEF CreatePod, Informer
    <2> QED
        BY <1>0, <1>1, <2>1 DEF CreatePod, Cluster, CacheTypes, Phase
<1>2. ASSUME NEW p \in Pod, NEW ip \in PodIP, StartPod(p, ip) PROVE CacheTypes'
    <2>1. pods' \in [Pod -> [phase : Phase, ip : PodIP \cup {NoIP}, gone : 0 .. Never]]
        <3>1. pods' = [pods EXCEPT ![p].phase = "running", ![p].ip = ip]
            BY <1>2 DEF StartPod
        <3> QED
            BY <1>b, <3>1 DEF Phase
    <2> QED
        BY <1>0, <1>2, <2>1 DEF StartPod, Cluster, CacheTypes
<1>3. ASSUME NEW p \in Pod, NEW phase \in {"completed", "evicted"}, StopPod(p, phase)
      PROVE  CacheTypes'
    <2>1. pods' \in [Pod -> [phase : Phase, ip : PodIP \cup {NoIP}, gone : 0 .. Never]]
        <3>1. pods' = [pods EXCEPT ![p].phase = phase]
            BY <1>3 DEF StopPod
        <3> QED
            BY <1>b, <3>1 DEF Phase
    <2> QED
        BY <1>0, <1>3, <2>1 DEF StopPod, Cluster, CacheTypes
<1>4. ASSUME NEW p \in Pod, NEW kind \in {"delete", "tombstone"}, DeletePod(p, kind)
      PROVE  CacheTypes'
    <2>1. events' \in [Informer -> Seq(Watched)]
        BY <1>0, <1>4, Announcements, Announcing DEF DeletePod, Informer
    <2>2. pods' \in [Pod -> [phase : Phase, ip : PodIP \cup {NoIP}, gone : 0 .. Never]]
        <3>1. pods' = [pods EXCEPT ![p].phase = "gone", ![p].gone = now]
            BY <1>4 DEF DeletePod
        <3>2. now \in 0 .. Never
            BY <1>a
        <3> QED
            BY <1>b, <3>1, <3>2 DEF Phase
    <2> QED
        BY <1>0, <1>4, <2>1, <2>2 DEF DeletePod, Cluster, CacheTypes
<1>5. ASSUME NEW s \in Svc, NEW ip \in ClusterIP \cup {NoIP},
             NEW tombstone \in BOOLEAN, ChangeService(s, ip, tombstone)
      PROVE  CacheTypes'
    <2>1. events' \in [Informer -> Seq(Watched)]
        BY <1>0, <1>5, Announcements, Announcing DEF ChangeService, Informer
    <2>2. svcs' \in [Svc -> [ip : ClusterIP \cup {NoIP}, left : [ClusterIP -> 0 .. Never]]]
        <3> DEFINE l == [a \in ClusterIP |-> IF a = ip THEN Never ELSE
                                             IF a = svcs[s].ip THEN now ELSE svcs[s].left[a]]
        <3>1. svcs \in [Svc -> [ip : ClusterIP \cup {NoIP}, left : [ClusterIP -> 0 .. Never]]]
            BY <1>0 DEF CacheTypes
        <3>2. \A a \in ClusterIP : svcs[s].left[a] \in 0 .. Never
            BY <3>1
        <3>3. l \in [ClusterIP -> 0 .. Never]
            BY <1>a, <3>2
        <3>4. svcs' = [svcs EXCEPT ![s].ip = ip, ![s].left = l]
            BY <1>5, <3>1 DEF ChangeService
        <3> HIDE DEF l
        <3> QED
            BY <3>1, <3>3, <3>4
    <2> QED
        BY <1>0, <1>5, <2>1, <2>2 DEF ChangeService, Cluster, CacheTypes
<1>6. ASSUME NEW i \in Informer, HandleEvent(i) PROVE CacheTypes'
    <2>1. /\ events' \in [Informer -> Seq(Watched)]
          /\ Head(events[i]) \in Watched /\ Head(events[i]) = events[i][1]
          /\ 1 \in DOMAIN events[i]
        BY <1>0, <1>6, Taking DEF HandleEvent
    <2>2. ToldBeforeEnd(Head(events[i]))
        BY <1>0, <2>1 DEF CallsAreRecent
    <2>3. Head(events[i]).kind # "tombstone" => Calls(Head(events[i])) \in Seq(Call)
        BY <1>0, <2>1, <2>2, CallsOfEvent
    <2>4. todo' \in [Worker -> Seq(Call)]
        BY <1>0, <1>6, <2>3 DEF HandleEvent, CacheTypes, Informer, Worker
    <2> QED
        BY <1>0, <1>6, <2>1, <2>4 DEF HandleEvent, CacheTypes
<1>7. ASSUME NEW what \in {"pods", "services"}, Refresh(what) PROVE CacheTypes'
    <2>1. list' \in SUBSET Seq(Call)
        BY <1>0, <1>7, Listing
    <2> QED
        BY <1>0, <1>a, <1>7, <2>1 DEF Refresh, CacheTypes
<1>8. ASSUME NEW what, RefreshFails(what) PROVE CacheTypes'
    BY <1>0, <1>8 DEF RefreshFails, CacheTypes
<1>9. CASE StartInformers
    BY <1>0, <1>9 DEF StartInformers, CacheTypes
<1>10. CASE NextItem
    BY <1>0, <1>10 DEF NextItem, CacheTypes, Worker
<1>11. ASSUME NEW w \in Worker, Apply(w) PROVE CacheTypes'
    <2> DEFINE c == todo[w][1]
               e == IF c.op = "del" THEN Empty ELSE [val |-> c.val, until |-> now + c.ttl]
    <2>1. /\ c \in Call /\ c.key \in CacheKey /\ todo' \in [Worker -> Seq(Call)]
          /\ cache' = [cache EXCEPT ![c.key] = e]
        BY <1>0, <1>11, Applying
    <2>2. e \in [val : Pod \cup Svc \cup {NoIP}, until : Int]
        BY <1>a, <2>1 DEF Call, PodSet, SvcSet, Empty
    <2>3. e.until # -1 => e.val \in IF c.key \in ClusterIP THEN Svc ELSE Pod
        BY <2>1, KeysApart DEF Call, PodSet, SvcSet, Empty
    <2> HIDE DEF c, e
    <2>4. /\ cache' \in [CacheKey -> [val : Pod \cup Svc \cup {NoIP}, until : Int]]
          /\ \A k \in CacheKey : cache'[k].until # -1 =>
                 cache'[k].val \in IF k \in ClusterIP THEN Svc ELSE Pod
        BY <1>0, <2>1, <2>2, <2>3 DEF CacheTypes
    <2> QED
        BY <1>0, <1>11, <2>1, <2>4 DEF Apply, CacheTypes
<1>12. CASE Later
    BY <1>0, <1>a, <1>12 DEF Later, CacheTypes
<1>13. CASE UNCHANGED podVars
    BY <1>0, <1>13 DEF podVars, CacheTypes
<1> QED
    BY <1>1, <1>2, <1>3, <1>4, <1>5, <1>6, <1>7, <1>8, <1>9, <1>10, <1>11, <1>12, <1>13,
       PodCases

\* What becomes of the addresses a service has had.
LEMMA ServiceMoves ==
    ASSUME CacheTypes, NEW s \in Svc, NEW ip \in ClusterIP \cup {NoIP},
           NEW tombstone \in BOOLEAN, ChangeService(s, ip, tombstone)
    PROVE  /\ svcs'[s].ip = ip
           /\ \A a \in ClusterIP :
                  svcs'[s].left[a] = IF a = ip THEN Never ELSE
                                     IF a = svcs[s].ip THEN now ELSE svcs[s].left[a]
           /\ \A v \in Svc \ {s} : svcs'[v] = svcs[v]
<1> DEFINE l == [a \in ClusterIP |-> IF a = ip THEN Never ELSE
                                     IF a = svcs[s].ip THEN now ELSE svcs[s].left[a]]
<1>1. svcs \in [Svc -> [ip : ClusterIP \cup {NoIP}, left : [ClusterIP -> 0 .. Never]]]
    BY DEF CacheTypes
<1>2. svcs' = [svcs EXCEPT ![s].ip = ip, ![s].left = l]
    BY <1>1 DEF ChangeService
<1> HIDE DEF l
<1>3. svcs'[s].ip = ip /\ svcs'[s].left = l /\ \A v \in Svc \ {s} : svcs'[v] = svcs[v]
    BY <1>1, <1>2
<1> QED
    BY <1>3 DEF l

\* The deletion of a pod sets its end to the present.
LEMMA PodMoves ==
    ASSUME CacheTypes, NEW p \in Pod
    PROVE  /\ CreatePod(p) => pods'[p].gone = pods[p].gone /\ pods'[p].phase # "gone"
                              /\ pods[p].phase # "gone"
           /\ \A ip : StartPod(p, ip) => pods'[p].gone = pods[p].gone /\ pods[p].phase # "gone"
           /\ \A phase : StopPod(p, phase) =>
                  pods'[p].gone = pods[p].gone /\ pods[p].phase # "gone"
           /\ \A kind : DeletePod(p, kind) => pods'[p].gone = now /\ pods'[p].phase = "gone"
           /\ \A ip, phase, kind :
                  CreatePod(p) \/ StartPod(p, ip) \/ StopPod(p, phase) \/ DeletePod(p, kind)
                  => /\ \A q \in Pod \ {p} : pods'[q] = pods[q]
                     /\ svcs' = svcs /\ now' = now
<1>0. pods \in [Pod -> [phase : Phase, ip : PodIP \cup {NoIP}, gone : 0 .. Never]]
    BY DEF CacheTypes
<1>1. ASSUME CreatePod(p)
      PROVE  /\ pods'[p].gone = pods[p].gone /\ pods'[p].phase # "gone" /\ pods[p].phase # "gone"
             /\ \A q \in Pod \ {p} : pods'[q] = pods[q]
             /\ svcs' = svcs /\ now' = now
    BY <1>0, <1>1 DEF CreatePod, Cluster
<1>2. ASSUME NEW ip, StartPod(p, ip)
      PROVE  /\ pods'[p].gone = pods[p].gone /\ pods[p].phase # "gone"
             /\ \A q \in Pod \ {p} : pods'[q] = pods[q]
             /\ svcs' = svcs /\ now' = now
    BY <1>0, <1>2 DEF StartPod, Cluster
<1>3. ASSUME NEW phase, StopPod(p, phase)
      PROVE  /\ pods'[p].gone = pods[p].gone /\ pods[p].phase # "gone"
             /\ \A q \in Pod \ {p} : pods'[q] = pods[q]
             /\ svcs' = svcs /\ now' = now
    BY <1>0, <1>3 DEF StopPod, Cluster
<1>4. ASSUME NEW kind, DeletePod(p, kind)
      PROVE  /\ pods'[p].gone = now /\ pods'[p].phase = "gone"
             /\ \A q \in Pod \ {p} : pods'[q] = pods[q]
             /\ svcs' = svcs /\ now' = now
    BY <1>0, <1>4 DEF DeletePod, Cluster
<1> QED
    BY <1>1, <1>2, <1>3, <1>4

\* What exists has no end.
LEMMA StepNoEnd ==
    ASSUME PodInv, [PodStep]_podVars
    PROVE  NoEndYet'
<1>0. CacheTypes /\ NoEndYet
    BY DEF PodInv
<1>1. ASSUME NEW p \in Pod, NEW ip, NEW phase, NEW kind,
             CreatePod(p) \/ StartPod(p, ip) \/ StopPod(p, phase) \/ DeletePod(p, kind)
      PROVE  NoEndYet'
    <2>1. /\ pods'[p].phase # "gone" => pods'[p].gone = Never
          /\ \A q \in Pod \ {p} : pods'[q] = pods[q]
          /\ svcs' = svcs
        BY <1>0, <1>1, PodMoves DEF NoEndYet
    <2> QED
        BY <1>0, <2>1 DEF NoEndYet, Never
<1>2. ASSUME NEW s \in Svc, NEW ip \in ClusterIP \cup {NoIP},
             NEW tombstone \in BOOLEAN, ChangeService(s, ip, tombstone)
      PROVE  NoEndYet'
    <2>1. /\ svcs'[s].ip = ip /\ (ip # NoIP => svcs'[s].left[ip] = Never)
          /\ \A v \in Svc \ {s} : svcs'[v] = svcs[v]
        BY <1>0, <1>2, ServiceMoves
    <2>2. pods' = pods
        BY <1>2 DEF ChangeService, Cluster
    <2> QED
        BY <1>0, <2>1, <2>2 DEF NoEndYet, Never
<1>3. ASSUME UNCHANGED <<pods, svcs>> PROVE NoEndYet'
    BY <1>0, <1>3 DEF NoEndYet, Never
<1> QED
    BY <1>1, <1>2, <1>3, PodCases
    DEF HandleEvent, Refresh, RefreshFails, StartInformers, NextItem, Apply, Later, podVars

\* What ends, ends now: a step brings the end of nothing forward to the past.
LEMMA EndsNow ==
    ASSUME PodInv, [PodStep]_podVars,
           NEW k \in CacheKey, NEW v \in (IF k \in ClusterIP THEN Svc ELSE Pod)
    PROVE  /\ Ends(k, v)' = Ends(k, v) \/ (Ends(k, v)' >= now' /\ now' = now)
           /\ Ends(k, v) \in Nat /\ Ends(k, v)' \in Nat
<1>0. CacheTypes /\ CacheTypes'
    BY StepCacheTypes DEF PodInv
<1>a. now \in 0 .. MaxNow /\ MaxNow \in Nat /\ Never = MaxNow + 1
    BY <1>0, PodCacheAssumption DEF CacheTypes, Never
<1>b. ASSUME CacheTypes PROVE Ends(k, v) \in Nat
    <2>1. \A n \in 0 .. Never : n \in Nat
        BY <1>a
    <2>2. CASE k \in ClusterIP
        BY <1>b, <2>1, <2>2 DEF Ends, CacheTypes
    <2>3. CASE k \notin ClusterIP
        BY <1>b, <2>1, <2>3 DEF Ends, CacheTypes
    <2> QED
        BY <2>2, <2>3
<1>c. Ends(k, v)' \in Nat
    <2>1. \A n \in 0 .. Never : n \in Nat
        BY <1>a
    <2>2. CASE k \in ClusterIP
        BY <1>0, <2>1, <2>2 DEF Ends, CacheTypes, Never
    <2>3. CASE k \notin ClusterIP
        BY <1>0, <2>1, <2>3 DEF Ends, CacheTypes, Never
    <2> QED
        BY <2>2, <2>3
<1>1. ASSUME NEW p \in Pod, NEW ip, NEW phase, NEW kind,
             CreatePod(p) \/ StartPod(p, ip) \/ StopPod(p, phase) \/ DeletePod(p, kind)
      PROVE  Ends(k, v)' = Ends(k, v) \/ (Ends(k, v)' >= now' /\ now' = now)
    <2>1. /\ pods'[p].gone = pods[p].gone \/ pods'[p].gone = now
          /\ \A q \in Pod \ {p} : pods'[q] = pods[q]
          /\ svcs' = svcs /\ now' = now
        BY <1>0, <1>1, PodMoves
    <2>2. CASE k \in ClusterIP
        BY <2>1, <2>2 DEF Ends
    <2>3. CASE k \notin ClusterIP
        BY <1>a, <2>1, <2>3 DEF Ends
    <2> QED
        BY <2>2, <2>3
<1>2. ASSUME NEW s \in Svc, NEW ip \in ClusterIP \cup {NoIP},
             NEW tombstone \in BOOLEAN, ChangeService(s, ip, tombstone)
      PROVE  Ends(k, v)' = Ends(k, v) \/ (Ends(k, v)' >= now' /\ now' = now)
    <2>1. /\ \A a \in ClusterIP : svcs'[s].left[a] \in {Never, now, svcs[s].left[a]}
          /\ \A u \in Svc \ {s} : svcs'[u] = svcs[u]
        BY <1>0, <1>2, ServiceMoves
    <2>2. pods' = pods /\ now' = now
        BY <1>2 DEF ChangeService, Cluster
    <2>3. Never >= now
        BY <1>a
    <2>4. CASE k \in ClusterIP
        BY <1>a, <2>1, <2>2, <2>3, <2>4 DEF Ends
    <2>5. CASE k \notin ClusterIP
        BY <2>2, <2>5 DEF Ends
    <2> QED
        BY <2>4, <2>5
<1>3. ASSUME UNCHANGED <<pods, svcs>> PROVE Ends(k, v)' = Ends(k, v)
    BY <1>3 DEF Ends
<1>4. Ends(k, v)' = Ends(k, v) \/ (Ends(k, v)' >= now' /\ now' = now)
    BY <1>1, <1>2, <1>3, PodCases
    DEF HandleEvent, Refresh, RefreshFails, StartInformers, NextItem, Apply, Later, podVars
<1> QED
    BY <1>0, <1>b, <1>c, <1>4

\* Nobody is late.
LEMMA StepPunctual ==
    ASSUME PodInv, [PodStep]_podVars
    PROVE  Punctual'
<1>0. CacheTypes /\ Punctual
    BY DEF PodInv
<1>a. /\ now \in Nat /\ since \in Nat /\ MaxDelay \in Nat
      /\ \A i \in Informer : \A n \in DOMAIN events[i] : n \in Nat /\ events[i][n].at \in Nat
    <2>1. now \in Nat /\ since \in Nat /\ MaxDelay \in Nat /\ MaxNow \in Nat
        BY <1>0, PodCacheAssumption DEF CacheTypes
    <2>2. ASSUME NEW i \in Informer, NEW n \in DOMAIN events[i]
          PROVE  n \in Nat /\ events[i][n].at \in Nat
        <3>1. events[i] \in Seq(Watched)
            BY <1>0 DEF CacheTypes
        <3>2. n \in Nat /\ events[i][n] \in Watched
            BY <3>1
        <3> QED
            BY <2>1, <3>2 DEF Watched
    <2> QED
        BY <2>1, <2>2
<1>b. \A i \in Informer : events[i] # <<>> => 1 \in DOMAIN events[i]
    BY <1>0 DEF CacheTypes
<1>1. ASSUME NEW i \in Informer, NEW ev \in Watched, Announce(i, ev),
             UNCHANGED <<todo, list, since, now>>
      PROVE  Punctual'
    <2> DEFINE new == [ev EXCEPT !.at = now]
    <2>1. /\ new.at = now
          /\ \A j \in Informer \ {i} : events'[j] = events[j]
          /\ events[i] # <<>> => events'[i][1] = events[i][1]
          /\ events[i] = <<>> => events'[i] = <<new>>
          /\ \A n \in DOMAIN events[i] : n \in Nat /\ n < Len(events[i]) + 1
          /\ \A n \in DOMAIN events'[i] :
                 \/ n \in DOMAIN events[i] /\ events'[i][n] = events[i][n]
                 \/ n = Len(events[i]) + 1 /\ events'[i][n] = new
        BY <1>0, <1>1, Announcing
    <2>2. Len(events[i]) \in Nat
        BY <1>0 DEF CacheTypes
    <2> HIDE DEF new
    <2>3. now <= events'[i][1].at + MaxDelay
        <3>1. CASE events[i] = <<>>
            BY <1>a, <2>1, <3>1
        <3>2. CASE events[i] # <<>>
            BY <1>0, <2>1, <3>2 DEF Punctual
        <3> QED
            BY <3>1, <3>2
    <2>4. \A n \in DOMAIN events'[i] : events'[i][n].at <= now
        BY <1>0, <1>a, <2>1 DEF Punctual
    <2>5. ASSUME NEW m \in DOMAIN events'[i], NEW n \in DOMAIN events'[i], m < n
          PROVE  events'[i][m].at <= events'[i][n].at
        <3>1. CASE events'[i][n] = new
            BY <1>a, <2>1, <2>4, <3>1
        <3>2. CASE n \in DOMAIN events[i] /\ events'[i][n] = events[i][n]
            <4>1. m # Len(events[i]) + 1
                BY <2>1, <2>2, <2>5, <3>2
            <4>2. m \in DOMAIN events[i] /\ events'[i][m] = events[i][m]
                BY <2>1, <4>1
            <4> QED
                BY <1>0, <2>5, <3>2, <4>2 DEF Punctual
        <3> QED
            BY <2>1, <3>1, <3>2
    <2> QED
        BY <1>0, <1>1, <2>1, <2>3, <2>4, <2>5 DEF Punctual, Applied
<1>2. ASSUME NEW i \in Informer, HandleEvent(i) PROVE Punctual'
    <2>1. /\ \A j \in Informer \ {i} : events'[j] = events[j]
          /\ events'[i] # <<>> => 1 \in DOMAIN events'[i]
          /\ 1 \in DOMAIN events[i] /\ events[i] # <<>>
          /\ \A n \in DOMAIN events'[i] :
                 /\ n \in Nat /\ n + 1 \in DOMAIN events[i] /\ 1 < n + 1
                 /\ events'[i][n] = events[i][n + 1]
        BY <1>0, <1>2, Taking DEF HandleEvent
    <2>2. UNCHANGED <<list, since, now>> /\ todo'["refresh"] = todo["refresh"]
        BY <1>0, <1>2 DEF HandleEvent, CacheTypes, Informer, Worker
    <2>3. now <= events[i][1].at + MaxDelay
        BY <1>0, <2>1 DEF Punctual
    <2>4. ASSUME events'[i] # <<>> PROVE now <= events'[i][1].at + MaxDelay
        <3>1. 2 \in DOMAIN events[i] /\ events'[i][1] = events[i][2]
            BY <2>1, <2>4
        <3>2. events[i][1].at <= events[i][2].at
            BY <1>0, <2>1, <3>1 DEF Punctual
        <3> QED
            BY <1>a, <2>1, <2>3, <3>1, <3>2
    <2>5. \A m, n \in DOMAIN events'[i] : m < n => events'[i][m].at <= events'[i][n].at
        <3> SUFFICES ASSUME NEW m \in DOMAIN events'[i], NEW n \in DOMAIN events'[i], m < n
                     PROVE  events'[i][m].at <= events'[i][n].at
            OBVIOUS
        <3>1. m + 1 < n + 1 /\ m + 1 \in DOMAIN events[i] /\ n + 1 \in DOMAIN events[i]
            BY <2>1
        <3> QED
            BY <1>0, <2>1, <3>1 DEF Punctual
    <2>6. \A n \in DOMAIN events'[i] : events'[i][n].at <= now
        BY <1>0, <2>1 DEF Punctual
    <2> QED
        BY <1>0, <2>1, <2>2, <2>4, <2>5, <2>6 DEF Punctual, Applied
<1>3. ASSUME UNCHANGED <<events, now>>, since' = now \/ (since' = since /\ (Applied => Applied'))
      PROVE  Punctual'
    <2>1. ~Applied' => now <= since' + MaxDelay
        BY <1>0, <1>a, <1>3 DEF Punctual
    <2> QED
        BY <1>0, <1>3, <2>1 DEF Punctual
<1>4. CASE Later
    <2>1. /\ UNCHANGED <<events, todo, list, since>> /\ now' = now + 1
          /\ ~Applied => now - since < MaxDelay
          /\ \A i \in Informer : events[i] # <<>> => now - Head(events[i]).at < MaxDelay
        BY <1>0, <1>4 DEF Later, CacheTypes, Informer
    <2>2. \A i \in Informer : events[i] # <<>> => Head(events[i]) = events[i][1]
        BY <1>0 DEF CacheTypes
    <2>3. \A i \in Informer : events[i] # <<>> => now + 1 <= events[i][1].at + MaxDelay
        BY <1>a, <1>b, <2>1, <2>2
    <2>4. ~Applied => now + 1 <= since + MaxDelay
        BY <1>a, <2>1
    <2>5. \A i \in Informer : \A n \in DOMAIN events[i] : events[i][n].at <= now + 1
        BY <1>0, <1>a DEF Punctual
    <2> QED
        BY <1>0, <2>1, <2>3, <2>4, <2>5 DEF Punctual, Applied
<1>5. ASSUME NEW p \in Pod, CreatePod(p) PROVE Punctual'
    BY <1>0, <1>1, <1>5, Announcements DEF CreatePod, Cluster, Informer
<1>6. ASSUME NEW p \in Pod, NEW kind \in {"delete", "tombstone"}, DeletePod(p, kind)
      PROVE  Punctual'
    BY <1>0, <1>1, <1>6, Announcements DEF DeletePod, Cluster, Informer
<1>7. ASSUME NEW s \in Svc, NEW ip \in ClusterIP \cup {NoIP},
             NEW tombstone \in BOOLEAN, ChangeService(s, ip, tombstone)
      PROVE  Punctual'
    BY <1>0, <1>1, <1>7, Announcements DEF ChangeService, Cluster, Informer
<1>8. ASSUME NEW p, NEW ip, NEW phase, StartPod(p, ip) \/ StopPod(p, phase)
      PROVE  Punctual'
    BY <1>3, <1>8 DEF StartPod, StopPod, Cluster, Applied
<1>9. ASSUME NEW what, Refresh(what) \/ RefreshFails(what) PROVE Punctual'
    BY <1>3, <1>9 DEF Refresh, RefreshFails, Applied
<1>10. CASE StartInformers \/ UNCHANGED podVars
    BY <1>3, <1>10 DEF StartInformers, podVars, Applied
<1>11. CASE NextItem
    <2>1. UNCHANGED <<events, now, since>> /\ ~Applied
        BY <1>11 DEF NextItem, Applied
    <2> QED
        BY <1>3, <2>1
<1>12. ASSUME NEW w \in Worker, Apply(w) PROVE Punctual'
    <2>1. UNCHANGED <<events, now, since, list>>
        BY <1>12 DEF Apply
    <2>2. Applied => Applied'
        <3>1. CASE w = "refresh"
            BY <1>12, <3>1 DEF Apply, Applied
        <3>2. CASE w # "refresh"
            <4>1. todo'["refresh"] = todo["refresh"]
                BY <1>0, <1>12, <3>2 DEF Apply, CacheTypes, Worker
            <4> QED
                BY <2>1, <4>1 DEF Applied
        <3> QED
            BY <3>1, <3>2
    <2> QED
        BY <1>3, <2>1, <2>2
<1> QED
    BY <1>2, <1>4, <1>5, <1>6, <1>7, <1>8, <1>9, <1>10, <1>11, <1>12, PodCases

\* A call that sets an entry, and when what it sets ends.
LEMMA SetCall ==
    ASSUME PodInv, [PodStep]_podVars, NEW c \in Call, c.op = "set"
    PROVE  /\ c.key \in CacheKey /\ c.val \in (IF c.key \in ClusterIP THEN Svc ELSE Pod)
           /\ c.ttl = Life(c.key)
           /\ Ends(c.key, c.val) \in Nat /\ Ends(c.key, c.val)' \in Nat
           /\ \/ Ends(c.key, c.val)' = Ends(c.key, c.val)
              \/ Ends(c.key, c.val)' >= now' /\ now' = now
           /\ \A x \in Nat : x <= now /\ x <= Ends(c.key, c.val) => x <= Ends(c.key, c.val)'
<1>1. /\ c.key \in CacheKey /\ c.val \in (IF c.key \in ClusterIP THEN Svc ELSE Pod)
      /\ c.ttl = Life(c.key)
    <2>1. CASE c \in PodSet
        BY <2>1, KeysApart DEF PodSet, Life
    <2>2. CASE c \in SvcSet
        BY <2>2 DEF SvcSet, Life, CacheKey
    <2> QED
        BY <2>1, <2>2 DEF Call
<1>2. /\ Ends(c.key, c.val) \in Nat /\ Ends(c.key, c.val)' \in Nat
      /\ \/ Ends(c.key, c.val)' = Ends(c.key, c.val)
         \/ Ends(c.key, c.val)' >= now' /\ now' = now
    BY <1>1, EndsNow
<1>3. now \in Nat
    BY PodCacheAssumption DEF PodInv, CacheTypes
<1>4. \A x \in Nat : x <= now /\ x <= Ends(c.key, c.val) => x <= Ends(c.key, c.val)'
    BY <1>2, <1>3
<1> QED
    BY <1>1, <1>2, <1>4

\* What the refresh has still to set was so when it was listed.
LEMMA StepListed ==
    ASSUME PodInv, [PodStep]_podVars
    PROVE  /\ ListedBeforeEnd(todo["refresh"])'
           /\ \A item \in list' : ListedBeforeEnd(item)'
<1>0. CacheTypes /\ NoEndYet /\ CallsAreRecent
    BY DEF PodInv
<1>a. since \in Nat /\ since <= now /\ now \in Nat
    BY <1>0, PodCacheAssumption DEF CacheTypes
<1>b. todo["refresh"] \in Seq(Call) /\ \A item \in list : item \in Seq(Call)
    BY <1>0 DEF CacheTypes, Worker
<1>1. ASSUME NEW calls \in Seq(Call), ListedBeforeEnd(calls), since' = since
      PROVE  \A n \in DOMAIN calls :
                 calls[n].op = "set" => since' <= Ends(calls[n].key, calls[n].val)'
    <2> SUFFICES ASSUME NEW n \in DOMAIN calls, calls[n].op = "set"
                 PROVE  since <= Ends(calls[n].key, calls[n].val)'
        BY <1>1
    <2>1. calls[n] \in Call
        OBVIOUS
    <2>2. since <= Ends(calls[n].key, calls[n].val)
        BY <1>1 DEF ListedBeforeEnd
    <2>3. \A c \in Call : c.op = "set" =>
              \A x \in Nat : x <= now /\ x <= Ends(c.key, c.val) => x <= Ends(c.key, c.val)'
        BY SetCall
    <2> QED
        BY <1>a, <2>1, <2>2, <2>3
<1>2. ASSUME since' = since, todo'["refresh"] = todo["refresh"], list' = list
      PROVE  /\ ListedBeforeEnd(todo["refresh"])'
             /\ \A item \in list' : ListedBeforeEnd(item)'
    <2>1. ListedBeforeEnd(todo["refresh"])'
        BY <1>0, <1>1, <1>2, <1>b DEF CallsAreRecent, ListedBeforeEnd
    <2>2. \A item \in list' : ListedBeforeEnd(item)'
        BY <1>0, <1>1, <1>2, <1>b DEF CallsAreRecent, ListedBeforeEnd
    <2> QED
        BY <2>1, <2>2
<1>3. ASSUME NEW what \in {"pods", "services"}, Refresh(what)
      PROVE  /\ ListedBeforeEnd(todo["refresh"])'
             /\ \A item \in list' : ListedBeforeEnd(item)'
    <2>1. /\ since' = now /\ todo' = todo /\ todo["refresh"] = <<>>
          /\ pods' = pods /\ svcs' = svcs
        BY <1>3 DEF Refresh, Applied
    <2>2. \A k, v : Ends(k, v)' = Ends(k, v)
        BY <2>1 DEF Ends
    <2>3. \A item \in list' : \A n \in DOMAIN item : now <= Ends(item[n].key, item[n].val)
        BY <1>0, <1>3, Listing
    <2> QED
        BY <2>1, <2>2, <2>3 DEF ListedBeforeEnd
<1>4. CASE NextItem
    <2>1. PICK item \in list : /\ todo' = [todo EXCEPT !["refresh"] = item]
                               /\ list' = list \ {item}
        BY <1>4 DEF NextItem
    <2>2. todo'["refresh"] = item /\ since' = since
        BY <1>0, <1>4, <2>1 DEF NextItem, CacheTypes, Worker
    <2>3. ListedBeforeEnd(todo["refresh"])'
        BY <1>0, <1>1, <1>b, <2>1, <2>2 DEF CallsAreRecent, ListedBeforeEnd
    <2>4. \A it \in list' : ListedBeforeEnd(it)'
        BY <1>0, <1>1, <1>b, <2>1, <2>2 DEF CallsAreRecent, ListedBeforeEnd
    <2> QED
        BY <2>3, <2>4
<1>5. ASSUME NEW w \in Worker, Apply(w)
      PROVE  /\ ListedBeforeEnd(todo["refresh"])'
             /\ \A item \in list' : ListedBeforeEnd(item)'
    <2>1. since' = since /\ list' = list
        BY <1>5 DEF Apply
    <2>2. /\ \A v \in Worker \ {w} : todo'[v] = todo[v]
          /\ \A n \in DOMAIN todo'[w] :
                 n + 1 \in DOMAIN todo[w] /\ todo'[w][n] = todo[w][n + 1]
        BY <1>0, <1>5, Applying
    <2>3. CASE w # "refresh"
        BY <1>2, <2>1, <2>2, <2>3 DEF Worker
    <2>4. CASE w = "refresh"
        <3>3. ListedBeforeEnd(todo["refresh"])'
            <4> SUFFICES ASSUME NEW n \in DOMAIN todo'["refresh"], todo'["refresh"][n].op = "set"
                         PROVE  (since <= Ends(todo["refresh"][n].key, todo["refresh"][n].val))'
                BY DEF ListedBeforeEnd
            <4>1. PICK c \in Call : c = todo["refresh"][n + 1] /\ c = todo'["refresh"][n]
                BY <1>b, <2>2, <2>4
            <4>2. since <= Ends(c.key, c.val)
                BY <1>0, <2>2, <2>4, <4>1 DEF CallsAreRecent, ListedBeforeEnd
            <4>3. since <= Ends(c.key, c.val)'
                BY <1>a, <4>1, <4>2, SetCall
            <4> QED
                BY <2>1, <4>1, <4>3
        <3>4. \A item \in list' : ListedBeforeEnd(item)'
            BY <1>0, <1>1, <1>b, <2>1 DEF CallsAreRecent, ListedBeforeEnd
        <3> QED
            BY <3>3, <3>4
    <2> QED
        BY <2>3, <2>4
<1>6. ASSUME NEW i \in Informer, HandleEvent(i)
      PROVE  since' = since /\ todo'["refresh"] = todo["refresh"] /\ list' = list
    BY <1>0, <1>6 DEF HandleEvent, CacheTypes, Informer, Worker
<1>7. ASSUME UNCHANGED <<todo, list, since>>
      PROVE  since' = since /\ todo'["refresh"] = todo["refresh"] /\ list' = list
    BY <1>7
<1> QED
    BY <1>2, <1>3, <1>4, <1>5, <1>6, <1>7, PodCases
    DEF CreatePod, StartPod, StopPod, DeletePod, ChangeService, Cluster, RefreshFails,
        StartInformers, Later, podVars

\* What an informer has still to set was so MaxDelay ago.
LEMMA StepSetInTime ==
    ASSUME PodInv, [PodStep]_podVars
    PROVE  \A i \in Informer : SetInTime(todo[i])'
<1>0. CacheTypes /\ Punctual /\ CallsAreRecent
    BY DEF PodInv
<1>a. now \in Nat /\ MaxDelay \in Nat
    BY <1>0, PodCacheAssumption DEF CacheTypes
<1>b. \A i \in Informer : i \in Worker /\ todo[i] \in Seq(Call)
    BY <1>0 DEF CacheTypes, Worker, Informer
<1>1. ASSUME now' = now, NEW c \in Call, c.op = "set", now <= Ends(c.key, c.val) + MaxDelay
      PROVE  now' <= Ends(c.key, c.val)' + MaxDelay
    BY <1>a, <1>1, SetCall
<1>2. ASSUME now' = now, NEW i \in Informer,
             \A n \in DOMAIN todo'[i] : \E m \in DOMAIN todo[i] : todo'[i][n] = todo[i][m]
      PROVE  SetInTime(todo[i])'
    <2> SUFFICES ASSUME NEW n \in DOMAIN todo'[i], todo'[i][n].op = "set"
                 PROVE  (now <= Ends(todo[i][n].key, todo[i][n].val) + MaxDelay)'
        BY DEF SetInTime
    <2>1. PICK m \in DOMAIN todo[i] : todo'[i][n] = todo[i][m]
        BY <1>2
    <2>2. PICK c \in Call : c = todo[i][m] /\ c = todo'[i][n]
        BY <1>b, <2>1
    <2>3. now <= Ends(c.key, c.val) + MaxDelay
        BY <1>0, <2>1, <2>2 DEF CallsAreRecent, SetInTime
    <2>4. now' <= Ends(c.key, c.val)' + MaxDelay
        BY <1>1, <1>2, <2>2, <2>3
    <2> QED
        BY <2>2, <2>4
<1>3. ASSUME now' = now, \A i \in Informer : todo'[i] = todo[i]
      PROVE  \A i \in Informer : SetInTime(todo[i])'
    BY <1>2, <1>3
<1>4. ASSUME NEW i \in Informer, HandleEvent(i)
      PROVE  \A j \in Informer : SetInTime(todo[j])'
    <2> DEFINE ev == events[i][1]
    <2>1. /\ Head(events[i]) = ev /\ ev \in Watched /\ 1 \in DOMAIN events[i]
          /\ events[i] # <<>>
        BY <1>0, <1>4, Taking DEF HandleEvent
    <2>2. now' = now /\ pods' = pods /\ svcs' = svcs
        BY <1>4 DEF HandleEvent
    <2>3. \A k, v : Ends(k, v)' = Ends(k, v)
        BY <2>2 DEF Ends
    <2>4. ToldBeforeEnd(ev) /\ now <= ev.at + MaxDelay
        BY <1>0, <2>1 DEF CallsAreRecent, Punctual
    <2>5. CASE ev.kind = "tombstone"
        <3>1. todo' = todo
            BY <1>4, <2>1, <2>5 DEF HandleEvent
        <3> QED
            BY <1>3, <2>2, <3>1
    <2>6. CASE ev.kind # "tombstone"
        <3>1. todo' = [todo EXCEPT ![i] = Calls(ev)]
            BY <1>4, <2>1, <2>6 DEF HandleEvent
        <3>2. todo'[i] = Calls(ev) /\ \A j \in Informer \ {i} : todo'[j] = todo[j]
            BY <1>0, <1>b, <3>1 DEF CacheTypes
        <3>3. /\ Calls(ev) \in Seq(Call)
              /\ \A n \in DOMAIN Calls(ev) : Calls(ev)[n].op = "set" =>
                     ev.at <= Ends(Calls(ev)[n].key, Calls(ev)[n].val)
            BY <1>0, <2>1, <2>4, <2>6, CallsOfEvent
        <3>4. ev.at \in Nat
            BY <2>1, PodCacheAssumption DEF Watched
        <3> HIDE DEF ev
        <3>5. SetInTime(todo[i])'
            <4> SUFFICES ASSUME NEW n \in DOMAIN todo'[i], todo'[i][n].op = "set"
                         PROVE  (now <= Ends(todo[i][n].key, todo[i][n].val) + MaxDelay)'
                BY DEF SetInTime
            <4>1. PICK c \in Call : c = Calls(ev)[n] /\ c = todo'[i][n]
                BY <3>2, <3>3
            <4>2. ev.at <= Ends(c.key, c.val) /\ c.op = "set"
                BY <3>2, <3>3, <4>1
            <4>3. Ends(c.key, c.val) \in Nat
                BY <4>2, SetCall
            <4>4. now' <= Ends(c.key, c.val)' + MaxDelay
                BY <1>a, <2>2, <2>3, <2>4, <3>4, <4>2, <4>3
            <4> QED
                BY <4>1, <4>4
        <3>6. ASSUME NEW j \in Informer \ {i} PROVE SetInTime(todo[j])'
            BY <1>2, <2>2, <3>2
        <3> QED
            BY <3>5, <3>6
    <2> QED
        BY <2>5, <2>6
<1>5. ASSUME NEW w \in Worker, Apply(w)
      PROVE  \A j \in Informer : SetInTime(todo[j])'
    <2>1. now' = now
        BY <1>5 DEF Apply
    <2>2. /\ \A v \in Worker \ {w} : todo'[v] = todo[v]
          /\ \A n \in DOMAIN todo'[w] :
                 n + 1 \in DOMAIN todo[w] /\ todo'[w][n] = todo[w][n + 1]
        BY <1>0, <1>5, Applying
    <2>3. \A j \in Informer : \A n \in DOMAIN todo'[j] :
              \E m \in DOMAIN todo[j] : todo'[j][n] = todo[j][m]
        BY <1>b, <2>2
    <2> QED
        BY <1>2, <2>1, <2>3
<1>6. CASE Later
    <2>1. \A i \in Informer : todo'[i] = <<>>
        BY <1>0, <1>6 DEF Later, CacheTypes, Informer
    <2> QED
        BY <2>1 DEF SetInTime
<1>7. CASE NextItem
    <2>1. PICK item \in list : todo' = [todo EXCEPT !["refresh"] = item]
        BY <1>7 DEF NextItem
    <2>2. now' = now /\ \A i \in Informer : todo'[i] = todo[i]
        BY <1>0, <1>7, <2>1 DEF NextItem, CacheTypes, Informer, Worker
    <2> QED
        BY <1>3, <2>2
<1>8. ASSUME UNCHANGED <<todo, now>> PROVE \A i \in Informer : SetInTime(todo[i])'
    BY <1>3, <1>8
<1> QED
    BY <1>4, <1>5, <1>6, <1>7, <1>8, PodCases
    DEF CreatePod, StartPod, StopPod, DeletePod, ChangeService, Cluster, Refresh, RefreshFails,
        StartInformers, podVars

\* What an event tells was so when it happened.
LEMMA StepTold ==
    ASSUME PodInv, [PodStep]_podVars
    PROVE  \A i \in Informer : \A n \in DOMAIN events'[i] : ToldBeforeEnd(events[i][n])'
<1>0. CacheTypes /\ NoEndYet /\ Punctual /\ CallsAreRecent
    BY DEF PodInv
<1>a. now \in Nat /\ MaxNow \in Nat /\ now <= Never
    BY <1>0, PodCacheAssumption DEF CacheTypes, Never
<1>b. \A i \in Informer : \A n \in DOMAIN events[i] :
          events[i][n] \in Watched /\ ToldBeforeEnd(events[i][n]) /\ events[i][n].at <= now
    BY <1>0 DEF CallsAreRecent, CacheTypes, Punctual
<1>1. ASSUME NEW ev \in Watched, ToldBeforeEnd(ev), ev.at <= now
      PROVE  ToldBeforeEnd(ev)'
    <2>0. ev.at \in Nat
        BY <1>a DEF Watched
    <2>1. ASSUME ev.kind = "add" PROVE (ev.at <= pods[ev.obj.pod].gone)'
        <3>1. PICK p \in Pod : p = ev.obj.pod
            BY <2>1 DEF Watched, PodObject
        <3>2. p \in CacheKey /\ p \notin ClusterIP
            BY KeysApart DEF PodKey
        <3>3. ev.at <= Ends(p, p)
            BY <1>1, <2>1, <3>1, <3>2 DEF ToldBeforeEnd, Ends
        <3>4. /\ Ends(p, p)' = Ends(p, p) \/ (Ends(p, p)' >= now' /\ now' = now)
              /\ Ends(p, p) \in Nat /\ Ends(p, p)' \in Nat
            BY <3>2, EndsNow
        <3>5. ev.at <= Ends(p, p)'
            BY <1>a, <1>1, <2>0, <3>3, <3>4
        <3> QED
            BY <3>1, <3>2, <3>5 DEF Ends
    <2>2. ASSUME ev.kind = "update", ev.obj.new # NoIP
          PROVE  (ev.at <= svcs[ev.obj.svc].left[ev.obj.new])'
        <3>1. PICK s \in Svc, ip \in ClusterIP : s = ev.obj.svc /\ ip = ev.obj.new
            BY <2>2 DEF Watched, SvcObject
        <3>2. ip \in CacheKey
            BY DEF CacheKey
        <3>3. ev.at <= Ends(ip, s)
            BY <1>1, <2>2, <3>1 DEF ToldBeforeEnd, Ends
        <3>4. /\ Ends(ip, s)' = Ends(ip, s) \/ (Ends(ip, s)' >= now' /\ now' = now)
              /\ Ends(ip, s) \in Nat /\ Ends(ip, s)' \in Nat
            BY <3>2, EndsNow
        <3>5. ev.at <= Ends(ip, s)'
            BY <1>a, <1>1, <2>0, <3>3, <3>4
        <3> QED
            BY <3>1, <3>5 DEF Ends
    <2> QED
        BY <2>1, <2>2 DEF ToldBeforeEnd
<1>2. ASSUME NEW i \in Informer, NEW ev \in Watched, Announce(i, ev),
             \A new \in Watched :
                 new.kind = ev.kind /\ new.obj = ev.obj /\ new.at = now => ToldBeforeEnd(new)'
      PROVE  \A j \in Informer : \A n \in DOMAIN events'[j] : ToldBeforeEnd(events[j][n])'
    <2>1. PICK new \in Watched :
              /\ new.kind = ev.kind /\ new.obj = ev.obj /\ new.at = now
              /\ \A j \in Informer \ {i} : events'[j] = events[j]
              /\ \A n \in DOMAIN events'[i] :
                     \/ n \in DOMAIN events[i] /\ events'[i][n] = events[i][n]
                     \/ events'[i][n] = new
        <3> DEFINE e == [ev EXCEPT !.at = now]
        <3>1. /\ e \in Watched
              /\ e.kind = ev.kind /\ e.obj = ev.obj /\ e.at = now
              /\ \A j \in Informer \ {i} : events'[j] = events[j]
              /\ \A n \in DOMAIN events'[i] :
                     \/ n \in DOMAIN events[i] /\ events'[i][n] = events[i][n]
                     \/ n = Len(events[i]) + 1 /\ events'[i][n] = e
            BY <1>0, <1>2, Announcing
        <3> HIDE DEF e
        <3> QED
            BY <3>1
    <2>2. ToldBeforeEnd(new)'
        BY <1>2, <2>1
    <2> SUFFICES ASSUME NEW j \in Informer, NEW n \in DOMAIN events'[j]
                 PROVE  ToldBeforeEnd(events[j][n])'
        OBVIOUS
    <2>3. \/ n \in DOMAIN events[j] /\ events'[j][n] = events[j][n]
          \/ events'[j][n] = new
        BY <2>1
    <2>4. CASE n \in DOMAIN events[j] /\ events'[j][n] = events[j][n]
        <3>1. PICK e \in Watched : e = events[j][n] /\ e = events'[j][n]
            BY <1>b, <2>4
        <3>2. ToldBeforeEnd(e)'
            BY <1>1, <1>b, <2>4, <3>1
        <3> QED
            BY <3>1, <3>2 DEF ToldBeforeEnd
    <2>5. CASE events'[j][n] = new
        BY <2>2, <2>5 DEF ToldBeforeEnd
    <2> QED
        BY <2>3, <2>4, <2>5
<1>3. ASSUME NEW p \in Pod, CreatePod(p)
      PROVE  \A i \in Informer : \A n \in DOMAIN events'[i] : ToldBeforeEnd(events[i][n])'
    <2>1. pods'[p].gone = Never
        BY <1>0, <1>3, PodMoves DEF NoEndYet
    <2>2. Snapshot(p).pod = p
        BY DEF Snapshot
    <2> DEFINE ev == [kind |-> "add", obj |-> Snapshot(p), at |-> 0]
    <2>3. ev \in Watched /\ Announce("pod informer", ev)
        BY <1>0, <1>3, Announcements DEF CreatePod
    <2>4. ASSUME NEW new \in Watched, new.kind = ev.kind, new.obj = ev.obj, new.at = now
          PROVE  ToldBeforeEnd(new)'
        BY <1>a, <2>1, <2>2, <2>4 DEF ToldBeforeEnd
    <2> HIDE DEF ev
    <2> QED
        BY <1>2, <2>3, <2>4 DEF Informer
<1>4. ASSUME NEW p \in Pod, NEW kind \in {"delete", "tombstone"}, DeletePod(p, kind)
      PROVE  \A i \in Informer : \A n \in DOMAIN events'[i] : ToldBeforeEnd(events[i][n])'
    <2> DEFINE ev == [kind |-> kind, obj |-> Snapshot(p), at |-> 0]
    <2>1. ev \in Watched /\ Announce("pod informer", ev)
        BY <1>0, <1>4, Announcements DEF DeletePod
    <2>2. ASSUME NEW new \in Watched, new.kind = ev.kind
          PROVE  ToldBeforeEnd(new)'
        BY <2>2 DEF ToldBeforeEnd
    <2> HIDE DEF ev
    <2> QED
        BY <1>2, <2>1, <2>2 DEF Informer
<1>5. ASSUME NEW s \in Svc, NEW ip \in ClusterIP \cup {NoIP},
             NEW tombstone \in BOOLEAN, ChangeService(s, ip, tombstone)
      PROVE  \A i \in Informer : \A n \in DOMAIN events'[i] : ToldBeforeEnd(events[i][n])'
    <2>1. ip # NoIP => svcs'[s].left[ip] = Never
        BY <1>0, <1>5, ServiceMoves
    <2> DEFINE o == [svc |-> s, old |-> IF tombstone THEN NoIP ELSE svcs[s].ip, new |-> ip]
               ev == [kind |-> "update", at |-> 0, obj |-> o]
    <2>2. o.svc = s /\ o.new = ip /\ ev.kind = "update" /\ ev.obj = o
        OBVIOUS
    <2>3. ev \in Watched /\ Announce("service informer", ev)
        BY <1>0, <1>5, Announcements DEF ChangeService
    <2> HIDE DEF ev, o
    <2>4. ASSUME NEW new \in Watched, new.kind = ev.kind, new.obj = ev.obj, new.at = now
          PROVE  ToldBeforeEnd(new)'
        BY <1>a, <2>1, <2>2, <2>4 DEF ToldBeforeEnd
    <2> QED
        BY <1>2, <2>3, <2>4 DEF Informer
<1>6. ASSUME NEW i \in Informer, HandleEvent(i)
      PROVE  \A j \in Informer : \A n \in DOMAIN events'[j] : ToldBeforeEnd(events[j][n])'
    <2>1. /\ \A j \in Informer \ {i} : events'[j] = events[j]
          /\ \A n \in DOMAIN events'[i] :
                 n + 1 \in DOMAIN events[i] /\ events'[i][n] = events[i][n + 1]
        BY <1>0, <1>6, Taking DEF HandleEvent
    <2> SUFFICES ASSUME NEW j \in Informer, NEW n \in DOMAIN events'[j]
                 PROVE  ToldBeforeEnd(events[j][n])'
        OBVIOUS
    <2>2. PICK m \in DOMAIN events[j] : events'[j][n] = events[j][m]
        BY <2>1
    <2>3. PICK e \in Watched : e = events[j][m] /\ e = events'[j][n]
        BY <1>b, <2>2
    <2>4. ToldBeforeEnd(e)'
        BY <1>1, <1>b, <2>2, <2>3
    <2> QED
        BY <2>3, <2>4 DEF ToldBeforeEnd
<1>7. ASSUME events' = events
      PROVE  \A i \in Informer : \A n \in DOMAIN events'[i] : ToldBeforeEnd(events[i][n])'
    <2> SUFFICES ASSUME NEW j \in Informer, NEW n \in DOMAIN events[j]
                 PROVE  ToldBeforeEnd(events[j][n])'
        BY <1>7
    <2>1. PICK e \in Watched : e = events[j][n] /\ e = events'[j][n]
        BY <1>b, <1>7
    <2>2. ToldBeforeEnd(e)'
        BY <1>1, <1>b, <2>1
    <2> QED
        BY <2>1, <2>2 DEF ToldBeforeEnd
<1> QED
    BY <1>3, <1>4, <1>5, <1>6, <1>7, PodCases
    DEF StartPod, StopPod, Cluster, Refresh, RefreshFails, StartInformers, NextItem, Apply,
        Later, podVars

\* An entry ends one life after what it says was so, or MaxDelay later.
LEMMA StepEntries ==
    ASSUME PodInv, [PodStep]_podVars
    PROVE  EntriesEnd'
<1>0. CacheTypes /\ Punctual /\ CallsAreRecent /\ EntriesEnd
    BY DEF PodInv
<1>a. /\ now \in Nat /\ MaxDelay \in Nat /\ since \in Nat
      /\ \A k \in CacheKey : Life(k) \in Nat /\ cache[k].until \in Int
    BY <1>0, PodCacheAssumption DEF CacheTypes, Life
<1>1. ASSUME NEW k \in CacheKey, cache[k].until # -1, cache'[k] = cache[k], now' >= now, now' \in Nat
      PROVE  (/\ cache[k].until <= now + Life(k)
              /\ cache[k].until <= Ends(k, cache[k].val) + Life(k) + MaxDelay)'
    <2>1. PICK v \in (IF k \in ClusterIP THEN Svc ELSE Pod) : v = cache[k].val
        BY <1>0, <1>1 DEF CacheTypes
    <2>2. cache[k].until <= now + Life(k) /\ cache[k].until <= Ends(k, v) + Life(k) + MaxDelay
        BY <1>0, <1>1, <2>1 DEF EntriesEnd
    <2>3. /\ Ends(k, v)' = Ends(k, v) \/ (Ends(k, v)' >= now' /\ now' = now)
          /\ Ends(k, v) \in Nat /\ Ends(k, v)' \in Nat
        BY EndsNow
    <2>4. cache[k].until <= now' + Life(k) /\ cache[k].until <= Ends(k, v)' + Life(k) + MaxDelay
        BY <1>a, <1>1, <2>2, <2>3
    <2>5. v = cache'[k].val /\ Life(k)' = Life(k)
        BY <1>1, <2>1 DEF Life
    <2> QED
        BY <1>1, <2>4, <2>5
<1>2. ASSUME cache' = cache, now' >= now, now' \in Nat PROVE EntriesEnd'
    BY <1>1, <1>2 DEF EntriesEnd
<1>3. ASSUME NEW w \in Worker, Apply(w) PROVE EntriesEnd'
    <2>0. now' = now /\ pods' = pods /\ svcs' = svcs
        BY <1>3 DEF Apply
    <2>1. PICK c \in Call :
              /\ c = todo[w][1] /\ c.key \in CacheKey /\ 1 \in DOMAIN todo[w]
              /\ cache' = [cache EXCEPT ![c.key] =
                              IF c.op = "del" THEN Empty
                              ELSE [val |-> c.val, until |-> now + c.ttl]]
        BY <1>0, <1>3, Applying
    <2> SUFFICES ASSUME NEW k \in CacheKey, cache'[k].until # -1
                 PROVE  (/\ cache[k].until <= now + Life(k)
                         /\ cache[k].until <= Ends(k, cache[k].val) + Life(k) + MaxDelay)'
        BY DEF EntriesEnd
    <2>2. CASE k # c.key
        <3>1. cache'[k] = cache[k]
            BY <1>0, <2>1, <2>2 DEF CacheTypes
        <3> QED
            BY <1>1, <1>a, <2>0, <3>1
    <2>3. CASE k = c.key
        <3>1. cache'[k] = IF c.op = "del" THEN Empty ELSE [val |-> c.val, until |-> now + c.ttl]
            BY <1>0, <2>1, <2>3 DEF CacheTypes
        <3>2. c.op # "del"
            BY <3>1 DEF Empty
        <3>3. c.op = "set"
            BY <3>2 DEF Call, PodSet, SvcSet
        <3>4. c.ttl = Life(k) /\ Ends(k, c.val) \in Nat
            BY <2>3, <3>3, SetCall
        <3>5. cache'[k].val = c.val /\ cache'[k].until = now + Life(k)
            BY <3>1, <3>2, <3>4
        <3>6. now <= Ends(k, c.val) + MaxDelay
            <4>1. CASE w = "refresh"
                <5>1. since <= Ends(k, c.val)
                    BY <1>0, <2>1, <2>3, <3>3, <4>1 DEF CallsAreRecent, ListedBeforeEnd
                <5>2. now <= since + MaxDelay
                    BY <1>0, <1>3, <4>1 DEF Punctual, Applied, Apply
                <5> QED
                    BY <1>a, <3>4, <5>1, <5>2
            <4>2. CASE w # "refresh"
                <5>1. w \in Informer
                    BY <4>2 DEF Worker, Informer
                <5> QED
                    BY <1>0, <2>1, <2>3, <3>3, <5>1 DEF CallsAreRecent, SetInTime
            <4> QED
                BY <4>1, <4>2
        <3>7. Ends(k, c.val)' = Ends(k, c.val) /\ Life(k)' = Life(k)
            BY <2>0 DEF Ends, Life
        <3>8. now + Life(k) <= Ends(k, c.val) + Life(k) + MaxDelay
            BY <1>a, <3>4, <3>6
        <3> QED
            BY <1>a, <2>0, <3>5, <3>7, <3>8
    <2> QED
        BY <2>2, <2>3
<1>4. CASE Later
    <2>1. cache' = cache /\ now' = now + 1
        BY <1>4 DEF Later
    <2> QED
        BY <1>2, <1>a, <2>1
<1>5. ASSUME UNCHANGED <<cache, now>> PROVE EntriesEnd'
    BY <1>2, <1>a, <1>5
<1> QED
    BY <1>3, <1>4, <1>5, PodCases
    DEF CreatePod, StartPod, StopPod, DeletePod, ChangeService, Cluster, HandleEvent, Refresh,
        RefreshFails, StartInformers, NextItem, podVars

\* The caches and the queues are empty at the start.
LEMMA InitPodInv ==
    ASSUME NEW lists, PodInit(lists)
    PROVE  PodInv
<1>a. MaxNow \in Nat /\ Never = MaxNow + 1 /\ MaxDelay \in Nat
    BY PodCacheAssumption DEF Never
<1>1. CacheTypes
    <2>1. 0 \in 0 .. MaxNow /\ 0 \in 0 .. 0 /\ Never \in 0 .. Never /\ -1 \in Int
        BY <1>a
    <2>2. <<>> \in Seq(Watched) /\ <<>> \in Seq(Call)
        OBVIOUS
    <2>3. /\ pods \in [Pod -> [phase : Phase, ip : PodIP \cup {NoIP}, gone : 0 .. Never]]
          /\ svcs \in [Svc -> [ip : ClusterIP \cup {NoIP}, left : [ClusterIP -> 0 .. Never]]]
        BY <2>1 DEF PodInit, Phase
    <2>4. /\ events \in [Informer -> Seq(Watched)] /\ todo \in [Worker -> Seq(Call)]
          /\ list \in SUBSET Seq(Call) /\ now \in 0 .. MaxNow /\ since \in 0 .. now
        BY <2>1, <2>2 DEF PodInit, Informer
    <2>5. /\ cache \in [CacheKey -> [val : Pod \cup Svc \cup {NoIP}, until : Int]]
          /\ \A k \in CacheKey : cache[k].until = -1
        BY <2>1 DEF PodInit, Empty
    <2> QED
        BY <2>3, <2>4, <2>5 DEF CacheTypes
<1>2. NoEndYet
    BY DEF NoEndYet, PodInit
<1>b. /\ \A i \in Informer : events[i] = <<>> /\ todo[i] = <<>>
      /\ todo["refresh"] = <<>> /\ list = {}
    BY DEF PodInit, Informer, Worker
<1>c. \A n \in DOMAIN <<>> : FALSE
    OBVIOUS
<1>3. Punctual
    <2>1. Applied
        BY <1>b DEF Applied
    <2> QED
        BY <1>b, <1>c, <2>1 DEF Punctual
<1>4. CallsAreRecent
    BY <1>b, <1>c DEF CallsAreRecent, ListedBeforeEnd, SetInTime
<1>5. EntriesEnd
    BY DEF EntriesEnd, PodInit, Empty
<1> QED
    BY <1>1, <1>2, <1>3, <1>4, <1>5 DEF PodInv

\* A pod that was deleted, or a cluster IP that a service has left, is found for
\* at most one life of an entry and MaxDelay, in whatever order the handlers of
\* the informers and the refresh make their Set and Delete calls.
THEOREM GoneIsForgotten == PodSpec => []StaleBounded
<1>1. PodInv /\ [PodStep]_podVars => PodInv'
    BY StepCacheTypes, StepNoEnd, StepPunctual, StepListed, StepSetInTime, StepTold, StepEntries
    DEF PodInv, CallsAreRecent
<1>2. PodInv => StaleBounded
    <2> SUFFICES ASSUME PodInv PROVE StaleBounded
        OBVIOUS
    <2>0. /\ now \in Nat /\ MaxDelay \in Nat /\ PodTtl \in Nat /\ SvcTtl \in Nat
          /\ \A k \in CacheKey : cache[k].until \in Int
        BY PodCacheAssumption DEF PodInv, CacheTypes
    <2>1. ASSUME NEW p \in Pod, NEW k \in PodKey, Found(k), cache[k].val = p
          PROVE  now < pods[p].gone + PodTtl + MaxDelay
        <3>1. k \in CacheKey /\ k \notin ClusterIP
            BY KeysApart
        <3>2. cache[k].until > now /\ cache[k].until # -1
            BY <2>0, <2>1, <3>1 DEF Found
        <3>3. cache[k].until <= pods[p].gone + PodTtl + MaxDelay
            BY <2>1, <3>1, <3>2 DEF PodInv, EntriesEnd, Ends, Life
        <3>4. pods[p].gone \in Int
            BY PodCacheAssumption DEF PodInv, CacheTypes, Never
        <3> QED
            BY <2>0, <3>1, <3>2, <3>3, <3>4
    <2>2. ASSUME NEW s \in Svc, NEW ip \in ClusterIP, Found(ip), cache[ip].val = s
          PROVE  now < svcs[s].left[ip] + SvcTtl + MaxDelay
        <3>1. ip \in CacheKey
            BY DEF CacheKey
        <3>2. cache[ip].until > now /\ cache[ip].until # -1
            BY <2>0, <2>2, <3>1 DEF Found
        <3>3. cache[ip].until <= svcs[s].left[ip] + SvcTtl + MaxDelay
            BY <2>2, <3>1, <3>2 DEF PodInv, EntriesEnd, Ends, Life
        <3>4. svcs[s].left[ip] \in Int
            BY PodCacheAssumption DEF PodInv, CacheTypes, Never
        <3> QED
            BY <2>0, <3>1, <3>2, <3>3, <3>4
    <2> QED
        BY <2>1, <2>2 DEF StaleBounded, PodKey
<1>3. (\E lists \in SUBSET {"pods", "services"} : PodInit(lists)) => PodInv
    BY InitPodInv
<1> QED
    BY <1>1, <1>2, <1>3, PTL DEF PodSpec, PodStep

-----------------------------------------------------------------------------
(***************************************************************************)
(* The process cache and the OOM events.                                   *)
(***************************************************************************)

OomSpec == OomInit /\ [][Lives \/ ProcNext \/ KillNext]_oomVars

-----------------------------------------------------------------------------
(* The inductive invariants.                                               *)

SysReader == [step : 0 .. 3, key : Pid \cup {None}, val : UID \cup {None, "system"}]

ProcTypes ==
    /\ proc \in [Pid -> UID \cup {None}]
    /\ starts \in [Pid -> Nat]
    /\ kprobe_sysctl_map \in [Pid -> {TRUE, None}]
    /\ sysReader \in SysReader
    /\ sysReader.step > 0 => sysReader.key \in Pid
    /\ refresher \in [pid : Pid, val : UID] \cup {None}
    /\ sysCtlCache \in [Pid -> UID \cup {None, "system"}]
    /\ cloned \subseteq Pid
    /\ raced \subseteq Pid

\* What the refresh has read of a process is its pod, unless it died since.
RefreshIsCurrent ==
    refresher # None =>
        /\ refresher.val # None
        /\ refresher.val = proc[refresher.pid] \/ refresher.pid \in raced

\* A live process that has called clone has an entry that waits, or the reader
\* is at it and what it has read is current, or the cache has its pod.
Working(p) ==
    /\ sysReader.step > 0 /\ sysReader.key = p
    /\ sysReader.step = 3 => sysReader.val = proc[p]

InCache(p) ==
    /\ ~(sysReader.step > 0 /\ sysReader.key = p)
    /\ sysCtlCache[p] = proc[p]

KnownInv ==
    /\ \A p \in cloned : proc[p] # None
    /\ \A p \in cloned \ raced : kprobe_sysctl_map[p] # None \/ Working(p) \/ InCache(p)

ProcInv == ProcTypes /\ RefreshIsCurrent /\ KnownInv

KillTypes ==
    /\ probe \in [pc : {"none", "inserted", "found"}, pid : Pid \cup {None}, slot : BOOLEAN]
    /\ oom_map \in [Pid -> Event \cup {None}]
    /\ oomReader \in ReadEvent \cup {None}
    /\ oomCh \in Seq(Event)
    /\ kills \in Seq(Pid)
    /\ torn \subseteq Nat
    /\ refused \subseteq Nat
    /\ settled \subseteq [kill : Nat, pid : Pid \cup {0}]

\* Where the probe is, and what it and the reader may rely on: nobody but the
\* reader deletes, so that the entry it has read is there until it does.
ProbeState ==
    /\ probe.pc # "none" =>
           /\ kills # <<>> /\ probe.pid = kills[Kill] /\ probe.pid \in Pid
    /\ probe.pc = "found" /\ probe.slot => oom_map[probe.pid] # None
    /\ oomReader # None /\ ~oomReader.deleted => oom_map[oomReader.key] # None

\* An event holds the pid that is its key, or none yet.
OwnPid ==
    /\ \A p \in Pid : oom_map[p] # None => oom_map[p].pid \in {0, p}
    /\ oomReader # None => oomReader.ev.pid \in {0, oomReader.key}

Ours(ev, i, p) == i \in ev.ids /\ ev.pid = p

InChannel(q, i, p) == \E n \in DOMAIN q : Ours(q[n], i, p)

LookedUp(S, i, p) == \E s \in S : s.kill = i /\ s.pid = p

\* The kill i of process p has an event that is complete.
Placed(i, p) ==
    \/ oom_map[p] # None /\ Ours(oom_map[p], i, p)
    \/ oomReader # None /\ Ours(oomReader.ev, i, p)
    \/ InChannel(oomCh, i, p)
    \/ LookedUp(settled, i, p)

\* The event of the kill the probe is at, which the probe is about to complete.
Open(i, p) ==
    /\ i = Kill
    /\ probe.pc = "inserted" \/ (probe.pc = "found" /\ probe.slot)
    /\ oom_map[p] # None /\ i \in oom_map[p].ids

EventPlaced ==
    \A i \in 1 .. Kill :
        i \in torn \/ i \in refused \/ Placed(i, kills[i]) \/ Open(i, kills[i])

KillInv == KillTypes /\ ProbeState /\ OwnPid /\ EventPlaced

-----------------------------------------------------------------------------
(* Updates of a map.                                                       *)

\* An update of a map leaves the other keys alone, and sets its own when there
\* is room.
LEMMA Update ==
    ASSUME NEW K, NEW V, NEW map \in [K -> V \cup {None}], NEW k \in K, NEW v \in V, NEW max
    PROVE  /\ UpdateElem(map, k, v, max) \in [K -> V \cup {None}]
           /\ \A x \in K : x # k => UpdateElem(map, k, v, max)[x] = map[x]
           /\ Fits(map, k, max) => UpdateElem(map, k, v, max)[k] = v
           /\ ~Fits(map, k, max) => UpdateElem(map, k, v, max) = map
<1>1. CASE Fits(map, k, max)
    BY <1>1 DEF UpdateElem
<1>2. CASE ~Fits(map, k, max)
    BY <1>2 DEF UpdateElem
<1> QED
    BY <1>1, <1>2

-----------------------------------------------------------------------------
(* The process cache.                                                      *)

\* Where the steps of WatchKprobeSysClone lead, call by call.
LEMMA SysCases ==
    ASSUME ProcTypes, SysStep
    PROVE  LET r == sysReader
           IN  \/ /\ r.step = 1 /\ r.key \in Pid
                  /\ kprobe_sysctl_map' = [kprobe_sysctl_map EXCEPT ![r.key] = None]
                  /\ sysReader' = [r EXCEPT !.step = 2]
                  /\ sysCtlCache' = sysCtlCache
               \/ /\ r.step = 2 /\ r.key \in Pid
                  /\ kprobe_sysctl_map' = kprobe_sysctl_map
                  /\ sysReader' = [r EXCEPT !.step = 3, !.val = CgroupOf(r.key)]
                  /\ sysCtlCache' = sysCtlCache
               \/ /\ r.step = 3 /\ r.key \in Pid
                  /\ kprobe_sysctl_map' = kprobe_sysctl_map
                  /\ sysReader' = Waiting
                  /\ sysCtlCache' = [sysCtlCache EXCEPT ![r.key] = r.val]
<1>0. sysReader \in SysReader /\ sysReader.key \in Pid
    BY DEF ProcTypes, SysStep
<1>1. sysReader.step \in {1, 2, 3}
    BY <1>0 DEF SysStep, SysReader
<1>2. SysCalls[1] = "delete" /\ SysCalls[2] = "read" /\ SysCalls[3] = "update"
    BY DEF SysCalls
<1>3. CASE sysReader.step = 1
    <2>1. \A n : [sysReader EXCEPT !.step = n, !.val = sysReader.val] = [sysReader EXCEPT !.step = n]
        BY <1>0 DEF SysReader
    <2>2. sysReader' = [sysReader EXCEPT !.step = 2]
        <3>1. sysReader' = [sysReader EXCEPT !.step = sysReader.step + 1, !.val = sysReader.val]
            BY <1>2, <1>3 DEF SysStep
        <3>2. sysReader.step + 1 = 2
            BY <1>3
        <3> QED
            BY <2>1, <3>1, <3>2, Zenon
    <2>3. /\ kprobe_sysctl_map' = [kprobe_sysctl_map EXCEPT ![sysReader.key] = None]
          /\ sysCtlCache' = sysCtlCache
        BY <1>2, <1>3 DEF SysStep, DeleteElem
    <2> QED
        BY <1>0, <1>3, <2>1, <2>2, <2>3
<1>4. CASE sysReader.step = 2
    BY <1>0, <1>2, <1>4 DEF SysStep, SysReader
<1>5. CASE sysReader.step = 3
    BY <1>0, <1>2, <1>5 DEF SysStep, SysReader
<1> QED
    BY <1>1, <1>3, <1>4, <1>5

\* At the start no process has called clone and the cache is empty.
LEMMA ProcInit == OomInit => ProcInv
BY DEF OomInit, ProcInv, ProcTypes, SysReader, Waiting, RefreshIsCurrent, KnownInv

\* Every step of a process, of the probes and of the readers keeps the types.
LEMMA ProcStepTypes ==
    ASSUME ProcTypes, Lives \/ ProcNext \/ KillNext \/ UNCHANGED oomVars
    PROVE  ProcTypes'
<1>1. ASSUME NEW p \in Pid, NEW u \in UID, StartProcess(p, u) PROVE ProcTypes'
    <2>1. starts[p] + 1 \in Nat
        BY DEF ProcTypes
    <2>2. starts' \in [Pid -> Nat]
        BY <1>1, <2>1 DEF StartProcess, ProcTypes
    <2> QED
        BY <1>1, <2>2 DEF StartProcess, ProcTypes
<1>2. ASSUME NEW p \in Pid, ExitProcess(p) PROVE ProcTypes'
    BY <1>2 DEF ExitProcess, ProcTypes
<1>3. ASSUME NEW p \in Pid, Clone(p) PROVE ProcTypes'
    <2>1. kprobe_sysctl_map' \in [Pid -> {TRUE} \cup {None}]
        <3>1. kprobe_sysctl_map \in [Pid -> {TRUE} \cup {None}]
            BY DEF ProcTypes
        <3> QED
            BY <1>3, <3>1, Update DEF Clone
    <2> QED
        BY <1>3, <2>1 DEF Clone, ProcTypes
<1>4. ASSUME NEW p \in Pid, SysNext(p) PROVE ProcTypes'
    <2>1. sysReader' \in SysReader
        BY <1>4 DEF SysNext, SysReader
    <2> QED
        BY <1>4, <2>1 DEF SysNext, ProcTypes
<1>5. ASSUME NEW p \in Pid, RefreshRead(p) PROVE ProcTypes'
    <2>1. refresher' \in [pid : Pid, val : UID]
        BY <1>5 DEF RefreshRead, ProcTypes
    <2> QED
        BY <1>5, <2>1 DEF RefreshRead, ProcTypes
<1>6. ASSUME NEW p \in Pid, SysExpire(p) PROVE ProcTypes'
    BY <1>6 DEF SysExpire, ProcTypes
<1>7. CASE SysStep
    <2>1. sysReader \in SysReader
        BY DEF ProcTypes
    <2>2. sysReader' \in SysReader /\ (sysReader'.step > 0 => sysReader'.key \in Pid)
        <3>1. sysReader.key \in Pid /\ CgroupOf(sysReader.key) \in UID \cup {None, "system"}
            BY <1>7, SysCases DEF CgroupOf, ProcTypes
        <3>2. \/ sysReader' = [sysReader EXCEPT !.step = 2]
              \/ sysReader' = [sysReader EXCEPT !.step = 3, !.val = CgroupOf(sysReader.key)]
              \/ sysReader' = Waiting
            BY <1>7, SysCases
        <3>3. CASE sysReader' = [sysReader EXCEPT !.step = 2]
            BY <2>1, <3>1, <3>3 DEF SysReader
        <3>4. CASE sysReader' = [sysReader EXCEPT !.step = 3, !.val = CgroupOf(sysReader.key)]
            <4> DEFINE c == CgroupOf(sysReader.key)
            <4>1. c \in UID \cup {None, "system"}
                BY <3>1
            <4>2. sysReader' = [sysReader EXCEPT !.step = 3, !.val = c]
                BY <3>4
            <4> HIDE DEF c
            <4>3. sysReader' = [step |-> 3, key |-> sysReader.key, val |-> c]
                BY <2>1, <4>2 DEF SysReader
            <4> QED
                BY <3>1, <4>1, <4>3 DEF SysReader
        <3>5. CASE sysReader' = Waiting
            BY <3>5 DEF SysReader, Waiting
        <3> QED
            BY <3>2, <3>3, <3>4, <3>5
    <2>3. kprobe_sysctl_map' \in [Pid -> {TRUE, None}]
        BY <1>7, SysCases DEF ProcTypes
    <2>4. sysCtlCache' \in [Pid -> UID \cup {None, "system"}]
        <3>1. sysReader.val \in UID \cup {None, "system"}
            BY <2>1 DEF SysReader
        <3> QED
            BY <1>7, <3>1, SysCases DEF ProcTypes
    <2> QED
        BY <1>7, <2>2, <2>3, <2>4 DEF SysStep, ProcTypes
<1>8. CASE RefreshSet
    BY <1>8 DEF RefreshSet, ProcTypes
<1>9. CASE KillNext \/ UNCHANGED oomVars
    <2>1. UNCHANGED procVars
        BY <1>9 DEF KillNext, OomInsert, OomNext, OomLookup, OomFill, OomDelete, OomSend,
            OomHandle, oomVars
    <2> QED
        BY <2>1 DEF procVars, ProcTypes
<1> QED
    BY <1>1, <1>2, <1>3, <1>4, <1>5, <1>6, <1>7, <1>8, <1>9 DEF Lives, ProcNext

\* The refresh holds the pod of a process, or the process has died meanwhile.
LEMMA StepRefresh ==
    ASSUME ProcTypes, RefreshIsCurrent, Lives \/ ProcNext \/ KillNext \/ UNCHANGED oomVars
    PROVE  RefreshIsCurrent'
<1>0. refresher # None => refresher \in [pid : Pid, val : UID]
    BY DEF ProcTypes
<1>1. ASSUME NEW p \in Pid, NEW u \in UID, StartProcess(p, u) PROVE RefreshIsCurrent'
    BY <1>0, <1>1 DEF StartProcess, ProcTypes, RefreshIsCurrent
<1>2. ASSUME NEW p \in Pid, ExitProcess(p) PROVE RefreshIsCurrent'
    BY <1>0, <1>2 DEF ExitProcess, ProcTypes, RefreshIsCurrent
<1>3. ASSUME NEW p \in Pid, RefreshRead(p) PROVE RefreshIsCurrent'
    BY <1>3 DEF RefreshRead, ProcTypes, RefreshIsCurrent
<1>4. CASE RefreshSet
    BY <1>4 DEF RefreshSet, RefreshIsCurrent
<1>5. ASSUME UNCHANGED <<refresher, proc, raced>> PROVE RefreshIsCurrent'
    BY <1>5 DEF RefreshIsCurrent
<1>6. ASSUME NEW p \in Pid, Clone(p) \/ SysNext(p) \/ SysExpire(p)
      PROVE  UNCHANGED <<refresher, proc, raced>>
    BY <1>6 DEF Clone, SysNext, SysExpire
<1>7. SysStep => UNCHANGED <<refresher, proc, raced>>
    BY DEF SysStep
<1>8. KillNext \/ UNCHANGED oomVars => UNCHANGED <<refresher, proc, raced>>
    BY DEF KillNext, OomInsert, OomNext, OomLookup, OomFill, OomDelete, OomSend,
        OomHandle, oomVars, procVars
<1> QED
    BY <1>1, <1>2, <1>3, <1>4, <1>5, <1>6, <1>7, <1>8 DEF Lives, ProcNext

\* A process that has called clone is on its way into the cache or there.
LEMMA StepKnown ==
    ASSUME ProcInv, Lives \/ ProcNext \/ KillNext \/ UNCHANGED oomVars
    PROVE  KnownInv'
<1>0. ProcTypes /\ RefreshIsCurrent /\ KnownInv
    BY DEF ProcInv
<1> USE DEF KnownInv, Working, InCache
<1>1. ASSUME NEW p \in Pid, NEW u \in UID, StartProcess(p, u) PROVE KnownInv'
    BY <1>0, <1>1 DEF StartProcess, ProcTypes
<1>2. ASSUME NEW p \in Pid, ExitProcess(p) PROVE KnownInv'
    BY <1>0, <1>2 DEF ExitProcess, ProcTypes
<1>3. ASSUME NEW p \in Pid, Clone(p) PROVE KnownInv'
    <2>1. kprobe_sysctl_map \in [Pid -> {TRUE} \cup {None}]
        BY <1>0 DEF ProcTypes
    <2>2. /\ \A x \in Pid : x # p => kprobe_sysctl_map'[x] = kprobe_sysctl_map[x]
          /\ Fits(kprobe_sysctl_map, p, SysMax) => kprobe_sysctl_map'[p] = TRUE
          /\ ~Fits(kprobe_sysctl_map, p, SysMax) => kprobe_sysctl_map' = kprobe_sysctl_map
        <3>1. kprobe_sysctl_map' = UpdateElem(kprobe_sysctl_map, p, TRUE, SysMax)
            BY <1>3 DEF Clone
        <3> QED
            BY <2>1, <3>1 DEF UpdateElem
    <2>3. UNCHANGED <<proc, sysReader, sysCtlCache, raced>> /\ proc[p] # None
        BY <1>3 DEF Clone
    <2>4. None # TRUE
        BY NoneIsNoEntry
    <2>5. CASE Fits(kprobe_sysctl_map, p, SysMax)
        <3>1. cloned' = cloned \cup {p}
            BY <1>3, <2>5 DEF Clone
        <3> QED
            BY <1>0, <2>2, <2>3, <2>4, <2>5, <3>1 DEF ProcTypes
    <2>6. CASE ~Fits(kprobe_sysctl_map, p, SysMax)
        <3>1. cloned' = cloned
            BY <1>3, <2>6 DEF Clone
        <3> QED
            BY <1>0, <2>2, <2>3, <2>6, <3>1 DEF ProcTypes
    <2> QED
        BY <2>5, <2>6
<1>4. ASSUME NEW p \in Pid, SysNext(p) PROVE KnownInv'
    BY <1>0, <1>4 DEF SysNext, ProcTypes
<1>5. ASSUME NEW p \in Pid, RefreshRead(p) PROVE KnownInv'
    BY <1>0, <1>5 DEF RefreshRead
<1>6. ASSUME NEW p \in Pid, SysExpire(p) PROVE KnownInv'
    BY <1>0, <1>6 DEF SysExpire, ProcTypes
<1>7. CASE SysStep
    <2>0. UNCHANGED <<proc, cloned, raced>> /\ sysReader \in SysReader
        BY <1>0, <1>7 DEF SysStep, ProcTypes
    <2>1. PICK k \in Pid : k = sysReader.key
        BY <1>0, <1>7, SysCases
    <2>2. CASE sysReader.step = 1
        <3>1. /\ kprobe_sysctl_map' = [kprobe_sysctl_map EXCEPT ![k] = None]
              /\ sysReader' = [sysReader EXCEPT !.step = 2]
              /\ sysCtlCache' = sysCtlCache
            BY <1>0, <1>7, <2>1, <2>2, SysCases
        <3> QED
            BY <1>0, <2>0, <2>1, <2>2, <3>1 DEF ProcTypes, SysReader
    <2>3. CASE sysReader.step = 2
        <3>1. /\ kprobe_sysctl_map' = kprobe_sysctl_map
              /\ sysReader' = [sysReader EXCEPT !.step = 3, !.val = CgroupOf(k)]
              /\ sysCtlCache' = sysCtlCache
            BY <1>0, <1>7, <2>1, <2>3, SysCases
        <3>2. k \in cloned => CgroupOf(k) = proc[k]
            BY <1>0 DEF CgroupOf
        <3> QED
            BY <1>0, <2>0, <2>1, <2>3, <3>1, <3>2 DEF ProcTypes, SysReader
    <2>4. CASE sysReader.step = 3
        <3>1. /\ kprobe_sysctl_map' = kprobe_sysctl_map
              /\ sysReader' = Waiting
              /\ sysCtlCache' = [sysCtlCache EXCEPT ![k] = sysReader.val]
            BY <1>0, <1>7, <2>1, <2>4, SysCases
        <3> QED
            BY <1>0, <2>0, <2>1, <2>4, <3>1 DEF ProcTypes, SysReader, Waiting
    <2> QED
        BY <1>0, <1>7, <2>2, <2>3, <2>4, SysCases
<1>8. CASE RefreshSet
    <2>1. refresher.pid \in Pid /\ (refresher.val = proc[refresher.pid] \/ refresher.pid \in raced)
        BY <1>0, <1>8 DEF RefreshSet, RefreshIsCurrent, ProcTypes
    <2> QED
        BY <1>0, <1>8, <2>1 DEF RefreshSet, ProcTypes
<1>9. CASE KillNext \/ UNCHANGED oomVars
    <2>1. UNCHANGED procVars
        BY <1>9 DEF KillNext, OomInsert, OomNext, OomLookup, OomFill, OomDelete, OomSend,
            OomHandle, oomVars
    <2> QED
        BY <1>0, <2>1 DEF procVars
<1> QED
    BY <1>1, <1>2, <1>3, <1>4, <1>5, <1>6, <1>7, <1>8, <1>9 DEF Lives, ProcNext

\* A process that has called clone and whose entry has been worked off is known
\* by the pod it runs in, through any reuse of its pid that the hourly refresh
\* did not run across.
THEOREM ProcessesKnown == OomSpec => []ProcessKnown
<1>1. ProcInv /\ [Lives \/ ProcNext \/ KillNext]_oomVars => ProcInv'
    BY ProcStepTypes, StepRefresh, StepKnown DEF ProcInv
<1>2. ProcInv => ProcessKnown
    BY DEF ProcInv, KnownInv, Working, InCache, ProcessKnown
<1> QED
    BY <1>1, <1>2, ProcInit, PTL DEF OomSpec

-----------------------------------------------------------------------------
(* OOM events.                                                             *)

\* An event is put at the end of the channel and taken from its front.
LEMMA ChannelAppend ==
    ASSUME NEW q \in Seq(Event), NEW e \in Event, NEW i, NEW p
    PROVE  InChannel(q, i, p) \/ Ours(e, i, p) => InChannel(Append(q, e), i, p)
<1>1. ASSUME InChannel(q, i, p) PROVE InChannel(Append(q, e), i, p)
    <2>1. PICK n \in DOMAIN q : Ours(q[n], i, p)
        BY <1>1 DEF InChannel
    <2>2. n \in DOMAIN Append(q, e) /\ Append(q, e)[n] = q[n]
        OBVIOUS
    <2> QED
        BY <2>1, <2>2 DEF InChannel
<1>2. ASSUME Ours(e, i, p) PROVE InChannel(Append(q, e), i, p)
    <2>1. Len(q) + 1 \in DOMAIN Append(q, e) /\ Append(q, e)[Len(q) + 1] = e
        OBVIOUS
    <2> QED
        BY <1>2, <2>1 DEF InChannel
<1> QED
    BY <1>1, <1>2

\* watchForOoms receives the first event; the others keep waiting.
LEMMA ChannelTail ==
    ASSUME NEW q \in Seq(Event), q # <<>>, NEW i, NEW p, InChannel(q, i, p)
    PROVE  Ours(Head(q), i, p) \/ InChannel(Tail(q), i, p)
<1>1. PICK n \in DOMAIN q : Ours(q[n], i, p)
    BY DEF InChannel
<1>2. CASE n = 1
    BY <1>1, <1>2
<1>3. CASE n # 1
    <2>1. n - 1 \in DOMAIN Tail(q) /\ Tail(q)[n - 1] = q[n]
        BY <1>3
    <2> QED
        BY <1>1, <2>1 DEF InChannel
<1> QED
    BY <1>2, <1>3

\* BPF_NOEXIST: the event that waits is kept and now also stands for this kill;
\* otherwise an empty one is put in when there is room.
LEMMA Inserted ==
    ASSUME KillTypes, NEW p \in Pid
    PROVE  LET m == OomMapAfterInsert(p)
           IN  /\ m \in [Pid -> Event \cup {None}]
               /\ \A x \in Pid : x # p => m[x] = oom_map[x]
               /\ oom_map[p] # None =>
                      /\ m[p] \in Event
                      /\ m[p].pid = oom_map[p].pid /\ oom_map[p].ids \subseteq m[p].ids
               /\ oom_map[p] = None /\ m[p] # None => m[p].pid = 0
               /\ Fits(oom_map, p, OomMax) => m[p] # None /\ Kill + 1 \in m[p].ids
<1>0. oom_map \in [Pid -> Event \cup {None}] /\ Kill + 1 \in Nat
    BY DEF KillTypes, Kill
<1>1. CASE oom_map[p] # None
    <2>1. oom_map[p] \in Event
        BY <1>0, <1>1
    <2> DEFINE e == [oom_map[p] EXCEPT !.ids = @ \cup {Kill + 1}]
    <2>2. /\ e \in Event /\ e.pid = oom_map[p].pid
          /\ oom_map[p].ids \subseteq e.ids /\ Kill + 1 \in e.ids
        BY <1>0, <2>1 DEF Event
    <2>3. OomMapAfterInsert(p) = [oom_map EXCEPT ![p] = e]
        BY <1>1 DEF OomMapAfterInsert
    <2>4. e # None
        BY <2>2, NoneIsNoEntry
    <2> HIDE DEF e
    <2> QED
        BY <1>0, <1>1, <2>2, <2>3, <2>4
<1>2. CASE oom_map[p] = None
    <2> DEFINE e == [pid |-> 0, ids |-> {Kill + 1}]
    <2>1. e \in Event /\ e.pid = 0 /\ Kill + 1 \in e.ids
        BY <1>0 DEF Event
    <2>2. OomMapAfterInsert(p) = UpdateElem(oom_map, p, e, OomMax)
        BY <1>2 DEF OomMapAfterInsert
    <2>3. e # None
        BY <2>1, NoneIsNoEntry
    <2> HIDE DEF e
    <2> QED
        BY <1>0, <1>2, <2>1, <2>2, <2>3 DEF UpdateElem
<1> QED
    BY <1>1, <1>2

\* The probe's second insert, when the event of the kill is gone.
LEMMA Reinserted ==
    ASSUME KillTypes, ProbeState, probe.pc = "inserted", oom_map[probe.pid] = None, OomLookup
    PROVE  /\ oom_map' \in [Pid -> Event \cup {None}]
           /\ \A x \in Pid : x # probe.pid => oom_map'[x] = oom_map[x]
           /\ oom_map'[probe.pid] # None => oom_map'[probe.pid].pid = 0
           /\ probe' = NoProbe
<1>0. oom_map \in [Pid -> Event \cup {None}] /\ Kill \in Nat /\ probe.pid \in Pid
    BY DEF KillTypes, Kill, ProbeState
<1> DEFINE e == [pid |-> 0, ids |-> {Kill}]
<1>1. e \in Event /\ e.pid = 0
    BY <1>0 DEF Event
<1>2. oom_map' = UpdateElem(oom_map, probe.pid, e, OomMax) /\ probe' = NoProbe
    BY DEF OomLookup
<1> HIDE DEF e
<1> QED
    BY <1>0, <1>1, <1>2 DEF UpdateElem

\* s->pid = pid completes the event in the entry that the probe has found.
LEMMA Filled ==
    ASSUME KillTypes, ProbeState, OomFill, probe.slot
    PROVE  /\ oom_map' \in [Pid -> Event \cup {None}]
           /\ \A x \in Pid : x # probe.pid => oom_map'[x] = oom_map[x]
           /\ oom_map'[probe.pid] # None
           /\ oom_map'[probe.pid].pid = probe.pid
           /\ oom_map'[probe.pid].ids = oom_map[probe.pid].ids
<1>0. oom_map \in [Pid -> Event \cup {None}] /\ probe.pid \in Pid
    BY DEF KillTypes, ProbeState, OomFill
<1>1. oom_map[probe.pid] \in Event
    BY <1>0 DEF ProbeState, OomFill
<1> DEFINE e == [oom_map[probe.pid] EXCEPT !.pid = probe.pid]
<1>2. e \in Event /\ e.pid = probe.pid /\ e.ids = oom_map[probe.pid].ids
    BY <1>0, <1>1 DEF Event
<1>3. oom_map' = [oom_map EXCEPT ![probe.pid] = e]
    BY DEF OomFill
<1>4. e # None
    BY <1>2, NoneIsNoEntry
<1> HIDE DEF e
<1> QED
    BY <1>0, <1>2, <1>3, <1>4

\* WatchOOM deletes the event that it has read: the kills it stands for by then
\* go on with it, or were read too early.
LEMMA Deleted ==
    ASSUME KillTypes, ProbeState, OomDelete
    PROVE  LET k == oomReader.key
           IN  /\ k \in Pid /\ oomReader \in ReadEvent
               /\ oom_map[k] \in Event
               /\ oom_map' = [oom_map EXCEPT ![k] = None]
               /\ oomReader' \in ReadEvent /\ oomReader' # None
               /\ oomReader'.key = k /\ oomReader'.deleted
               /\ oomReader'.ev.pid = oomReader.ev.pid
               /\ oomReader'.ev.ids = oomReader.ev.ids \cup oom_map[k].ids
               /\ oomReader.ev.pid = 0 => oom_map[k].ids \subseteq torn'
               /\ torn \subseteq torn' /\ torn' \subseteq Nat
<1>0. oomReader \in ReadEvent /\ oom_map \in [Pid -> Event \cup {None}] /\ torn \subseteq Nat
    BY DEF KillTypes, OomDelete
<1>1. oomReader.key \in Pid /\ oomReader.ev \in Event /\ DOMAIN oomReader = {"key", "ev", "deleted"}
    BY <1>0 DEF ReadEvent
<1>2. oom_map[oomReader.key] \in Event
    BY <1>0, <1>1 DEF ProbeState, OomDelete
<1> DEFINE ids == oomReader.ev.ids \cup oom_map[oomReader.key].ids
           e == [oomReader.ev EXCEPT !.ids = ids]
<1>3. e \in Event /\ e.pid = oomReader.ev.pid /\ e.ids = ids /\ oom_map[oomReader.key].ids \subseteq Nat
    BY <1>1, <1>2 DEF Event
<1>4. oomReader' = [oomReader EXCEPT !.deleted = TRUE, !.ev = e]
    BY DEF OomDelete
<1>5. /\ oom_map' = [oom_map EXCEPT ![oomReader.key] = None]
      /\ torn' = IF oomReader.ev.pid = 0 THEN torn \cup oom_map[oomReader.key].ids ELSE torn
    BY DEF OomDelete, DeleteElem
<1> HIDE DEF e
<1>6. /\ oomReader' \in ReadEvent /\ oomReader'.key = oomReader.key
      /\ oomReader'.deleted /\ oomReader'.ev = e
    BY <1>0, <1>1, <1>3, <1>4 DEF ReadEvent
<1>7. oomReader' # None
    BY <1>6, NoneIsNoEntry
<1> QED
    BY <1>0, <1>1, <1>2, <1>3, <1>5, <1>6, <1>7

\* At the start nobody has been killed.
LEMMA KillInit == OomInit => KillInv
BY DEF OomInit, KillInv, KillTypes, NoProbe, ProbeState, OwnPid, EventPlaced, Kill

\* The process cache and the life of a process leave the events alone.
LEMMA OthersKeepKills ==
    ASSUME Lives \/ ProcNext \/ UNCHANGED oomVars
    PROVE  UNCHANGED killVars
<1>1. Lives => UNCHANGED killVars
    BY DEF Lives, StartProcess, ExitProcess
<1>2. ProcNext => UNCHANGED killVars
    BY DEF ProcNext, Clone, SysNext, RefreshRead, SysExpire, SysStep, RefreshSet
<1> QED
    BY <1>1, <1>2 DEF oomVars

\* Every step keeps the types of the probe's, the reader's and the plugin's state.
LEMMA KillStepTypes ==
    ASSUME KillTypes, ProbeState, Lives \/ ProcNext \/ KillNext \/ UNCHANGED oomVars
    PROVE  KillTypes'
<1>0. Kill \in Nat
    BY DEF KillTypes, Kill
<1>1. ASSUME NEW p \in Pid, OomInsert(p) PROVE KillTypes'
    <2>1. oom_map' \in [Pid -> Event \cup {None}]
        BY <1>1, Inserted DEF OomInsert
    <2>2. probe' \in [pc : {"none", "inserted", "found"}, pid : Pid \cup {None}, slot : BOOLEAN]
        BY <1>1 DEF OomInsert
    <2>3. kills' \in Seq(Pid) /\ refused' \subseteq Nat
        BY <1>0, <1>1 DEF OomInsert, KillTypes
    <2> QED
        BY <1>1, <2>1, <2>2, <2>3 DEF OomInsert, KillTypes
<1>2. ASSUME NEW p \in Pid, OomNext(p) PROVE KillTypes'
    <2>1. oom_map[p] \in Event
        BY <1>2 DEF OomNext, KillTypes
    <2>2. oomReader' \in ReadEvent /\ oom_map[p].ids \subseteq Nat
        BY <1>2, <2>1 DEF OomNext, ReadEvent, Event
    <2> QED
        BY <1>2, <2>2 DEF OomNext, KillTypes
<1>3. CASE OomLookup
    <2>1. CASE oom_map[probe.pid] = None
        <3>1. oom_map' \in [Pid -> Event \cup {None}] /\ probe' = NoProbe
            BY <1>3, <2>1, Reinserted DEF OomLookup
        <3>2. refused' \subseteq Nat
            BY <1>0, <1>3, <2>1 DEF OomLookup, KillTypes
        <3> QED
            BY <1>3, <3>1, <3>2 DEF OomLookup, NoProbe, KillTypes
    <2>2. CASE oom_map[probe.pid] # None
        <3>1. probe' \in [pc : {"none", "inserted", "found"}, pid : Pid \cup {None}, slot : BOOLEAN]
            BY <1>3, <2>2 DEF OomLookup, KillTypes
        <3> QED
            BY <1>3, <2>2, <3>1 DEF OomLookup, KillTypes
    <2> QED
        BY <2>1, <2>2
<1>4. CASE OomFill
    <2>1. oom_map' \in [Pid -> Event \cup {None}]
        <3>1. CASE probe.slot
            BY <1>4, <3>1, Filled
        <3>2. CASE ~probe.slot
            BY <1>4, <3>2 DEF OomFill, KillTypes
        <3> QED
            BY <3>1, <3>2
    <2> QED
        BY <1>4, <2>1 DEF OomFill, NoProbe, KillTypes
<1>5. CASE OomDelete
    <2>1. oom_map' \in [Pid -> Event \cup {None}] /\ oomReader' \in ReadEvent /\ torn' \subseteq Nat
        BY <1>5, Deleted DEF KillTypes
    <2>2. probe' \in [pc : {"none", "inserted", "found"}, pid : Pid \cup {None}, slot : BOOLEAN]
        BY <1>5 DEF OomDelete, KillTypes
    <2> QED
        BY <1>5, <2>1, <2>2 DEF OomDelete, KillTypes
<1>6. CASE OomSend
    <2>1. oomReader.ev \in Event
        BY <1>6 DEF OomSend, KillTypes, ReadEvent
    <2> QED
        BY <1>6, <2>1 DEF OomSend, KillTypes
<1>7. CASE OomHandle
    <2>1. Head(oomCh) \in Event /\ Tail(oomCh) \in Seq(Event)
        BY <1>7 DEF OomHandle, KillTypes
    <2>2. \A j \in Head(oomCh).ids : [kill |-> j, pid |-> Head(oomCh).pid] \in [kill : Nat, pid : Pid \cup {0}]
        BY <2>1 DEF Event
    <2>3. settled' \subseteq [kill : Nat, pid : Pid \cup {0}]
        BY <1>7, <2>2 DEF OomHandle, KillTypes
    <2> QED
        BY <1>7, <2>1, <2>3 DEF OomHandle, KillTypes
<1>8. CASE Lives \/ ProcNext \/ UNCHANGED oomVars
    BY <1>8, OthersKeepKills DEF killVars, KillTypes
<1> QED
    BY <1>1, <1>2, <1>3, <1>4, <1>5, <1>6, <1>7, <1>8 DEF KillNext

\* The probe works on the last kill; the entry it has found, and the one the
\* reader has read, stay until the reader deletes.
LEMMA StepProbe ==
    ASSUME KillTypes, ProbeState, Lives \/ ProcNext \/ KillNext \/ UNCHANGED oomVars
    PROVE  ProbeState'
<1>0. Kill \in Nat /\ kills \in Seq(Pid) /\ Kill = Len(kills)
    BY DEF KillTypes, Kill
<1>a. oomReader # None => oomReader.key \in Pid
    BY DEF KillTypes, ReadEvent
<1>1. ASSUME NEW p \in Pid, OomInsert(p) PROVE ProbeState'
    <2>1. kills' # <<>> /\ kills'[Kill'] = p
        BY <1>0, <1>1 DEF OomInsert, Kill
    <2>2. probe' = [pc |-> "inserted", pid |-> p, slot |-> FALSE] /\ oomReader' = oomReader
        BY <1>1 DEF OomInsert
    <2>3. \A x \in Pid : oom_map[x] # None => oom_map'[x] # None
        <3>1. oom_map' = OomMapAfterInsert(p)
            BY <1>1 DEF OomInsert
        <3> QED
            BY <3>1, Inserted, NoneIsNoEntry
    <2> QED
        BY <1>a, <2>1, <2>2, <2>3 DEF ProbeState
<1>2. ASSUME NEW p \in Pid, OomNext(p) PROVE ProbeState'
    <2>1. UNCHANGED <<probe, oom_map, kills>> /\ oomReader'.key = p /\ oom_map[p] # None
        BY <1>2 DEF OomNext
    <2> QED
        BY <2>1 DEF ProbeState, Kill
<1>3. CASE OomLookup
    <2>0. UNCHANGED <<oomReader, kills>>
        BY <1>3 DEF OomLookup
    <2>1. CASE oom_map[probe.pid] = None
        <3>1. probe.pc = "inserted"
            BY <1>3 DEF OomLookup
        <3>2. /\ \A x \in Pid : x # probe.pid => oom_map'[x] = oom_map[x]
              /\ probe' = NoProbe
            BY <1>3, <2>1, <3>1, Reinserted
        <3> QED
            BY <1>a, <2>0, <2>1, <3>2 DEF ProbeState, NoProbe, Kill
    <2>2. CASE oom_map[probe.pid] # None
        <3>1. probe' = [probe EXCEPT !.pc = "found", !.slot = TRUE] /\ oom_map' = oom_map
              /\ probe.pc = "inserted"
            BY <1>3, <2>2 DEF OomLookup
        <3>2. probe'.pc = "found" /\ probe'.pid = probe.pid
            BY <3>1 DEF KillTypes
        <3> QED
            BY <2>0, <2>2, <3>1, <3>2 DEF ProbeState, Kill
    <2> QED
        BY <2>1, <2>2
<1>4. CASE OomFill
    <2>0. UNCHANGED <<oomReader, kills>> /\ probe' = NoProbe
        BY <1>4 DEF OomFill
    <2>1. \A x \in Pid : oom_map[x] # None => oom_map'[x] # None
        <3>1. CASE probe.slot
            BY <1>4, <3>1, Filled
        <3>2. CASE ~probe.slot
            BY <1>4, <3>2 DEF OomFill
        <3> QED
            BY <3>1, <3>2
    <2> QED
        BY <1>a, <2>0, <2>1 DEF ProbeState, NoProbe
<1>5. CASE OomDelete
    <2>0. kills' = kills
        BY <1>5 DEF OomDelete
    <2>1. /\ oomReader.key \in Pid /\ oomReader'.deleted
          /\ oom_map' = [oom_map EXCEPT ![oomReader.key] = None]
        BY <1>5, Deleted
    <2>2. CASE probe.pid = oomReader.key
        <3>1. probe' = [probe EXCEPT !.slot = FALSE]
            BY <1>5, <2>2 DEF OomDelete
        <3>2. probe'.pc = probe.pc /\ probe'.pid = probe.pid /\ ~probe'.slot
            BY <3>1 DEF KillTypes
        <3> QED
            BY <2>0, <2>1, <3>2 DEF ProbeState, Kill
    <2>3. CASE probe.pid # oomReader.key
        <3>1. probe' = probe
            BY <1>5, <2>3 DEF OomDelete
        <3>2. oom_map \in [Pid -> Event \cup {None}]
            BY DEF KillTypes
        <3> QED
            BY <2>0, <2>1, <2>3, <3>1, <3>2 DEF ProbeState, Kill
    <2> QED
        BY <2>2, <2>3
<1>6. CASE OomSend
    BY <1>6 DEF OomSend, ProbeState, Kill
<1>7. CASE OomHandle
    BY <1>7 DEF OomHandle, ProbeState, Kill
<1>8. CASE Lives \/ ProcNext \/ UNCHANGED oomVars
    BY <1>8, OthersKeepKills DEF killVars, ProbeState, Kill
<1> QED
    BY <1>1, <1>2, <1>3, <1>4, <1>5, <1>6, <1>7, <1>8 DEF KillNext

\* Events hold the pid they are stored under, or 0.
LEMMA StepOwnPid ==
    ASSUME KillTypes, ProbeState, OwnPid, Lives \/ ProcNext \/ KillNext \/ UNCHANGED oomVars
    PROVE  OwnPid'
<1>1. ASSUME NEW p \in Pid, OomInsert(p) PROVE OwnPid'
    <2>1. oom_map' = OomMapAfterInsert(p) /\ oomReader' = oomReader
        BY <1>1 DEF OomInsert
    <2>2. /\ \A x \in Pid : x # p => oom_map'[x] = oom_map[x]
          /\ oom_map[p] # None => oom_map'[p].pid = oom_map[p].pid
          /\ oom_map[p] = None /\ oom_map'[p] # None => oom_map'[p].pid = 0
        BY <2>1, Inserted
    <2> QED
        BY <2>1, <2>2 DEF OwnPid
<1>2. ASSUME NEW p \in Pid, OomNext(p) PROVE OwnPid'
    BY <1>2 DEF OomNext, OwnPid
<1>3. CASE OomLookup
    <2>0. UNCHANGED <<oomReader, kills>> /\ probe.pc = "inserted"
        BY <1>3 DEF OomLookup
    <2>1. CASE oom_map[probe.pid] = None
        <3>1. /\ \A x \in Pid : x # probe.pid => oom_map'[x] = oom_map[x]
              /\ oom_map'[probe.pid] # None => oom_map'[probe.pid].pid = 0
            BY <1>3, <2>0, <2>1, Reinserted
        <3> QED
            BY <2>0, <3>1 DEF OwnPid
    <2>2. CASE oom_map[probe.pid] # None
        BY <1>3, <2>0, <2>2 DEF OomLookup, OwnPid
    <2> QED
        BY <2>1, <2>2
<1>4. CASE OomFill
    <2>1. CASE probe.slot
        <3>1. /\ \A x \in Pid : x # probe.pid => oom_map'[x] = oom_map[x]
              /\ oom_map'[probe.pid].pid = probe.pid
            BY <1>4, <2>1, Filled
        <3>2. oomReader' = oomReader
            BY <1>4 DEF OomFill
        <3> QED
            BY <3>1, <3>2 DEF OwnPid
    <2>2. CASE ~probe.slot
        BY <1>4, <2>2 DEF OomFill, OwnPid
    <2> QED
        BY <2>1, <2>2
<1>5. CASE OomDelete
    <2>1. /\ oomReader.key \in Pid /\ oomReader'.key = oomReader.key
          /\ oomReader'.ev.pid = oomReader.ev.pid
          /\ oom_map' = [oom_map EXCEPT ![oomReader.key] = None]
        BY <1>5, Deleted
    <2>2. oom_map \in [Pid -> Event \cup {None}] /\ oomReader # None
        BY <1>5 DEF KillTypes, OomDelete
    <2> QED
        BY <2>1, <2>2 DEF OwnPid
<1>6. CASE OomSend
    BY <1>6 DEF OomSend, OwnPid
<1>7. CASE OomHandle
    BY <1>7 DEF OomHandle, OwnPid
<1>8. CASE Lives \/ ProcNext \/ UNCHANGED oomVars
    BY <1>8, OthersKeepKills DEF killVars, OwnPid
<1> QED
    BY <1>1, <1>2, <1>3, <1>4, <1>5, <1>6, <1>7, <1>8 DEF KillNext

\* Every kill has a complete event, or the one the probe is at.
LEMMA StepPlaced ==
    ASSUME KillInv, Lives \/ ProcNext \/ KillNext \/ UNCHANGED oomVars
    PROVE  EventPlaced'
<1>0. KillTypes /\ ProbeState /\ OwnPid /\ EventPlaced
    BY DEF KillInv
<1>a. Kill \in Nat /\ kills \in Seq(Pid) /\ Kill = Len(kills)
    BY <1>0 DEF KillTypes, Kill
<1>b. \A i \in 1 .. Kill : kills[i] \in Pid
    BY <1>a
<1>c. \A i \in 1 .. Kill : probe.pc # "none" /\ i = Kill => kills[i] = probe.pid
    BY <1>0 DEF ProbeState
<1>1. ASSUME NEW p \in Pid, OomInsert(p) PROVE EventPlaced'
    <2>0. /\ oom_map' = OomMapAfterInsert(p) /\ kills' = Append(kills, p)
          /\ probe.pc = "none"
          /\ probe' = [pc |-> "inserted", pid |-> p, slot |-> FALSE]
          /\ UNCHANGED <<oomReader, oomCh, torn, settled>>
          /\ refused' = IF Fits(oom_map, p, OomMax) THEN refused ELSE refused \cup {Kill + 1}
        BY <1>1 DEF OomInsert, NoProbe
    <2>1. Kill' = Kill + 1 /\ kills'[Kill + 1] = p /\ \A i \in 1 .. Kill : kills'[i] = kills[i]
        BY <1>a, <2>0 DEF Kill
    <2>2. /\ \A x \in Pid : x # p => oom_map'[x] = oom_map[x]
          /\ oom_map[p] # None =>
                 /\ oom_map'[p] # None
                 /\ oom_map'[p].pid = oom_map[p].pid /\ oom_map[p].ids \subseteq oom_map'[p].ids
          /\ Fits(oom_map, p, OomMax) => oom_map'[p] # None /\ Kill + 1 \in oom_map'[p].ids
        BY <1>0, <2>0, Inserted, NoneIsNoEntry
    <2>3. ASSUME NEW i \in 1 .. Kill
          PROVE  (i \in torn \/ i \in refused \/ Placed(i, kills[i]) \/ Open(i, kills[i]))'
        <3>1. i \in torn \/ i \in refused \/ Placed(i, kills[i])
            BY <1>0, <2>0 DEF EventPlaced, Open
        <3>2. CASE Placed(i, kills[i])
            BY <1>b, <2>0, <2>1, <2>2, <2>3, <3>2 DEF Placed, Ours
        <3> QED
            BY <2>0, <3>1, <3>2
    <2>4. Kill + 1 \in torn' \/ Kill + 1 \in refused' \/ Open(Kill, kills[Kill])'
        BY <1>a, <2>0, <2>1, <2>2 DEF Open
    <2> QED
        BY <1>a, <2>1, <2>3, <2>4 DEF EventPlaced
<1>2. ASSUME NEW p \in Pid, OomNext(p) PROVE EventPlaced'
    <2>1. UNCHANGED <<probe, oom_map, oomCh, kills, refused, settled>> /\ oomReader = None
          /\ torn \subseteq torn'
        BY <1>2 DEF OomNext
    <2> QED
        BY <1>0, <2>1 DEF EventPlaced, Placed, Open, Kill
<1>3. CASE OomLookup
    <2>0. /\ UNCHANGED <<oomReader, oomCh, kills, torn, settled>> /\ probe.pc = "inserted"
          /\ refused \subseteq refused' /\ probe.pid \in Pid
        BY <1>0, <1>3 DEF OomLookup, ProbeState
    <2>1. CASE oom_map[probe.pid] = None
        <3>1. \A x \in Pid : x # probe.pid => oom_map'[x] = oom_map[x]
            BY <1>0, <1>3, <2>0, <2>1, Reinserted
        <3>2. ASSUME NEW i \in 1 .. Kill
              PROVE  (i \in torn \/ i \in refused \/ Placed(i, kills[i]))'
            <4>1. i \in torn \/ i \in refused \/ Placed(i, kills[i])
                BY <1>0, <1>c, <2>0, <2>1 DEF EventPlaced, Open
            <4>2. CASE Placed(i, kills[i])
                BY <1>b, <2>0, <2>1, <3>1, <4>2 DEF Placed
            <4> QED
                BY <2>0, <4>1, <4>2
        <3> QED
            BY <2>0, <3>2 DEF EventPlaced, Kill
    <2>2. CASE oom_map[probe.pid] # None
        <3>1. probe' = [probe EXCEPT !.pc = "found", !.slot = TRUE] /\ UNCHANGED <<oom_map, refused>>
            BY <1>3, <2>2 DEF OomLookup
        <3>2. probe'.pc = "found" /\ probe'.slot
            BY <1>0, <3>1 DEF KillTypes
        <3> QED
            BY <1>0, <2>0, <3>1, <3>2 DEF EventPlaced, Placed, Open, Kill
    <2> QED
        BY <2>1, <2>2
<1>4. CASE OomFill
    <2>0. UNCHANGED <<oomReader, oomCh, kills, torn, refused, settled>> /\ probe.pc = "found"
        BY <1>4 DEF OomFill
    <2>1. CASE probe.slot
        <3>1. /\ \A x \in Pid : x # probe.pid => oom_map'[x] = oom_map[x]
              /\ oom_map'[probe.pid] # None
              /\ oom_map'[probe.pid].pid = probe.pid
              /\ oom_map'[probe.pid].ids = oom_map[probe.pid].ids
            BY <1>0, <1>4, <2>1, Filled
        <3>2. ASSUME NEW i \in 1 .. Kill
              PROVE  (i \in torn \/ i \in refused \/ Placed(i, kills[i]))'
            <4>1. CASE Placed(i, kills[i])
                BY <1>b, <2>0, <3>1, <4>1 DEF Placed, Ours
            <4>2. CASE Open(i, kills[i])
                BY <1>c, <2>0, <3>1, <4>2 DEF Placed, Ours, Open
            <4> QED
                BY <1>0, <2>0, <4>1, <4>2 DEF EventPlaced
        <3> QED
            BY <2>0, <3>2 DEF EventPlaced, Kill
    <2>2. CASE ~probe.slot
        <3>1. oom_map' = oom_map
            BY <1>4, <2>2 DEF OomFill
        <3> QED
            BY <1>0, <2>0, <2>2, <3>1 DEF EventPlaced, Placed, Open, Kill
    <2> QED
        BY <2>1, <2>2
<1>5. CASE OomDelete
    <2> DEFINE k == oomReader.key
    <2>0. UNCHANGED <<oomCh, kills, refused, settled>> /\ oomReader # None
        BY <1>5 DEF OomDelete
    <2>1. /\ k \in Pid /\ oomReader' # None
          /\ oom_map' = [oom_map EXCEPT ![k] = None]
          /\ oomReader'.ev.pid = oomReader.ev.pid
          /\ oomReader'.ev.ids = oomReader.ev.ids \cup oom_map[k].ids
          /\ oomReader.ev.pid = 0 => oom_map[k].ids \subseteq torn'
          /\ torn \subseteq torn'
        BY <1>0, <1>5, Deleted
    <2>2. oom_map \in [Pid -> Event \cup {None}] /\ oomReader.ev.pid \in {0, k}
        BY <1>0, <2>0 DEF KillTypes, OwnPid
    <2>3. \A x \in Pid : x # k => oom_map'[x] = oom_map[x]
        BY <2>1, <2>2
    <2>4. probe.pid # k => probe' = probe
        BY <1>5 DEF OomDelete
    <2> HIDE DEF k
    <2>5. ASSUME NEW i \in 1 .. Kill
          PROVE  (i \in torn \/ i \in refused \/ Placed(i, kills[i]) \/ Open(i, kills[i]))'
        <3>1. CASE kills[i] # k
            <4>1. CASE Placed(i, kills[i])
                BY <1>b, <2>0, <2>1, <2>3, <3>1, <4>1 DEF Placed, Ours
            <4>2. CASE Open(i, kills[i])
                <5>1. probe' = probe
                    BY <1>c, <2>4, <3>1, <4>2 DEF Open
                <5> QED
                    BY <1>b, <2>0, <2>3, <3>1, <4>2, <5>1 DEF Open, Kill
            <4> QED
                BY <1>0, <2>0, <2>1, <4>1, <4>2 DEF EventPlaced
        <3>2. CASE kills[i] = k
            <4>1. CASE i \in oom_map[k].ids
                BY <2>0, <2>1, <2>2, <3>2, <4>1 DEF Placed, Ours
            <4>2. CASE i \notin oom_map[k].ids
                <5>1. ~Open(i, kills[i])
                    BY <3>2, <4>2 DEF Open
                <5>2. CASE Placed(i, kills[i])
                    BY <2>0, <2>1, <3>2, <4>2, <5>2 DEF Placed, Ours
                <5> QED
                    BY <1>0, <2>0, <2>1, <5>1, <5>2 DEF EventPlaced
            <4> QED
                BY <4>1, <4>2
        <3> QED
            BY <3>1, <3>2
    <2> QED
        BY <2>0, <2>5 DEF EventPlaced, Kill
<1>6. CASE OomSend
    <2>0. UNCHANGED <<probe, oom_map, kills, torn, refused, settled>>
          /\ oomCh' = Append(oomCh, oomReader.ev)
        BY <1>6 DEF OomSend
    <2>1. oomCh \in Seq(Event) /\ oomReader.ev \in Event
        BY <1>0, <1>6 DEF OomSend, KillTypes, ReadEvent
    <2>2. \A i, p : InChannel(oomCh, i, p) \/ Ours(oomReader.ev, i, p) => InChannel(oomCh', i, p)
        BY <2>0, <2>1, ChannelAppend
    <2>3. \A i, p : Placed(i, p) => Placed(i, p)'
        BY <2>0, <2>2 DEF Placed
    <2>4. \A i, p : Open(i, p) => Open(i, p)'
        BY <2>0 DEF Open, Kill
    <2> QED
        BY <1>0, <2>0, <2>3, <2>4 DEF EventPlaced, Kill
<1>7. CASE OomHandle
    <2>0. /\ UNCHANGED <<probe, oom_map, oomReader, kills, torn, refused>>
          /\ oomCh' = Tail(oomCh) /\ oomCh # <<>>
          /\ settled' = settled \cup {[kill |-> j, pid |-> Head(oomCh).pid] : j \in Head(oomCh).ids}
        BY <1>7 DEF OomHandle
    <2>1. oomCh \in Seq(Event)
        BY <1>0 DEF KillTypes
    <2>2. \A i, p : InChannel(oomCh, i, p) => Ours(Head(oomCh), i, p) \/ InChannel(oomCh', i, p)
        BY <2>0, <2>1, ChannelTail
    <2>3. ASSUME NEW i, NEW p, Ours(Head(oomCh), i, p) PROVE LookedUp(settled', i, p)
        <3>1. [kill |-> i, pid |-> p] \in settled'
            BY <2>0, <2>3 DEF Ours
        <3> QED
            BY <3>1 DEF LookedUp
    <2>4. \A i, p : LookedUp(settled, i, p) => LookedUp(settled', i, p)
        BY <2>0 DEF LookedUp
    <2>5. \A i, p : Placed(i, p) => Placed(i, p)'
        BY <2>0, <2>2, <2>3, <2>4 DEF Placed
    <2>6. \A i, p : Open(i, p) => Open(i, p)'
        BY <2>0 DEF Open, Kill
    <2> QED
        BY <1>0, <2>0, <2>5, <2>6 DEF EventPlaced, Kill
<1>8. CASE Lives \/ ProcNext \/ UNCHANGED oomVars
    <2>1. UNCHANGED <<probe, oom_map, oomReader, oomCh, kills, torn, refused, settled>>
        BY <1>8, OthersKeepKills DEF killVars
    <2> QED
        BY <1>0, <2>1 DEF EventPlaced, Placed, Open, Kill
<1> QED
    BY <1>1, <1>2, <1>3, <1>4, <1>5, <1>6, <1>7, <1>8 DEF KillNext

\* No kill is forgotten: outside the probe its event waits, is on its way or has
\* been looked up, with the pid of the process, unless WatchOOM read it before
\* the probe had stored the pid, or the map had no room for it.
THEOREM NoKillForgotten == OomSpec => []KillsCounted
<1>1. KillInv /\ [Lives \/ ProcNext \/ KillNext]_oomVars => KillInv'
    BY KillStepTypes, StepProbe, StepOwnPid, StepPlaced DEF KillInv
<1>2. KillInv => KillsCounted
    <2> SUFFICES ASSUME KillInv, NEW i \in (1 .. Kill) \ (torn \cup refused)
                 PROVE  probe.pid = kills[i] \/ Placed(i, kills[i])
        BY DEF KillsCounted, Placed, Ours, InChannel, LookedUp
    <2> QED
        BY DEF KillInv, EventPlaced, ProbeState, Open
<1> QED
    BY <1>1, <1>2, KillInit, PTL DEF OomSpec

=============================================================================
