------------------------------ MODULE NatTable ------------------------------
(***************************************************************************)
(* Where a connection to a service really goes: a kprobe and a kretprobe   *)
(* on nf_nat_setup_info put a connection and its translation in            *)
(* nf_conn_maps, the Gather goroutine of the netfilter plugin moves them   *)
(* to natCache, and the protocol plugins ask natCache by the address and   *)
(* port of the client.                                                     *)
(*                                                                         *)
(* The kernel is external.  It calls nf_nat_setup_info twice for each      *)
(* connection, first for its destination and then for its source, in a     *)
(* context (a thread, or a softirq that runs on its back); contexts may    *)
(* share a pid_tgid, as all idle CPUs do.                                  *)
(***************************************************************************)
EXTENDS Integers, FiniteSets, KernelMap

CONSTANTS
    Context,      \* where the kernel may be inside nf_nat_setup_info
    Task,         \* values of bpf_get_current_pid_tgid
    Source,       \* addresses and ports of clients
    MaxConns,     \* bound: connections
    SourceOf,     \* the client of each connection
    SPort,        \* the source port of each connection
    DPort,        \* the destination port of each connection
    MaxTime,      \* bound: values of bpf_ktime_get_ns
    ConnMax,      \* max_entries of conn_maps (10240 in the code)
    NfMax         \* max_entries of nf_conn_maps (1048576)

\* Connections are numbered in the order the kernel sets them up.
NatConn == 1 .. MaxConns

ASSUME NatAssumption ==
    /\ MaxConns \in Nat /\ MaxTime \in Nat
    /\ ConnMax \in Nat \ {0} /\ NfMax \in Nat \ {0}
    /\ SourceOf \in [NatConn -> Source]
    /\ SPort \in [NatConn -> 0 .. 2^16 - 1] /\ DPort \in [NatConn -> 0 .. 2^16 - 1]

\* An event as the maps and natCache hold it.
NatEvents == [conn : NatConn, altered : BOOLEAN]

ASSUME NoneIsNoEvent == None \notin NatConn \cup NatEvents

VARIABLES
    call,          \* external: the call each context is in
    setup,         \* external: how many calls each connection has been through
    conn_maps,     \* pid_tgid -> connection
    nf_conn_maps,  \* time -> event
    natReader,     \* the entry Gather has taken and not deleted, with its key
    natCache,      \* client -> event
    ktime,         \* the last value of bpf_ktime_get_ns
    disturbed      \* history: clients of which an event was lost or mixed up

natVars == <<call, setup, conn_maps, nf_conn_maps, natReader, natCache, ktime,
             disturbed>>

Resting == [pc |-> "none", task |-> None, conn |-> None, args |-> None]

NatInit ==
    /\ call = [x \in Context |-> Resting]
    /\ setup = [c \in NatConn |-> 0]
    /\ conn_maps = [t \in Task |-> None]
    /\ nf_conn_maps = [k \in 0 .. MaxTime |-> None]
    /\ natReader = None
    /\ natCache = [s \in Source |-> None]
    /\ ktime = 0
    /\ disturbed = {}

-----------------------------------------------------------------------------
(***************************************************************************)
(* The probes.                                                             *)
(***************************************************************************)
InCalls == {x \in Context : call[x].pc # "none"}

\* A connection is set up after the ones before it of the same client, and
\* its calls follow one another.
MaySetUp(c) ==
    /\ setup[c] < 2
    /\ \A x \in InCalls : SourceOf[call[x].conn] # SourceOf[c]
    /\ \A d \in 1 .. c - 1 : SourceOf[d] = SourceOf[c] => setup[d] = 2

\* Mutant: BPF_NOEXIST, which keeps what a return that was not seen left.
ConnMapsAfterEnterNoexist(t, c) ==
    IF conn_maps[t] # None THEN conn_maps ELSE UpdateElem(conn_maps, t, c, ConnMax)

ConnMapsAfterEnter(t, c) == UpdateElem(conn_maps, t, c, ConnMax)

\* kprobe_nf_nat_setup_info.  Under a pid_tgid that another context is using
\* the update replaces that context's connection.  A new entry may take the
\* slot that the kretprobe of a context has just deleted and has yet to read.
NatEnter(x, t, c) ==
    /\ call[x].pc = "none"
    /\ MaySetUp(c)
    /\ LET shared == {y \in InCalls : call[y].task = t}
       IN  \E reused \in SUBSET {y \in InCalls : call[y].pc = "deleted"} :
              /\ reused # {} => Cardinality(reused) = 1 /\ conn_maps[t] = None
              /\ call' = [y \in Context |->
                     IF y = x THEN [pc |-> "entered", task |-> t, conn |-> c,
                                    args |-> None]
                     ELSE IF y \in reused THEN [call[y] EXCEPT !.args = c]
                     ELSE call[y]]
              /\ disturbed' = disturbed
                     \cup {SourceOf[call[y].conn] : y \in shared \cup reused}
                     \cup (IF shared \cup reused = {} /\ Fits(conn_maps, t, ConnMax)
                           THEN {} ELSE {SourceOf[c]})
    /\ conn_maps' = ConnMapsAfterEnter(t, c)
    /\ UNCHANGED <<setup, nf_conn_maps, natReader, natCache, ktime>>

\* External: nf_nat_setup_info has altered the reply tuple.
NatAlter(x) ==
    /\ call[x].pc = "entered"
    /\ call' = [call EXCEPT ![x].pc = "altered"]
    /\ setup' = [setup EXCEPT ![call[x].conn] = @ + 1]
    /\ UNCHANGED <<conn_maps, nf_conn_maps, natReader, natCache, ktime, disturbed>>

\* A return without a kretprobe instance left: the program does not run.
NatUnseen(x) ==
    /\ call[x].pc = "altered"
    /\ call' = [call EXCEPT ![x] = Resting]
    /\ disturbed' = disturbed \cup {SourceOf[call[x].conn]}
    /\ UNCHANGED <<setup, conn_maps, nf_conn_maps, natReader, natCache, ktime>>

\* kretprobe_nf_nat_setup_info: look up and delete.
NatReturn(x) ==
    /\ call[x].pc = "altered"
    /\ LET args == conn_maps[call[x].task]
       IN  call' = [call EXCEPT ![x] = IF args = None THEN Resting
                                       ELSE [@ EXCEPT !.pc = "deleted", !.args = args]]
    /\ conn_maps' = DeleteElem(conn_maps, call[x].task)
    /\ UNCHANGED <<setup, nf_conn_maps, natReader, natCache, ktime, disturbed>>

\* bpf_ntohs on the little-endian machines the probes are built for.
Ntohs(port) == (port % 256) * 256 + port \div 256

\* The source port is compared as it is in the packet.
IsDns(c) == Ntohs(SPort[c]) = 53 \/ DPort[c] = 53

\* nf_tuple: the client, and whether the reply tuple was the altered one.
NatEvent(c) == [conn |-> c, altered |-> setup[c] > 0]

\* kretprobe_nf_nat_setup_info: read both tuples through the deleted entry,
\* leave DNS alone, store under the time of day, which two CPUs may share.
NatStore(x) ==
    /\ call[x].pc = "deleted"
    /\ call' = [call EXCEPT ![x] = Resting]
    /\ LET c == call[x].args
           ev == NatEvent(c)
           others(k) == {nf_conn_maps[i].conn : i \in Used(nf_conn_maps) \ {k}}
       IN  IF IsDns(c) THEN UNCHANGED <<nf_conn_maps, ktime, disturbed>>
           ELSE \E k \in {ktime, ktime + 1} \cap (0 .. MaxTime) :
                  LET over == IF nf_conn_maps[k] = None THEN {}
                              ELSE {nf_conn_maps[k].conn}
                      twin == {d \in others(k) : SourceOf[d] = SourceOf[c] /\ d # c}
                  IN  /\ ktime' = k
                      /\ nf_conn_maps' = UpdateElem(nf_conn_maps, k, ev, NfMax)
                      /\ disturbed' = disturbed
                             \cup {SourceOf[d] : d \in over \cup twin}
                             \cup (IF Fits(nf_conn_maps, k, NfMax) THEN {}
                                   ELSE {SourceOf[c]})
    /\ UNCHANGED <<setup, conn_maps, natReader, natCache>>

-----------------------------------------------------------------------------
(***************************************************************************)
(* Gather and natCache.                                                    *)
(***************************************************************************)

\* Iterate().Next: some entry, in no order of time.
NatNext ==
    /\ natReader = None
    /\ \E k \in Used(nf_conn_maps) : natReader' = [key |-> k, ev |-> nf_conn_maps[k]]
    /\ UNCHANGED <<call, setup, conn_maps, nf_conn_maps, natCache, ktime, disturbed>>

NatCacheAfter(ev) == [natCache EXCEPT ![SourceOf[ev.conn]] = ev]

\* Delete, which finds the key as nothing else deletes, then natCache.Set.  An
\* event that came under the same time in between is deleted unread.
NatDelete ==
    /\ natReader # None
    /\ LET k == natReader.key  ev == natReader.ev
       IN  /\ disturbed' = disturbed \cup
                  (IF nf_conn_maps[k] \in {None, ev} THEN {}
                   ELSE {SourceOf[nf_conn_maps[k].conn]})
           /\ nf_conn_maps' = DeleteElem(nf_conn_maps, k)
           /\ natCache' = NatCacheAfter(ev)
    /\ natReader' = None
    /\ UNCHANGED <<call, setup, conn_maps, ktime>>

\* An entry is a minute old: GetNatInfo does not find it any more.
NatExpire(s) ==
    /\ natCache[s] # None
    /\ natCache' = [natCache EXCEPT ![s] = None]
    /\ UNCHANGED <<call, setup, conn_maps, nf_conn_maps, natReader, ktime, disturbed>>

NatProbes ==
    \E x \in Context :
        \/ \E t \in Task, c \in NatConn : NatEnter(x, t, c)
        \/ NatAlter(x)
        \/ NatUnseen(x)
        \/ NatReturn(x)
        \/ NatStore(x)

NatGather == NatNext \/ NatDelete \/ \E s \in Source : NatExpire(s)

-----------------------------------------------------------------------------

\* Events of a client are still on their way to natCache.
OnTheWay(s) ==
    \/ \E x \in InCalls : SourceOf[call[x].conn] = s
    \/ \E k \in Used(nf_conn_maps) : SourceOf[nf_conn_maps[k].conn] = s
    \/ natReader # None /\ SourceOf[natReader.ev.conn] = s

Latest(s) ==
    LET seen == {c \in NatConn : SourceOf[c] = s /\ setup[c] > 0 /\ ~IsDns(c)}
    IN  CHOOSE c \in seen : \A d \in seen : d <= c

\* The answer GetNatInfo gives for a client is the translation of its latest
\* connection, read after the kernel had made it, although the kretprobe takes
\* the connection from a table keyed by pid_tgid and Gather takes events in no
\* order.  The code loses this only in the cases that disturbed records:
\* two calls at once under one pid_tgid, a slot reused while it was read, a
\* return that was not seen, a full map, two events with one time, and two
\* connections of the client waiting together.
NatIsLatest ==
    \A s \in Source :
        natCache[s] # None /\ s \notin disturbed /\ ~OnTheWay(s)
        => natCache[s] = [conn |-> Latest(s), altered |-> TRUE]

=============================================================================
