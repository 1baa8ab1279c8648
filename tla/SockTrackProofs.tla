--------------------------- MODULE SockTrackProofs ---------------------------
(***************************************************************************)
(* Theorems about the socket tables of an rpc probe, for any number of     *)
(* threads, connections and openings and any capacity of the maps.         *)
(***************************************************************************)
EXTENDS SockTrack, FiniteSetTheorems, TLAPS

-----------------------------------------------------------------------------
(* The inductive invariant.                                                *)

Opened(e) == opens[e[1]] > 0

\* Sockets are named only once their connection was opened, and a thread in
\* tcp_recvmsg is in it on a socket; the kretprobe goes on with one only.
Opening ==
    /\ \A e \in End : sock[e] # "none" => Opened(e)
    /\ \A t \in Thread :
           /\ thread[t].pc # "user" => thread[t].sock \in End
           /\ thread[t].pc = "ret" => thread[t].args \in End
           /\ thread[t].args # None => Opened(thread[t].args)
           /\ active_recv_args[t] # None => Opened(active_recv_args[t])

Typed == TypeOK /\ Opening /\ IsFiniteSet(grpc_connections)

\* A thread in tcp_recvmsg has no arguments or its own, whatever earlier
\* receives left behind; its socket is not closed meanwhile.
ArgsOwn ==
    \A t \in Thread :
        /\ thread[t].pc = "recv" => active_recv_args[t] \in {None, thread[t].sock}
        /\ thread[t].pc = "ret" =>
               thread[t].args = thread[t].sock /\ t \in users[thread[t].sock]
        /\ thread[t].pc # "user" => sock[thread[t].sock] # "none"
        /\ thread[t].pc = "user" => thread[t].sock = None

\* A socket has lost its port only after a reset.
ResetSeen == \A e \in End : sock[e] = "reset" => e \in wasReset

IInv ==
    /\ Typed
    /\ SlotsKept => ArgsOwn /\ ResetSeen /\ KnownProcessUsedSocket

-----------------------------------------------------------------------------
(* Type correctness.                                                       *)

\* The keys parse_sock_info can return for an end.
LEMMA Keys ==
    ASSUME NEW e \in End
    PROVE  /\ e[1] \in Conn /\ e # None
           /\ KeyOf(e) \in Key /\ <<e, "port">> \in Key
           /\ KeyOf(e) = <<e, IF sock[e] = "reset" THEN "zero" ELSE "port">>
BY NoneIsNoEnd DEF End, Key, KeyOf

\* handle_tcp_connection writes an entry of the opening under way.
LEMMA HandleTyped ==
    ASSUME Typed, NEW t \in Thread, NEW e \in End, Opened(e), HandleTcpConnection(t, e)
    PROVE  filtered_connections' \in [Key -> Entry \cup {None}]
<1>1. opens[e[1]] \in 1 .. MaxOpens
    <2>1. e[1] \in Conn
        BY Keys
    <2>2. opens[e[1]] \in 0 .. MaxOpens
        BY <2>1 DEF Typed, TypeOK
    <2> QED
        BY <2>2, SockTrackAssumption DEF Opened
<1>2. [id |-> t, opening |-> opens[e[1]]] \in Entry
    BY <1>1 DEF Entry
<1> DEFINE new == [id |-> t, opening |-> opens[e[1]]]
<1> HIDE DEF new
<1>3. filtered_connections' = filtered_connections
          \/ filtered_connections' = [filtered_connections EXCEPT ![KeyOf(e)] = new]
    BY DEF HandleTcpConnection, UpdateElem, new
<1>4. filtered_connections \in [Key -> Entry \cup {None}]
    BY DEF Typed, TypeOK
<1> QED
    BY <1>2, <1>3, <1>4, Keys DEF new

\* The probe starts with empty tables.
LEMMA InitTyped == Init => Typed
<1> SUFFICES ASSUME Init PROVE Typed
    OBVIOUS
<1> USE SockTrackAssumption DEF Init
<1>1. IsFiniteSet(grpc_connections) /\ Cardinality(grpc_connections) = 0
    BY FS_EmptySet
<1>2. Opening
    BY DEF Opening, Idle
<1>3. TypeOK
    BY <1>1 DEF TypeOK, Idle
<1> QED
    BY <1>1, <1>2, <1>3 DEF Typed

\* Every step keeps the tables well typed.
LEMMA StepTyped == Typed /\ [Next]_vars => Typed'
<1> SUFFICES ASSUME Typed, [Next]_vars PROVE Typed'
    OBVIOUS
<1> USE SockTrackAssumption, NoneIsNoEnd
<1>0. TypeOK /\ Opening /\ IsFiniteSet(grpc_connections)
    BY DEF Typed
<1>e. \A e \in End : e[1] \in Conn /\ e # None
    BY Keys
<1>g. Cardinality(grpc_connections) \in Nat
    BY <1>0, FS_CardinalityType
<1>1. ASSUME NEW c \in Conn, NEW local \in SUBSET {"client", "server"}, Open(c, local)
      PROVE  Typed'
    <2>1. opens' \in [Conn -> 0 .. MaxOpens] /\ \A d \in Conn : opens[d] > 0 => opens'[d] > 0
        BY <1>0, <1>1 DEF Open, TypeOK
    <2>2. sock' \in [End -> {"none", "open", "reset"}] /\ users' \in [End -> SUBSET Thread]
        BY <1>0, <1>1 DEF Open, TypeOK
    <2>3. \A e \in End : sock'[e] # "none" => opens'[e[1]] > 0
        <3> SUFFICES ASSUME NEW e \in End, sock'[e] # "none" PROVE opens'[e[1]] > 0
            OBVIOUS
        <3>1. CASE e[1] = c
            BY <1>0, <1>1, <3>1 DEF Open, TypeOK
        <3>2. CASE e[1] # c
            BY <1>0, <1>1, <1>e, <2>1, <3>2 DEF Open, Opening, Opened
        <3> QED
            BY <3>1, <3>2
    <2>4. Opening'
        BY <1>0, <1>1, <1>e, <2>1, <2>3 DEF Open, Opening, Opened, TypeOK
    <2> QED
        BY <1>0, <1>1, <2>1, <2>2, <2>4 DEF Open, Typed, TypeOK
<1>2. ASSUME NEW e \in End, Reset(e) PROVE Typed'
    BY <1>0, <1>2 DEF Reset, Typed, TypeOK, Opening, Opened
<1>3. ASSUME NEW e \in End, GrpcPacket(e) PROVE Typed'
    <2>1. <<e, "port">> \in Key
        BY Keys
    <2>2. /\ grpc_connections' \subseteq Key /\ IsFiniteSet(grpc_connections')
          /\ Cardinality(grpc_connections') <= GrpcMax
        <3>1. CASE Cardinality(grpc_connections) < GrpcMax
            <4> DEFINE new == grpc_connections \cup {<<e, "port">>}
            <4>1. IsFiniteSet(new) /\ Cardinality(new) =
                      IF <<e, "port">> \in grpc_connections THEN Cardinality(grpc_connections)
                      ELSE Cardinality(grpc_connections) + 1
                BY <1>0, FS_AddElement
            <4>2. grpc_connections' = new
                BY <1>3, <3>1 DEF GrpcPacket, GrpcAfter
            <4>3. new \subseteq Key
                BY <1>0, <2>1 DEF TypeOK
            <4> HIDE DEF new
            <4>4. Cardinality(new) <= GrpcMax
                BY <1>g, <3>1, <4>1
            <4> QED
                BY <4>1, <4>2, <4>3, <4>4
        <3>2. CASE ~(Cardinality(grpc_connections) < GrpcMax)
            BY <1>0, <1>3, <3>2 DEF GrpcPacket, GrpcAfter, TypeOK
        <3> QED
            BY <3>1, <3>2
    <2> QED
        BY <1>0, <1>3, <2>2 DEF GrpcPacket, Typed, TypeOK, Opening, Opened
<1>4. ASSUME NEW t \in Thread, NEW e \in End, SendMsg(t, e) PROVE Typed'
    <2>1. filtered_connections' \in [Key -> Entry \cup {None}]
        BY <1>0, <1>4, HandleTyped DEF SendMsg, Opening
    <2>2. users' \in [End -> SUBSET Thread]
        BY <1>0, <1>4 DEF SendMsg, TypeOK
    <2> QED
        BY <1>0, <1>4, <2>1, <2>2 DEF SendMsg, Typed, TypeOK, Opening, Opened
<1>5. ASSUME NEW t \in Thread, NEW e \in End, Close(t, e) PROVE Typed'
    <2>1. filtered_connections' \in [Key -> Entry \cup {None}]
        BY <1>0, <1>5 DEF Close, FilteredAfterClose, DeleteElem, TypeOK
    <2>2. /\ active_recv_args' \in [Thread -> End \cup {None}]
          /\ \A u \in Thread : active_recv_args'[u] # None => active_recv_args'[u] = active_recv_args[u]
        BY <1>0, <1>5 DEF Close, DeleteElem, TypeOK
    <2>3. sock' \in [End -> {"none", "open", "reset"}] /\
          \A x \in End : sock'[x] # "none" => sock[x] # "none"
        BY <1>0, <1>5 DEF Close, TypeOK
    <2>4. /\ grpc_connections' \subseteq Key /\ IsFiniteSet(grpc_connections')
          /\ Cardinality(grpc_connections') <= GrpcMax
        <3>1. grpc_connections' \in SUBSET grpc_connections
            BY <1>5 DEF Close
        <3>2. /\ IsFiniteSet(grpc_connections') /\ Cardinality(grpc_connections') \in Nat
              /\ Cardinality(grpc_connections') <= Cardinality(grpc_connections)
            BY <1>0, <3>1, FS_Subset, FS_CardinalityType
        <3> QED
            BY <1>0, <1>g, <3>1, <3>2 DEF TypeOK
    <2>5. Opening'
        BY <1>0, <1>5, <2>2, <2>3 DEF Close, Opening, Opened
    <2> QED
        BY <1>0, <1>5, <2>1, <2>2, <2>3, <2>4, <2>5 DEF Close, Typed, TypeOK
<1>6. ASSUME NEW t \in Thread, NEW e \in End, NEW reused \in SUBSET Thread, RecvEnter(t, e, reused)
      PROVE  Typed'
    <2>1. /\ active_recv_args' \in [Thread -> End \cup {None}]
          /\ \A u \in Thread : active_recv_args'[u] \in {active_recv_args[u], e}
        BY <1>0, <1>6 DEF RecvEnter, ArgsAfterEnter, UpdateElem, TypeOK
    <2>2. /\ thread'[t] = [pc |-> "recv", sock |-> e, args |-> None]
          /\ \A u \in Thread : u # t =>
                 thread'[u] = thread[u] \/
                 (thread[u].pc = "ret" /\ thread'[u] = [thread[u] EXCEPT !.args = e])
          /\ DOMAIN thread' = Thread /\ thread' = [u \in Thread |-> thread'[u]]
        BY <1>6 DEF RecvEnter
    <2>3. \A u \in Thread : thread'[u] \in [pc : {"user", "recv", "ret"}, sock : End \cup {None},
                              args : End \cup {None}]
        BY <1>0, <2>2 DEF TypeOK
    <2>4. thread' \in [Thread -> [pc : {"user", "recv", "ret"}, sock : End \cup {None},
                              args : End \cup {None}]]
        BY <2>2, <2>3
    <2>5. Opened(e)
        BY <1>0, <1>6 DEF RecvEnter, Opening
    <2>6. \A u \in Thread :
              /\ thread'[u].pc # "user" => thread'[u].sock \in End
              /\ thread'[u].pc = "ret" => thread'[u].args \in End
              /\ thread'[u].args # None => Opened(thread'[u].args)
              /\ active_recv_args'[u] # None => Opened(active_recv_args'[u])
        <3> SUFFICES ASSUME NEW u \in Thread
                     PROVE  /\ thread'[u].pc # "user" => thread'[u].sock \in End
                            /\ thread'[u].pc = "ret" => thread'[u].args \in End
                            /\ thread'[u].args # None => Opened(thread'[u].args)
                            /\ active_recv_args'[u] # None => Opened(active_recv_args'[u])
            OBVIOUS
        <3>1. active_recv_args'[u] # None => Opened(active_recv_args'[u])
            BY <1>0, <2>1, <2>5 DEF Opening
        <3>2. CASE u = t
            BY <2>2, <3>1, <3>2
        <3>3. CASE u # t /\ thread'[u] = thread[u]
            BY <1>0, <3>1, <3>3 DEF Opening
        <3>4. CASE u # t /\ thread[u].pc = "ret" /\ thread'[u] = [thread[u] EXCEPT !.args = e]
            <4>1. thread'[u].pc = "ret" /\ thread'[u].args = e /\ thread'[u].sock = thread[u].sock
                BY <1>0, <3>4 DEF TypeOK
            <4> QED
                BY <1>0, <2>5, <3>1, <3>4, <4>1 DEF Opening
        <3> QED
            BY <2>2, <3>2, <3>3, <3>4
    <2>7. Opening'
        BY <1>0, <1>6, <2>6 DEF RecvEnter, Opening, Opened
    <2> QED
        BY <1>0, <1>6, <2>1, <2>4, <2>7 DEF RecvEnter, Typed, TypeOK
<1>7. ASSUME NEW t \in Thread, NEW copied \in BOOLEAN, RecvReturn(t, copied) PROVE Typed'
    <2>1. /\ active_recv_args' \in [Thread -> End \cup {None}]
          /\ \A u \in Thread : active_recv_args'[u] \in {active_recv_args[u], None}
        BY <1>0, <1>7 DEF RecvReturn, DeleteElem, TypeOK
    <2>2. users' \in [End -> SUBSET Thread]
        BY <1>0, <1>7 DEF RecvReturn, TypeOK
    <2>3. thread' \in [Thread -> [pc : {"user", "recv", "ret"}, sock : End \cup {None},
                              args : End \cup {None}]]
        BY <1>0, <1>7 DEF RecvReturn, TypeOK, Idle
    <2>4. /\ \A u \in Thread : u # t => thread'[u] = thread[u]
          /\ \/ thread'[t] = Idle
             \/ /\ thread'[t].pc = "ret" /\ thread'[t].sock = thread[t].sock
                /\ thread'[t].args = active_recv_args[t] /\ active_recv_args[t] # None
        BY <1>0, <1>7 DEF RecvReturn, TypeOK
    <2>5. thread[t].sock \in End /\ (active_recv_args[t] # None => active_recv_args[t] \in End)
        BY <1>0, <1>7 DEF RecvReturn, Opening, TypeOK
    <2>6. Opening'
        BY <1>0, <1>7, <2>1, <2>4, <2>5 DEF RecvReturn, Opening, Opened, Idle
    <2> QED
        BY <1>0, <1>7, <2>1, <2>2, <2>3, <2>6 DEF RecvReturn, Typed, TypeOK
<1>8. ASSUME NEW t \in Thread, RecvUnseen(t) PROVE Typed'
    BY <1>0, <1>8 DEF RecvUnseen, Typed, TypeOK, Opening, Opened, Idle
<1>9. ASSUME NEW t \in Thread, RecvAttribute(t) PROVE Typed'
    <2>1. filtered_connections' \in [Key -> Entry \cup {None}]
        BY <1>0, <1>9, <1>e, HandleTyped DEF RecvAttribute, Opening
    <2> QED
        BY <1>0, <1>9, <2>1 DEF RecvAttribute, Typed, TypeOK, Opening, Opened, Idle
<1>10. CASE UNCHANGED vars
    BY <1>0, <1>10 DEF vars, Typed, TypeOK, Opening, Opened
<1> QED
    BY <1>1, <1>2, <1>3, <1>4, <1>5, <1>6, <1>7, <1>8, <1>9, <1>10 DEF Next

\* The tables stay well typed: grpc_connections within its max_entries, and
\* every process known with the opening of its connection it was seen in.
THEOREM TypeCorrect == Spec => []TypeOK
<1>1. Typed => TypeOK
    BY DEF Typed
<1> QED
    BY <1>1, InitTyped, StepTyped, PTL DEF Spec

-----------------------------------------------------------------------------
(* Attribution.                                                            *)

\* What handle_tcp_connection may change: the entry of the socket it is called
\* for, which then names the caller and the opening under way.
LEMMA Handle ==
    ASSUME Typed, NEW t \in Thread, NEW e \in End, HandleTcpConnection(t, e),
           NEW x \in End
    PROVE  \/ filtered_connections'[<<x, "port">>] = filtered_connections[<<x, "port">>]
           \/ /\ x = e /\ sock[e] # "reset"
              /\ filtered_connections'[<<x, "port">>].id = t
              /\ filtered_connections'[<<x, "port">>].opening = opens[e[1]]
<1> DEFINE new == [id |-> t, opening |-> opens[e[1]]]
           fc == filtered_connections
<1>1. new.id = t /\ new.opening = opens[e[1]]
    OBVIOUS
<1> HIDE DEF new
<1>2. fc' = fc \/ fc' = [fc EXCEPT ![KeyOf(e)] = new]
    BY DEF HandleTcpConnection, UpdateElem, new
<1>3. /\ fc \in [Key -> Entry \cup {None}] /\ <<x, "port">> \in Key /\ KeyOf(e) \in Key
      /\ KeyOf(e) = <<e, IF sock[e] = "reset" THEN "zero" ELSE "port">>
    BY Keys DEF Typed, TypeOK
<1>4. CASE KeyOf(e) = <<x, "port">>
    <2>1. x = e /\ sock[e] # "reset"
        BY <1>3, <1>4
    <2>2. fc' = fc \/ fc'[<<x, "port">>] = new
        BY <1>2, <1>3, <1>4
    <2> QED
        BY <1>1, <2>1, <2>2
<1>5. CASE KeyOf(e) # <<x, "port">>
    <2>1. fc'[<<x, "port">>] = fc[<<x, "port">>]
        BY <1>2, <1>3, <1>5
    <2> QED
        BY <2>1
<1> QED
    BY <1>4, <1>5

\* Every step keeps the arguments of a receive its thread's own.
LEMMA StepArgs == IInv /\ SlotsKept /\ [Next]_vars => ArgsOwn'
<1> SUFFICES ASSUME IInv, SlotsKept, [Next]_vars, NEW t \in Thread
             PROVE  /\ thread'[t].pc = "recv" => active_recv_args'[t] \in {None, thread'[t].sock}
                    /\ thread'[t].pc = "ret" =>
                           thread'[t].args = thread'[t].sock /\ t \in users'[thread'[t].sock]
                    /\ thread'[t].pc # "user" => sock'[thread'[t].sock] # "none"
                    /\ thread'[t].pc = "user" => thread'[t].sock = None
    BY DEF ArgsOwn
<1> USE SockTrackAssumption, NoneIsNoEnd
<1>0. /\ Typed /\ TypeOK
      /\ thread[t].pc # "user" => thread[t].sock \in End
    BY DEF IInv, Typed, Opening
<1>i. /\ thread[t].pc = "recv" => active_recv_args[t] \in {None, thread[t].sock}
      /\ thread[t].pc = "ret" =>
             thread[t].args = thread[t].sock /\ t \in users[thread[t].sock]
      /\ thread[t].pc # "user" => sock[thread[t].sock] # "none"
      /\ thread[t].pc = "user" => thread[t].sock = None
    BY DEF IInv, ArgsOwn
<1> DEFINE Goal == /\ thread'[t].pc = "recv" => active_recv_args'[t] \in {None, thread'[t].sock}
                   /\ thread'[t].pc = "ret" =>
                          thread'[t].args = thread'[t].sock /\ t \in users'[thread'[t].sock]
                   /\ thread'[t].pc # "user" => sock'[thread'[t].sock] # "none"
                   /\ thread'[t].pc = "user" => thread'[t].sock = None
\* Steps that leave the thread in tcp_recvmsg where it is.
<1>a. ASSUME thread'[t] = thread[t], active_recv_args'[t] \in {active_recv_args[t], None},
             thread[t].pc # "user" =>
                 /\ sock'[thread[t].sock] # "none"
                 /\ users[thread[t].sock] \subseteq users'[thread[t].sock]
      PROVE  Goal
    BY <1>a, <1>i
<1>1. ASSUME NEW c \in Conn, NEW local \in SUBSET {"client", "server"}, Open(c, local)
      PROVE  Goal
    <2>1. \A e \in End : sock[e] # "none" => e[1] # c
        <3> SUFFICES ASSUME NEW e \in End, e[1] = c PROVE sock[e] = "none"
            OBVIOUS
        <3>1. e \in {c} \X {"client", "server"}
            BY DEF End
        <3> QED
            BY <1>1, <3>1 DEF Open
    <2>2. \A e \in End : sock[e] # "none" => sock'[e] = sock[e] /\ users'[e] = users[e]
        BY <1>1, <2>1 DEF Open
    <2> QED
        BY <1>0, <1>1, <1>a, <1>i, <2>2 DEF Open
<1>2. ASSUME NEW e \in End, Reset(e) PROVE Goal
    <2>1. \A x \in End : sock[x] # "none" => sock'[x] # "none"
        BY <1>0, <1>2 DEF Reset, TypeOK
    <2> QED
        BY <1>0, <1>2, <1>a, <1>i, <2>1 DEF Reset
<1>3. ASSUME NEW e \in End, GrpcPacket(e) PROVE Goal
    BY <1>3, <1>a, <1>i DEF GrpcPacket
<1>4. ASSUME NEW u \in Thread, NEW e \in End, SendMsg(u, e) PROVE Goal
    <2>1. \A x \in End : users[x] \subseteq users'[x]
        BY <1>0, <1>4 DEF SendMsg, TypeOK
    <2> QED
        BY <1>0, <1>4, <1>a, <1>i, <2>1 DEF SendMsg
<1>5. ASSUME NEW u \in Thread, NEW e \in End, Close(u, e) PROVE Goal
    <2>1. thread[t].sock # e
        BY <1>5 DEF Close
    <2>2. \A x \in End : x # e => sock'[x] = sock[x]
        BY <1>0, <1>5 DEF Close, TypeOK
    <2>3. active_recv_args'[t] \in {active_recv_args[t], None}
        BY <1>0, <1>5 DEF Close, DeleteElem, TypeOK
    <2> QED
        BY <1>0, <1>5, <1>a, <1>i, <2>1, <2>2, <2>3 DEF Close
<1>6. ASSUME NEW u \in Thread, NEW e \in End, NEW reused \in SUBSET Thread, RecvEnter(u, e, reused)
      PROVE  Goal
    <2>0. reused = {} /\ UNCHANGED <<sock, users>> /\ sock[e] # "none"
        BY <1>6 DEF RecvEnter
    <2>1. CASE u = t
        <3>1. thread'[t] = [pc |-> "recv", sock |-> e, args |-> None]
            BY <1>6, <2>1 DEF RecvEnter
        <3>2. active_recv_args'[t] \in {e, None}
            BY <1>0, <1>6, <2>1 DEF RecvEnter, ArgsAfterEnter, UpdateElem, Fits, TypeOK
        <3> QED
            BY <2>0, <3>1, <3>2
    <2>2. CASE u # t
        <3>1. thread'[t] = thread[t]
            BY <1>6, <2>0, <2>2 DEF RecvEnter
        <3>2. active_recv_args'[t] = active_recv_args[t]
            BY <1>0, <1>6, <2>2 DEF RecvEnter, ArgsAfterEnter, UpdateElem, TypeOK
        <3> QED
            BY <1>a, <1>i, <2>0, <3>1, <3>2
    <2> QED
        BY <2>1, <2>2
<1>7. ASSUME NEW u \in Thread, NEW copied \in BOOLEAN, RecvReturn(u, copied) PROVE Goal
    <2>0. UNCHANGED sock
        BY <1>7 DEF RecvReturn
    <2>1. CASE u = t
        <3>1. thread[t].sock \in End
            BY <1>0, <1>7, <2>1 DEF RecvReturn
        <3>2. CASE active_recv_args[t] # None /\ copied
            <4>1. /\ thread'[t].pc = "ret" /\ thread'[t].args = active_recv_args[t]
                  /\ thread'[t].sock = thread[t].sock /\ t \in users'[thread[t].sock]
                BY <1>0, <1>7, <2>1, <3>1, <3>2 DEF RecvReturn, TypeOK
            <4>2. active_recv_args[t] = thread[t].sock /\ sock[thread[t].sock] # "none"
                BY <1>7, <1>i, <2>1, <3>2 DEF RecvReturn
            <4> QED
                BY <2>0, <4>1, <4>2
        <3>3. CASE ~(active_recv_args[t] # None /\ copied)
            <4>1. thread'[t] = Idle
                BY <1>0, <1>7, <2>1, <3>3 DEF RecvReturn, TypeOK
            <4> QED
                BY <4>1 DEF Idle
        <3> QED
            BY <3>2, <3>3
    <2>2. CASE u # t
        <3>1. thread'[t] = thread[t] /\ active_recv_args'[t] = active_recv_args[t]
            BY <1>0, <1>7, <2>2 DEF RecvReturn, DeleteElem, TypeOK
        <3>2. \A x \in End : users[x] \subseteq users'[x]
            BY <1>0, <1>7 DEF RecvReturn, TypeOK
        <3> QED
            BY <1>0, <1>a, <1>i, <2>0, <3>1, <3>2
    <2> QED
        BY <2>1, <2>2
<1>8. ASSUME NEW u \in Thread, RecvUnseen(u) \/ RecvAttribute(u) PROVE Goal
    <2>0. UNCHANGED <<sock, users, active_recv_args>> /\ thread' = [thread EXCEPT ![u] = Idle]
        BY <1>8 DEF RecvUnseen, RecvAttribute
    <2>1. CASE u = t
        BY <1>0, <2>0, <2>1 DEF TypeOK, Idle
    <2>2. CASE u # t
        BY <1>0, <1>a, <1>i, <2>0, <2>2 DEF TypeOK
    <2> QED
        BY <2>1, <2>2
<1>9. CASE UNCHANGED vars
    BY <1>9, <1>a, <1>i DEF vars
<1> QED
    BY <1>1, <1>2, <1>3, <1>4, <1>5, <1>6, <1>7, <1>8, <1>9 DEF Next

\* Every step keeps the processes known those that used the socket.
LEMMA StepKnown == IInv /\ SlotsKept /\ [Next]_vars => KnownProcessUsedSocket' /\ ResetSeen'
<1> SUFFICES ASSUME IInv, SlotsKept, [Next]_vars, NEW e \in End
             PROVE  /\ sock'[e] = "reset" => e \in wasReset'
                    /\ e \notin wasReset' /\ filtered_connections'[<<e, "port">>] # None =>
                           /\ sock'[e] = "open"
                           /\ filtered_connections'[<<e, "port">>].opening = opens'[e[1]]
                           /\ filtered_connections'[<<e, "port">>].id \in users'[e]
    BY DEF KnownProcessUsedSocket, ResetSeen
<1> USE SockTrackAssumption, NoneIsNoEnd
<1> DEFINE entry == filtered_connections[<<e, "port">>]
           Goal == /\ sock'[e] = "reset" => e \in wasReset'
                   /\ e \notin wasReset' /\ filtered_connections'[<<e, "port">>] # None =>
                          /\ sock'[e] = "open"
                          /\ filtered_connections'[<<e, "port">>].opening = opens'[e[1]]
                          /\ filtered_connections'[<<e, "port">>].id \in users'[e]
<1>0. Typed /\ TypeOK /\ ArgsOwn /\ <<e, "port">> \in Key /\ e[1] \in Conn /\ e # None
    BY Keys DEF IInv, Typed
<1>i. /\ sock[e] = "reset" => e \in wasReset
      /\ e \notin wasReset /\ entry # None =>
             sock[e] = "open" /\ entry.opening = opens[e[1]] /\ entry.id \in users[e]
    BY DEF IInv, ResetSeen, KnownProcessUsedSocket
\* Steps that do not touch the entry or its socket.
<1>a. ASSUME filtered_connections'[<<e, "port">>] = entry, sock'[e] = sock[e],
             opens'[e[1]] = opens[e[1]], users[e] \subseteq users'[e], wasReset' = wasReset
      PROVE  Goal
    BY <1>a, <1>i
\* Steps that call handle_tcp_connection for a thread that used the socket.
<1>b. ASSUME NEW t \in Thread, NEW x \in End, HandleTcpConnection(t, x), sock[x] # "none",
             t \in users'[x], UNCHANGED <<sock, opens, wasReset>>, users[e] \subseteq users'[e]
      PROVE  Goal
    <2>1. CASE filtered_connections'[<<e, "port">>] = entry
        BY <1>a, <1>b, <2>1
    <2>2. CASE /\ e = x /\ sock[x] # "reset"
               /\ filtered_connections'[<<e, "port">>].id = t
               /\ filtered_connections'[<<e, "port">>].opening = opens[x[1]]
        <3>1. sock[e] = "open"
            BY <1>0, <1>b, <2>2 DEF TypeOK
        <3> QED
            BY <1>b, <2>2, <3>1
    <2> QED
        BY <1>0, <1>b, <2>1, <2>2, Handle
<1>1. ASSUME NEW c \in Conn, NEW local \in SUBSET {"client", "server"}, Open(c, local)
      PROVE  Goal
    <2>0. UNCHANGED <<filtered_connections, wasReset>>
        BY <1>1 DEF Open
    <2>1. CASE e[1] = c
        <3>1. e \in {c} \X {"client", "server"}
            BY <2>1 DEF End
        <3>2. sock[e] = "none"
            BY <1>1, <3>1 DEF Open
        <3>3. e \notin wasReset => entry = None
            BY <1>i, <3>2
        <3>4. sock'[e] # "reset"
            BY <1>1, <3>2 DEF Open
        <3> QED
            BY <2>0, <3>3, <3>4
    <2>2. CASE e[1] # c
        <3>1. sock'[e] = sock[e] /\ opens'[e[1]] = opens[e[1]] /\ users'[e] = users[e]
            BY <1>0, <1>1, <2>2 DEF Open, TypeOK
        <3> QED
            BY <1>a, <2>0, <3>1
    <2> QED
        BY <2>1, <2>2
<1>2. ASSUME NEW x \in End, Reset(x) PROVE Goal
    <2>1. CASE x = e
        BY <1>2, <2>1 DEF Reset
    <2>2. CASE x # e
        <3>1. /\ sock'[e] = sock[e] /\ (e \in wasReset' <=> e \in wasReset)
              /\ UNCHANGED <<filtered_connections, opens, users>>
            BY <1>0, <1>2, <2>2 DEF Reset, TypeOK
        <3> QED
            BY <1>i, <3>1
    <2> QED
        BY <2>1, <2>2
<1>3. ASSUME NEW x \in End, GrpcPacket(x) PROVE Goal
    BY <1>3, <1>a DEF GrpcPacket
<1>4. ASSUME NEW t \in Thread, NEW x \in End, SendMsg(t, x) PROVE Goal
    <2>1. t \in users'[x] /\ users[e] \subseteq users'[e]
        BY <1>0, <1>4 DEF SendMsg, TypeOK
    <2> QED
        BY <1>4, <1>b, <2>1 DEF SendMsg
<1>5. ASSUME NEW t \in Thread, NEW x \in End, Close(t, x) PROVE Goal
    <2>0. /\ KeyOf(x) = <<x, IF sock[x] = "reset" THEN "zero" ELSE "port">>
          /\ filtered_connections \in [Key -> Entry \cup {None}]
          /\ filtered_connections' = [filtered_connections EXCEPT ![KeyOf(x)] = None]
          /\ sock' = [sock EXCEPT ![x] = "none"] /\ UNCHANGED <<opens, users, wasReset>>
        BY <1>0, <1>5, Keys DEF Close, FilteredAfterClose, DeleteElem, TypeOK
    <2>1. CASE x = e
        <3>1. sock'[e] = "none"
            BY <1>0, <2>0, <2>1 DEF TypeOK
        <3>2. sock[e] # "reset" => filtered_connections'[<<e, "port">>] = None
            BY <1>0, <2>0, <2>1
        <3>3. sock[e] = "reset" => e \in wasReset'
            BY <1>i, <2>0
        <3> QED
            BY <3>1, <3>2, <3>3
    <2>2. CASE x # e
        <3>1. sock'[e] = sock[e]
            BY <1>0, <2>0, <2>2 DEF TypeOK
        <3>2. KeyOf(x) # <<e, "port">>
            BY <2>0, <2>2
        <3>3. filtered_connections'[<<e, "port">>] = entry
            BY <1>0, <2>0, <3>2
        <3> QED
            BY <1>a, <2>0, <3>1, <3>3
    <2> QED
        BY <2>1, <2>2
<1>6. ASSUME NEW t \in Thread, NEW x \in End, NEW reused \in SUBSET Thread, RecvEnter(t, x, reused)
      PROVE  Goal
    BY <1>6, <1>a DEF RecvEnter
<1>7. ASSUME NEW t \in Thread, NEW copied \in BOOLEAN, RecvReturn(t, copied) PROVE Goal
    <2>1. users[e] \subseteq users'[e]
        BY <1>0, <1>7 DEF RecvReturn, TypeOK
    <2>2. UNCHANGED <<filtered_connections, sock, opens, wasReset>>
        BY <1>7 DEF RecvReturn
    <2> QED
        BY <1>a, <2>1, <2>2
<1>8. ASSUME NEW t \in Thread, RecvUnseen(t) PROVE Goal
    BY <1>8, <1>a DEF RecvUnseen
<1>9. ASSUME NEW t \in Thread, RecvAttribute(t) PROVE Goal
    <2>1. /\ thread[t].args \in End /\ t \in users[thread[t].args]
          /\ sock[thread[t].args] # "none"
        BY <1>0, <1>9 DEF RecvAttribute, ArgsOwn, Typed, Opening
    <2>2. HandleTcpConnection(t, thread[t].args) /\ UNCHANGED <<sock, opens, wasReset, users>>
        BY <1>9 DEF RecvAttribute
    <2> QED
        BY <1>b, <2>1, <2>2
<1>10. CASE UNCHANGED vars
    BY <1>10, <1>a DEF vars
<1> QED
    BY <1>1, <1>2, <1>3, <1>4, <1>5, <1>6, <1>7, <1>8, <1>9, <1>10 DEF Next

\* The inductive invariant holds throughout.
LEMMA Invariance == Spec => []IInv
<1>1. Init => IInv
    BY InitTyped DEF Init, Idle, IInv, ArgsOwn, ResetSeen, KnownProcessUsedSocket, Key
<1>2. IInv /\ [Next]_vars => IInv'
    BY StepTyped, StepArgs, StepKnown DEF IInv
<1> QED
    BY <1>1, <1>2, PTL DEF Spec

\* While deleted slots are not reused, kretprobe_tcp_recvmsg attributes the
\* socket its own thread received on: neither an entry left by a return that no
\* kretprobe saw nor one that a full map refused makes it another's.
THEOREM ReceivesAttributedToOwnSocket == Spec => []OwnSocket
<1>1. IInv => OwnSocket
    BY DEF IInv, ArgsOwn, OwnSocket
<1> QED
    BY <1>1, Invariance, PTL

\* The process behind a socket is one that moved data on it since it was opened,
\* unless the kernel had ended the connection before tcp_close.
THEOREM KnownProcessIsCurrent == Spec => []KnownProcessUsedSocket
<1>1. IInv => KnownProcessUsedSocket
    BY DEF IInv, KnownProcessUsedSocket
<1> QED
    BY <1>1, Invariance, PTL

=============================================================================
