----------------------------- MODULE SockTrack -----------------------------
(***************************************************************************)
(* What an rpc probe remembers about TCP sockets: kprobes on tcp_sendmsg,  *)
(* tcp_recvmsg and tcp_close keep active_recv_args (the receive under way  *)
(* of each thread) and filtered_connections (the process behind a          *)
(* socket); the socket filter adds to grpc_connections, whose entries let  *)
(* later packets pass as gRPC without being judged again.                  *)
(*                                                                         *)
(* A connection has two ends; the sockets of one or both are on the node.  *)
(* The kernel is external: it may end a connection before the process      *)
(* closes the socket (a reset, or FINs both ways), and then the socket has *)
(* lost its local port, skc_num is 0, when tcp_close sees it.              *)
(***************************************************************************)
EXTENDS Integers, FiniteSets, KernelMap

CONSTANTS
    Thread,       \* pid_tgid of the threads that use sockets
    Conn,         \* connections: address and port of both ends
    ArgsMax,      \* max_entries of active_recv_args (16384 in the code)
    FilteredMax,  \* max_entries of filtered_connections (16384)
    GrpcMax,      \* max_entries of grpc_connections (16384)
    SlotsKept,    \* a map slot just deleted is not reused at once
    MaxOpens      \* bound: times a connection's ports are used

ASSUME SockTrackAssumption ==
    /\ ArgsMax \in Nat \ {0}
    /\ FilteredMax \in Nat \ {0}
    /\ GrpcMax \in Nat \ {0}
    /\ SlotsKept \in BOOLEAN
    /\ MaxOpens \in Nat

End == Conn \X {"client", "server"}

\* connection_info_t as seen from one end, with or without its local port.
Key == End \X {"port", "zero"}

ASSUME NoneIsNoEnd == None \notin End

VARIABLES
    sock,                  \* external: the socket of each end
    opens,                 \* how often a connection was opened
    thread,                \* each thread: where in tcp_recvmsg, on which socket
    active_recv_args,      \* thread -> socket
    filtered_connections,  \* key -> process, and the opening it was seen in
    grpc_connections,      \* keys known to speak gRPC
    wasReset,              \* history: ends whose connection the kernel ended
    users                  \* history: threads that moved data, per opening

vars == <<sock, opens, thread, active_recv_args, filtered_connections,
          grpc_connections, wasReset, users>>

Entry == [id : Thread, opening : 1 .. MaxOpens]

TypeOK ==
    /\ sock \in [End -> {"none", "open", "reset"}]
    /\ opens \in [Conn -> 0 .. MaxOpens]
    /\ thread \in [Thread -> [pc : {"user", "recv", "ret"}, sock : End \cup {None},
                              args : End \cup {None}]]
    /\ active_recv_args \in [Thread -> End \cup {None}]
    /\ filtered_connections \in [Key -> Entry \cup {None}]
    /\ grpc_connections \subseteq Key
    /\ Cardinality(grpc_connections) <= GrpcMax
    /\ wasReset \subseteq End
    /\ users \in [End -> SUBSET Thread]

Idle == [pc |-> "user", sock |-> None, args |-> None]

Init ==
    /\ sock = [e \in End |-> "none"]
    /\ opens = [c \in Conn |-> 0]
    /\ thread = [t \in Thread |-> Idle]
    /\ active_recv_args = [t \in Thread |-> None]
    /\ filtered_connections = [k \in Key |-> None]
    /\ grpc_connections = {}
    /\ wasReset = {}
    /\ users = [e \in End |-> {}]

\* parse_sock_info
KeyOf(e) == <<e, IF sock[e] = "reset" THEN "zero" ELSE "port">>

-----------------------------------------------------------------------------
(* The kernel's sockets.                                                   *)

\* A connection is made; the ends in `local' are on this node.
Open(c, local) ==
    /\ opens[c] < MaxOpens
    /\ local # {}
    /\ \A e \in {c} \X {"client", "server"} : sock[e] = "none"
    /\ opens' = [opens EXCEPT ![c] = @ + 1]
    /\ sock' = [e \in End |-> IF e[1] = c /\ e[2] \in local THEN "open" ELSE sock[e]]
    /\ users' = [e \in End |-> IF e[1] = c THEN {} ELSE users[e]]
    /\ UNCHANGED <<thread, active_recv_args, filtered_connections,
                   grpc_connections, wasReset>>

\* The connection ends while the socket is still held by a process.
Reset(e) ==
    /\ sock[e] = "open"
    /\ sock' = [sock EXCEPT ![e] = "reset"]
    /\ wasReset' = wasReset \cup {e}
    /\ UNCHANGED <<opens, thread, active_recv_args, filtered_connections,
                   grpc_connections, users>>

-----------------------------------------------------------------------------
(* The kprobes.                                                            *)

\* handle_tcp_connection: the first process seen on a socket is kept.
HandleTcpConnection(t, e) ==
    LET k == KeyOf(e)
    IN  filtered_connections' =
            IF filtered_connections[k] # None THEN filtered_connections
            ELSE UpdateElem(filtered_connections, k,
                            [id |-> t, opening |-> opens[e[1]]], FilteredMax)

\* kprobe_tcp_sendmsg, with data and a buffer to read it from.
SendMsg(t, e) ==
    /\ thread[t].pc = "user"
    /\ sock[e] # "none"
    /\ HandleTcpConnection(t, e)
    /\ users' = [users EXCEPT ![e] = @ \cup {t}]
    /\ UNCHANGED <<sock, opens, thread, active_recv_args, grpc_connections, wasReset>>

\* Mutant: BPF_NOEXIST keeps the arguments of an earlier receive.
ArgsAfterEnterKept(t, e) ==
    IF active_recv_args[t] # None THEN active_recv_args
    ELSE [active_recv_args EXCEPT ![t] = e]

\* bpf_map_update_elem(&active_recv_args, &id, &args, BPF_ANY)
ArgsAfterEnter(t, e) ==
    UpdateElem(active_recv_args, t, e, ArgsMax)

\* kprobe_tcp_recvmsg.  A slot that RecvReturn has deleted and not yet read may
\* be the one this entry gets, unless SlotsKept.
RecvEnter(t, e, reused) ==
    /\ thread[t].pc = "user"
    /\ sock[e] # "none"
    /\ active_recv_args' = ArgsAfterEnter(t, e)
    /\ reused \subseteq {u \in Thread : ~SlotsKept /\ thread[u].pc = "ret"}
    /\ Cardinality(reused) <= 1
    /\ thread' = [u \in Thread |->
                     IF u = t THEN [pc |-> "recv", sock |-> e, args |-> None]
                     ELSE IF u \in reused THEN [thread[u] EXCEPT !.args = e]
                     ELSE thread[u]]
    /\ UNCHANGED <<sock, opens, filtered_connections, grpc_connections, wasReset,
                   users>>

\* tcp_recvmsg returns, and its kretprobe has no instance left: too many
\* threads are blocked in it.
RecvUnseen(t) ==
    /\ thread[t].pc = "recv"
    /\ thread' = [thread EXCEPT ![t] = Idle]
    /\ UNCHANGED <<sock, opens, active_recv_args, filtered_connections,
                   grpc_connections, wasReset, users>>

\* kretprobe_tcp_recvmsg as far as the delete: lookup, delete, early return.
RecvReturn(t, copied) ==
    LET args == active_recv_args[t]
    IN  /\ thread[t].pc = "recv"
        /\ active_recv_args' = DeleteElem(active_recv_args, t)
        /\ IF args # None /\ copied
           THEN thread' = [thread EXCEPT ![t].pc = "ret", ![t].args = args]
           ELSE thread' = [thread EXCEPT ![t] = Idle]
        /\ users' = IF copied THEN [users EXCEPT ![thread[t].sock] = @ \cup {t}]
                    ELSE users
        /\ UNCHANGED <<sock, opens, filtered_connections, grpc_connections, wasReset>>

\* Its rest: args->sock_ptr is read from the slot that was deleted.
RecvAttribute(t) ==
    /\ thread[t].pc = "ret"
    /\ HandleTcpConnection(t, thread[t].args)
    /\ thread' = [thread EXCEPT ![t] = Idle]
    /\ UNCHANGED <<sock, opens, active_recv_args, grpc_connections, wasReset, users>>

\* Mutant: the process stays known.
FilteredAfterCloseKept(e) == filtered_connections

FilteredAfterClose(e) == DeleteElem(filtered_connections, KeyOf(e))

\* kprobe_tcp_close, on the last reference to the socket.
Close(t, e) ==
    /\ thread[t].pc = "user"
    /\ sock[e] # "none"
    /\ \A u \in Thread : thread[u].sock # e
    /\ sock' = [sock EXCEPT ![e] = "none"]
    /\ active_recv_args' = DeleteElem(active_recv_args, t)
    /\ filtered_connections' = FilteredAfterClose(e)
    /\ grpc_connections' = grpc_connections \ {KeyOf(e)}
    /\ UNCHANGED <<opens, thread, wasReset, users>>

-----------------------------------------------------------------------------

\* Mutant: an insertion that ignores the capacity.
GrpcAfterUnbounded(e) == grpc_connections \cup {<<e, "port">>}

GrpcAfter(e) ==
    IF Cardinality(grpc_connections) < GrpcMax
    THEN grpc_connections \cup {<<e, "port">>}
    ELSE grpc_connections

\* rpc__filter_package: a packet sent by end e is judged to be gRPC.  Packets
\* are still under way after tcp_close.
GrpcPacket(e) ==
    /\ opens[e[1]] > 0
    /\ grpc_connections' = GrpcAfter(e)
    /\ UNCHANGED <<sock, opens, thread, active_recv_args, filtered_connections,
                   wasReset, users>>

-----------------------------------------------------------------------------

Next ==
    \/ \E c \in Conn, local \in SUBSET {"client", "server"} : Open(c, local)
    \/ \E e \in End : Reset(e) \/ GrpcPacket(e)
    \/ \E t \in Thread, e \in End : SendMsg(t, e) \/ Close(t, e)
    \/ \E t \in Thread, e \in End, reused \in SUBSET Thread : RecvEnter(t, e, reused)
    \/ \E t \in Thread, copied \in BOOLEAN : RecvReturn(t, copied)
    \/ \E t \in Thread : RecvUnseen(t) \/ RecvAttribute(t)

Spec == Init /\ [][Next]_vars

-----------------------------------------------------------------------------
(* Properties.                                                             *)

\* The socket that kretprobe_tcp_recvmsg attributes is the one its thread
\* received on, also after returns that no kretprobe saw and after a full map.
OwnSocket ==
    SlotsKept => \A t \in Thread : thread[t].pc = "ret" => thread[t].args = thread[t].sock

\* filtered_connections names a process that moved data on the socket since it
\* was opened: an entry does not outlive its socket into the next connection
\* on the same ports, unless the kernel ended the connection before tcp_close.
KnownProcessUsedSocket ==
    SlotsKept =>
        \A e \in End \ wasReset :
            LET entry == filtered_connections[<<e, "port">>]
            IN  entry # None =>
                    /\ sock[e] = "open"
                    /\ entry.opening = opens[e[1]]
                    /\ entry.id \in users[e]

\* "finally kprobe_tcp_close will delete the connection info": when the last
\* socket of a connection on the node is closed, grpc_connections forgets it.
\* tcp_close deletes the key as seen from the closing end only, and the
\* filter inserts the key as seen from the sender of each packet.
ClosedForgotten ==
    [][\A c \in Conn :
        LET ends == {c} \X {"client", "server"}
        IN  /\ \E e \in ends : sock[e] # "none"
            /\ \A e \in ends : sock'[e] = "none"
            => \A e \in ends : <<e, "port">> \notin grpc_connections']_vars

============================================================================
