------------------------------ MODULE RpcProbe ------------------------------
(***************************************************************************)
(* One rpc probe: the socket filter rpc__filter_package attached to a      *)
(* veth, its two kernel maps, the goroutine that drains the trace map into *)
(* the channel Ch, and the plugin's sendMetrics goroutine that forwards to *)
(* the controller's channel.                                               *)
(*                                                                         *)
(*   packet --> grpc_request_map --> grpc_trace_map --> reader --> Ch      *)
(*          --> sendMetrics --> controller channel                         *)
(*                                                                         *)
(* Packets arrive here already classified (type and phase); what the       *)
(* classification remembers between packets is the module SockTrack.       *)
(*                                                                         *)
(* Requests and traces have identities; `asked' and `made' keep what each  *)
(* one carries.  A map slot, a goroutine or a CPU holds an identity, and   *)
(* None stands for "nothing".                                              *)
(***************************************************************************)
EXTENDS Integers, Sequences, FiniteSets, KernelMap

CONSTANTS
    Conn,         \* connections whose client or server is the probed pod
    TcpSeq,       \* values of the TCP sequence number of a response packet
    CPU,          \* CPUs on which the filter runs concurrently
    RpcTypes,     \* the payload types of the packets that arrive
    RequestMax,   \* max_entries of grpc_request_map (10240 in the code)
    TraceMax,     \* max_entries of grpc_trace_map (10240 in the code)
    ChCap,        \* capacity of the channel Ch (100 in the code)
    Word,         \* 2^32: rpc_package_t.duration is a __u32
    Pinned,       \* connections whose packets are filtered one at a time
    RequestId,    \* identities of request packets: bounds their number
    TraceId,      \* identities of matched responses: bounds their number
    MaxTime       \* bound: value of bpf_ktime_get_ns

ASSUME RpcProbeAssumption ==
    /\ RpcTypes \subseteq {"GRPC", "DUBBO", "MYSQL", "REDIS"}
    /\ RequestMax \in Nat \ {0}
    /\ TraceMax \in Nat \ {0}
    /\ ChCap \in Nat \ {0}
    /\ Word \in Nat \ {0}
    /\ Pinned \subseteq Conn
    /\ MaxTime \in Nat
    /\ None \notin RequestId \cup TraceId

VARIABLES
    clock,             \* bpf_ktime_get_ns
    filter_map,        \* TRUE once Load has put the pod's IP into filter_map
    grpc_request_map,  \* connection tuple -> outstanding request
    grpc_trace_map,    \* tcp_seq -> trace
    cpu,               \* the response each CPU has matched but not yet stored
    reader,            \* the goroutine that drains grpc_trace_map
    Ch,                \* channel of the plugin, shared with the other probes
    sender,            \* the metric sendMetrics is about to send on c
    asked,             \* history: the request packets recorded
    made,              \* history: the traces made from responses
    fate               \* history: what became of each trace

vars == <<clock, filter_map, grpc_request_map, grpc_trace_map, cpu, reader,
          Ch, sender, asked, made, fate>>

\* A tuple is a connection and a direction: "out" packets carry the pod's IP
\* as source address, "in" packets carry it as destination.
Tuple == Conn \X {"out", "in"}

Flip(t) == <<t[1], IF t[2] = "out" THEN "in" ELSE "out">>

Request == [tuple : Tuple, ping : BOOLEAN, start : 0 .. (Word - 1),
            at : 0 .. MaxTime, filtered : BOOLEAN]

Trace == [path : RequestId, tuple : Tuple, type : RpcTypes, seq : TcpSeq,
          duration : 0 .. (Word - 1), at : 0 .. MaxTime, torn : BOOLEAN]

ASSUME NoneIsNoRecord == None \notin Request \cup Trace

Fates == {"none", "flying", "reported",
          "overwritten", "rejected", "unread", "skipped"}

TypeOK ==
    /\ clock \in 0 .. MaxTime
    /\ filter_map \in BOOLEAN
    /\ grpc_request_map \in [Tuple -> RequestId \cup {None}]
    /\ grpc_trace_map \in [TcpSeq -> TraceId \cup {None}]
    /\ cpu \in [CPU -> TraceId \cup {None}]
    /\ reader \in [pc : {"next", "delete", "send"},
                   key : TcpSeq \cup {None}, val : TraceId \cup {None}]
    /\ Ch \in Seq(TraceId)
    /\ sender \in TraceId \cup {None}
    /\ asked \in [RequestId -> Request \cup {None}]
    /\ made \in [TraceId -> Trace \cup {None}]
    /\ fate \in [TraceId -> Fates]

\* Load attaches the filter to the raw socket before it puts the pod's IP
\* into filter_map: the first packets are seen by an unfiltered program.
Init ==
    /\ clock = 0
    /\ filter_map = FALSE
    /\ grpc_request_map = [t \in Tuple |-> None]
    /\ grpc_trace_map = [s \in TcpSeq |-> None]
    /\ cpu = [k \in CPU |-> None]
    /\ reader = [pc |-> "next", key |-> None, val |-> None]
    /\ Ch = <<>>
    /\ sender = None
    /\ asked = [r \in RequestId |-> None]
    /\ made = [i \in TraceId |-> None]
    /\ fate = [i \in TraceId |-> "none"]

Tick ==
    /\ clock < MaxTime
    /\ clock' = clock + 1
    /\ UNCHANGED <<filter_map, grpc_request_map, grpc_trace_map, cpu, reader,
                   Ch, sender, asked, made, fate>>

\* filter_map.Put(keyIPAddr, ip), the last fallible step of Load.
PutFilter ==
    /\ ~filter_map
    /\ filter_map' = TRUE
    /\ UNCHANGED <<clock, grpc_request_map, grpc_trace_map, cpu, reader, Ch,
                   sender, asked, made, fate>>

-----------------------------------------------------------------------------
(* The socket filter.                                                      *)

\* Some CPU has matched a response of connection c and not stored it yet.
Busy(c) == \E k \in CPU : cpu[k] # None /\ made[cpu[k]].tuple[1] = c

MayFilter(c) == c \in Pinned => ~Busy(c)

\* Mutant: no filter.
PassesFilterAlways(t) == TRUE

\* __get_target_ip: requests are recorded only if they come from the pod,
\* once filter_map holds its address.
PassesFilter(t) == filter_map => t[2] = "out"

\* Identities only tell requests, and traces, apart: they are given out in a
\* fixed order.
FirstRequest(r) == r = CHOOSE q \in RequestId : asked[q] = None
FirstTrace(i) == i = CHOOSE j \in TraceId : fate[j] = "none"

\* A packet with phase P_REQUEST on tuple t, which r names.
RequestPacket(r, t, ping) ==
    /\ asked[r] = None /\ FirstRequest(r)
    /\ MayFilter(t[1])
    /\ PassesFilter(t)
    /\ ping => "REDIS" \in RpcTypes
    /\ asked' = [asked EXCEPT ![r] = [tuple |-> t, ping |-> ping,
                                     start |-> clock % Word, at |-> clock,
                                     filtered |-> filter_map]]
    /\ grpc_request_map' = UpdateElem(grpc_request_map, t, r, RequestMax)
    /\ UNCHANGED <<clock, filter_map, grpc_trace_map, cpu, reader, Ch, sender,
                   made, fate>>

\* Mutant: the elapsed time in the width of the clock.
TraceOfWide(t, type, s) ==
    LET req == grpc_request_map[Flip(t)]
    IN  [path |-> req, tuple |-> Flip(t), type |-> type, seq |-> s,
         duration |-> clock - asked[req].start, at |-> clock, torn |-> FALSE]

\* The trace built from a response on tuple t: addresses and path of the
\* request it finds, type and seq of its own, and the elapsed time in 32 bits.
TraceOf(t, type, s) ==
    LET req == grpc_request_map[Flip(t)]
    IN  [path |-> req, tuple |-> Flip(t), type |-> type, seq |-> s,
         duration |-> (clock - asked[req].start) % Word,
         at |-> clock, torn |-> FALSE]

\* A packet with phase P_RESPONSE on tuple t, on CPU k: the lookup in
\* grpc_request_map and the copy, through the pointer it returns, of the request
\* into the new package, which i names.  A response without a request is ignored.
ResponseLookup(k, i, t, type, s) ==
    /\ fate[i] = "none" /\ FirstTrace(i)
    /\ cpu[k] = None
    /\ MayFilter(t[1])
    /\ grpc_request_map[Flip(t)] # None
    /\ made' = [made EXCEPT ![i] = TraceOf(t, type, s)]
    /\ fate' = [fate EXCEPT ![i] = "flying"]
    /\ cpu' = [cpu EXCEPT ![k] = i]
    /\ UNCHANGED <<clock, filter_map, grpc_request_map, grpc_trace_map, reader,
                   Ch, sender, asked>>

\* The copy takes time.  If another CPU replaces or deletes the request
\* meanwhile, its slot is free for the next request of any connection, and from
\* then on the copy reads that one: start and path of the trace may be mixed from
\* both.
CopyOvertaken(k) ==
    LET i == cpu[k]
    IN  /\ i # None
        /\ ~made[i].torn
        /\ grpc_request_map[made[i].tuple] # made[i].path
        /\ \E r \in RequestId \ {made[i].path} :
               asked[r] # None /\ asked[r].at >= made[i].at
        /\ made' = [made EXCEPT ![i].torn = TRUE]
        /\ UNCHANGED <<clock, filter_map, grpc_request_map, grpc_trace_map, cpu,
                       reader, Ch, sender, asked, fate>>

\* Is the value in map slot s already in the reader's hands?
Taken(s) == reader.pc = "delete" /\ reader.val = grpc_trace_map[s]

\* Mutants: the request stays; the request of the other direction goes too; every
\* trace gets the same key.
RequestsAfterKeeps(i) == grpc_request_map
RequestsAfterBoth(i) ==
    [grpc_request_map EXCEPT ![made[i].tuple] = None, ![Flip(made[i].tuple)] = None]
KeyOfConstant(i) == CHOOSE s \in TcpSeq : TRUE

\* bpf_map_delete_elem(&grpc_request_map, &request_tuple).
RequestsAfter(i) == [grpc_request_map EXCEPT ![made[i].tuple] = None]

\* The key of grpc_trace_map.
KeyOf(i) == made[i].seq

\* The same packet goes on: the request entry is deleted by key, whatever it
\* holds by now, and the trace is stored under the packet's tcp_seq.
ResponseStore(k) ==
    LET i == cpu[k]
        s == KeyOf(i)
        old == grpc_trace_map[s]
        fits == Fits(grpc_trace_map, s, TraceMax)
    IN  /\ i # None
        /\ cpu' = [cpu EXCEPT ![k] = None]
        /\ grpc_request_map' = RequestsAfter(i)
        /\ grpc_trace_map' = UpdateElem(grpc_trace_map, s, i, TraceMax)
        /\ fate' = IF ~fits THEN [fate EXCEPT ![i] = "rejected"]
                   ELSE IF old # None /\ ~Taken(s)
                        THEN [fate EXCEPT ![old] = "overwritten"]
                   ELSE fate
        /\ UNCHANGED <<clock, filter_map, reader, Ch, sender, asked, made>>

-----------------------------------------------------------------------------
(* The reader goroutine of Ebpf.Load: Next, Delete, then send on Ch.       *)

\* m.Iterate().Next(&key, &val): a fresh iterator, any entry of the map.  Load
\* starts the goroutine after the Put.
ReaderNext(s) ==
    /\ filter_map
    /\ reader.pc = "next"
    /\ grpc_trace_map[s] # None
    /\ reader' = [pc |-> "delete", key |-> s, val |-> grpc_trace_map[s]]
    /\ UNCHANGED <<clock, filter_map, grpc_request_map, grpc_trace_map, cpu,
                   Ch, sender, asked, made, fate>>

\* Mutant: the entry stays in the map.
ReaderDeleteForgotten ==
    /\ reader.pc = "delete"
    /\ reader' = [reader EXCEPT !.pc = "send"]
    /\ UNCHANGED <<clock, filter_map, grpc_request_map, grpc_trace_map, cpu, Ch,
                   sender, asked, made, fate>>

\* m.Delete(key) removes what the key holds now, which may be newer than val.
ReaderDelete ==
    LET now == grpc_trace_map[reader.key]
    IN  /\ reader.pc = "delete"
        /\ now # None     \* otherwise Delete fails and the agent panics
        /\ grpc_trace_map' = [grpc_trace_map EXCEPT ![reader.key] = None]
        /\ fate' = IF now # reader.val THEN [fate EXCEPT ![now] = "unread"]
                   ELSE fate
        /\ reader' = [reader EXCEPT !.pc = "send"]
        /\ UNCHANGED <<clock, filter_map, grpc_request_map, cpu, Ch, sender,
                       asked, made>>

\* Mutants: a metric is dropped when the channel is full; the goroutine ends
\* after its first metric.
ReaderSendDrops ==
    /\ reader.pc = "send"
    /\ Ch' = IF Len(Ch) < ChCap THEN Append(Ch, reader.val) ELSE Ch
    /\ reader' = [reader EXCEPT !.pc = "next", !.val = None]
    /\ UNCHANGED <<clock, filter_map, grpc_request_map, grpc_trace_map, cpu,
                   sender, asked, made, fate>>

ReaderSendOnce ==
    /\ reader.pc = "send"
    /\ Len(Ch) < ChCap
    /\ Ch' = Append(Ch, reader.val)
    /\ reader' = [reader EXCEPT !.pc = "ended", !.val = None]
    /\ UNCHANGED <<clock, filter_map, grpc_request_map, grpc_trace_map, cpu,
                   sender, asked, made, fate>>

\* e.Ch <- *metric blocks while the channel is full.
ReaderSend ==
    /\ reader.pc = "send"
    /\ Len(Ch) < ChCap
    /\ Ch' = Append(Ch, reader.val)
    /\ reader' = [reader EXCEPT !.pc = "next", !.val = None]
    /\ UNCHANGED <<clock, filter_map, grpc_request_map, grpc_trace_map, cpu,
                   sender, asked, made, fate>>

-----------------------------------------------------------------------------
(* The sendMetrics goroutine of the rpc plugin.                            *)

\* The answer to a redis PING is dropped, and so is a metric without status or
\* path unless it is gRPC.  Whether they are there is open, and in a torn trace
\* also whether the path is PING.
MayForward(i) == made[i].type = "REDIS" /\ asked[made[i].path].ping => made[i].torn
MayDrop(i) == made[i].type # "GRPC"

\* m := <-p.ch and the checks that may `continue'.
SenderReceive ==
    /\ sender = None
    /\ Ch # <<>>
    /\ Ch' = Tail(Ch)
    /\ \/ /\ MayForward(Head(Ch))
          /\ sender' = Head(Ch)
          /\ UNCHANGED fate
       \/ /\ MayDrop(Head(Ch))
          /\ fate' = [fate EXCEPT ![Head(Ch)] = "skipped"]
          /\ UNCHANGED sender
    /\ UNCHANGED <<clock, filter_map, grpc_request_map, grpc_trace_map, cpu,
                   reader, asked, made>>

\* c <- &mc: the controller's channel takes the metric.
SenderForward ==
    /\ sender # None
    /\ fate' = [fate EXCEPT ![sender] = "reported"]
    /\ sender' = None
    /\ UNCHANGED <<clock, filter_map, grpc_request_map, grpc_trace_map, cpu,
                   reader, Ch, asked, made>>

-----------------------------------------------------------------------------

Next ==
    \/ Tick
    \/ PutFilter
    \/ \E r \in RequestId, t \in Tuple, ping \in BOOLEAN :
           RequestPacket(r, t, ping)
    \/ \E k \in CPU, i \in TraceId, t \in Tuple, type \in RpcTypes,
          s \in TcpSeq : ResponseLookup(k, i, t, type, s)
    \/ \E k \in CPU : CopyOvertaken(k) \/ ResponseStore(k)
    \/ \E s \in TcpSeq : ReaderNext(s)
    \/ ReaderDelete
    \/ ReaderSend
    \/ SenderReceive
    \/ SenderForward

Spec == Init /\ [][Next]_vars

\* Load goes on, the goroutines and the filter run to their next step; packets
\* and time are the environment's.
Fairness ==
    /\ WF_vars(PutFilter)
    /\ \A k \in CPU : WF_vars(ResponseStore(k))
    /\ WF_vars(\E s \in TcpSeq : ReaderNext(s))
    /\ WF_vars(ReaderDelete)
    /\ WF_vars(ReaderSend)
    /\ WF_vars(SenderReceive)
    /\ WF_vars(SenderForward)

FairSpec == Spec /\ Fairness

-----------------------------------------------------------------------------
(* Properties.                                                             *)

Made == {i \in TraceId : fate[i] # "none"}

\* The traces copied from one request.
Whole == {i \in Made : ~made[i].torn}

\* Where a trace can be between the filter and the controller.  An entry the
\* reader has read and not yet deleted counts as the reader's.
OnCpu(i)    == \E k \in CPU : cpu[k] = i
InMap(i)    == \E s \in TcpSeq : grpc_trace_map[s] = i /\ ~Taken(s)
InHand(i)   == reader.pc # "next" /\ reader.val = i
InCh(i)     == \E n \in DOMAIN Ch : Ch[n] = i
AtSender(i) == sender = i

\* A trace that has not been reported or dropped is in some map, goroutine or
\* channel, and nothing else is: the hand-overs from filter to map to reader
\* to channel to sendMetrics neither forget a trace nor revive one.
Conserved ==
    \A i \in TraceId :
        fate[i] = "flying" <=>
            \/ OnCpu(i) \/ InMap(i) \/ InHand(i) \/ InCh(i) \/ AtSender(i)

\* No trace is in two places, so none is reported twice, however the filter
\* overwrites map entries between the reader's Next and its Delete.
OnePlace ==
    \A i \in TraceId :
        /\ OnCpu(i) => ~(InMap(i) \/ InHand(i) \/ InCh(i) \/ AtSender(i))
        /\ InMap(i) => ~(InHand(i) \/ InCh(i) \/ AtSender(i))
        /\ InHand(i) => ~(InCh(i) \/ AtSender(i))
        /\ InCh(i) => ~AtSender(i)
        /\ \A k, l \in CPU : cpu[k] = i /\ cpu[l] = i => k = l
        /\ \A s, u \in TcpSeq :
               grpc_trace_map[s] = i /\ grpc_trace_map[u] = i => s = u
        /\ \A m, n \in DOMAIN Ch : Ch[m] = i /\ Ch[n] = i => m = n

\* The trace map loses a stored trace only to another trace with the same
\* TCP sequence number: overwritten before it is read, or deleted unread
\* because it arrived between the reader's Next and its Delete.
LostToSameSeq ==
    \A i \in Made :
        fate[i] \in {"overwritten", "unread"} =>
            \E j \in Made : j # i /\ made[j].seq = made[i].seq

\* A reported duration is the time between the request and its response,
\* modulo 2^32 ns, also when the low word of the clock wraps in between.
DurationExact ==
    \A i \in Whole :
        made[i].duration = (made[i].at - asked[made[i].path].at) % Word

\* A trace describes a request of its own connection, seen earlier; once the
\* filter holds the pod's IP only requests sent by the pod are traced.
RequestOfThePod ==
    \A i \in Whole :
        LET req == asked[made[i].path]
        IN  /\ req # None
            /\ req.tuple = made[i].tuple
            /\ req.at <= made[i].at
            /\ req.filtered => made[i].tuple[2] = "out"

\* m.Delete(key) never misses, so the panic behind it (which would end the
\* whole agent) is unreachable: only the reader takes entries out of the map.
DeleteFindsKey == reader.pc = "delete" => grpc_trace_map[reader.key] # None

\* The traces of connections filtered one packet at a time.
InOrder == {i \in Made : made[i].tuple[1] \in Pinned}

\* If packets of its connection are filtered one at a time, a request is
\* answered by one trace at most, retransmitted or streamed responses
\* included.
OneTracePerRequest == \A i, j \in InOrder : made[i].path = made[j].path => i = j

\* A request that leaves grpc_request_map without a newer one in its place was
\* deleted by a response of its own connection: the one that answers it, or, when
\* packets of a connection are filtered on several CPUs, one that had looked an
\* older request up before this one came.  With one CPU at a time for the
\* connection no request is lost to the response of another.
OnlyAnsweredRequestsLeave ==
    [][\A t \in Tuple :
        grpc_request_map[t] # None /\ grpc_request_map'[t] = None =>
            \E k \in CPU :
                /\ cpu[k] # None
                /\ made[cpu[k]].tuple = t
                /\ \/ made[cpu[k]].path = grpc_request_map[t]
                   \/ /\ t[1] \notin Pinned
                      /\ asked[grpc_request_map[t]].at >= made[cpu[k]].at]_vars

\* The probe implements the at-most-once stage.
Settled(ends) == {i \in TraceId : fate[i] \in ends}

D == INSTANCE Delivery WITH
        Item <- TraceId,
        pending <- Settled({"flying"}),
        delivered <- Settled({"reported"}),
        lost <- Settled({"overwritten", "rejected", "unread", "skipped"})

RefinesDelivery == D!Spec

\* Every trace leaves the probe: it is reported, or dropped for one of the
\* causes above; it does not stay in a map or a channel.
EveryTraceSettles ==
    \A i \in TraceId :
        i \in Settled({"flying"}) ~> i \notin Settled({"flying"})

-----------------------------------------------------------------------------
(* What the proofs need beyond the properties: see RpcProbeProofs.         *)

\* The goroutines hold what their program counter says they hold, and map
\* slots are keyed by the sequence number of the trace they hold.
Held ==
    /\ reader.pc = "next" <=> reader.val = None
    /\ reader.pc = "delete" =>
           reader.key \in TcpSeq /\ made[reader.val].seq = reader.key
    /\ \A s \in TcpSeq :
           grpc_trace_map[s] # None => made[grpc_trace_map[s]].seq = s

\* A trace has its record as soon as it has a fate; the outstanding request
\* of a tuple was recorded on that tuple, by the filter as it then was.
Recorded ==
    /\ \A i \in TraceId : fate[i] = "none" <=> made[i] = None
    /\ \A t \in Tuple :
           grpc_request_map[t] # None =>
               /\ asked[grpc_request_map[t]] # None
               /\ asked[grpc_request_map[t]].tuple = t
    /\ \A r \in RequestId :
           asked[r] # None =>
               /\ asked[r].at <= clock
               /\ asked[r].start = asked[r].at % Word
               /\ asked[r].filtered => asked[r].tuple[2] = "out"
               /\ asked[r].filtered => filter_map

\* While a response is being worked on, its request is there, is gone, or has been
\* replaced by one that came after the lookup.
InFlight ==
    \A k \in CPU :
        cpu[k] # None =>
            LET i == cpu[k]
                q == grpc_request_map[made[i].tuple]
            IN  /\ made[i].at <= clock
                /\ q \notin {None, made[i].path} => asked[q].at >= made[i].at

\* On a pinned connection, a matched response has the connection to itself until
\* it is stored, and an outstanding request has no trace but that one.
OneAtATime ==
    /\ InOrder \subseteq Whole
    /\ \A k, l \in CPU :
           /\ cpu[k] \in InOrder /\ cpu[l] \in InOrder
           /\ made[cpu[k]].tuple[1] = made[cpu[l]].tuple[1]
           => k = l
    /\ \A k \in CPU :
           cpu[k] \in InOrder =>
               grpc_request_map[made[cpu[k]].tuple] = made[cpu[k]].path
    /\ \A t \in Tuple, i \in InOrder :
           grpc_request_map[t] # None /\ made[i].path = grpc_request_map[t]
           => OnCpu(i)

IInv ==
    /\ TypeOK
    /\ Conserved
    /\ OnePlace
    /\ DeleteFindsKey
    /\ RequestOfThePod
    /\ OneTracePerRequest
    /\ LostToSameSeq
    /\ DurationExact
    /\ Held
    /\ Recorded
    /\ InFlight
    /\ OneAtATime

=============================================================================
