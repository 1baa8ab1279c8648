----------------------------- MODULE HttpProbe -----------------------------
(***************************************************************************)
(* One http probe: the socket filter socket__filter_package on a veth, its *)
(* two kernel maps, the goroutine FanInMetric and the plugin's export      *)
(* goroutine.                                                              *)
(*                                                                         *)
(*   packet --> http_processing_map --> metrics_map --> FanInMetric --> ch *)
(*          --> export goroutine --> controller channel                    *)
(*                                                                         *)
(* Unlike the rpc probe it keys both maps by the connection, records no    *)
(* request before filter_map holds the pod's IP, stores a finished         *)
(* exchange through a pointer into the entry it has just deleted, and      *)
(* sends before it deletes.  An exchange has an identity from its request  *)
(* on.                                                                     *)
(***************************************************************************)
EXTENDS Integers, Sequences, FiniteSets, KernelMap

CONSTANTS
    Conn,           \* connections opened by the probed pod
    CPU,            \* CPUs on which the filter runs concurrently
    ProcessingMax,  \* max_entries of http_processing_map (16384 in the code)
    MetricsMax,     \* max_entries of metrics_map (16384)
    ChCap,          \* capacity of the channel ch (100)
    Pinned,         \* connections whose packets are filtered one at a time
    SlotsKept,      \* a map slot just deleted is not reused at once
    Exchange,       \* identities of requests: bounds their number
    Undecodable     \* those whose path url.Parse rejects: cut inside an escape

ASSUME HttpProbeAssumption ==
    /\ ProcessingMax \in Nat \ {0}
    /\ MetricsMax \in Nat \ {0}
    /\ ChCap \in Nat \ {0}
    /\ Pinned \subseteq Conn
    /\ SlotsKept \in BOOLEAN
    /\ Undecodable \subseteq Exchange
    /\ None \notin Exchange \cup Conn

VARIABLES
    filter_map,           \* TRUE once Load has put the pod's IP into filter_map
    http_processing_map,  \* connection -> exchange that waits for its response
    metrics_map,          \* connection -> finished exchange
    cpu,                  \* how far each CPU is with a response
    reader,               \* FanInMetric
    ch,                   \* channel of the plugin
    exporter,             \* the metric the export goroutine is about to send
    conn,                 \* history: the connection of each request seen
    answered,             \* history: responses matched, of each connection
    sent,                 \* history: metrics sent on ch, of each connection
    fate                  \* history: what became of each exchange

vars == <<filter_map, http_processing_map, metrics_map, cpu, reader, ch,
          exporter, conn, answered, sent, fate>>

Fates == {"none", "asked", "unanswered", "flying", "reported", "overwritten",
          "rejected", "unread", "undecoded", "skipped"}

Idle == [pc |-> "idle", conn |-> None, val |-> None]

TypeOK ==
    /\ filter_map \in BOOLEAN
    /\ http_processing_map \in [Conn -> Exchange \cup {None}]
    /\ Cardinality(Used(http_processing_map)) <= ProcessingMax
    /\ metrics_map \in [Conn -> Exchange \cup {None}]
    /\ Cardinality(Used(metrics_map)) <= MetricsMax
    /\ cpu \in [CPU -> {Idle} \cup [pc : {"matched", "deleted"}, conn : Conn,
                                    val : Exchange]]
    /\ reader \in [pc : {"next", "decode", "send", "delete", "ended"},
                   key : Conn \cup {None}, val : Exchange \cup {None}]
    /\ ch \in Seq(Exchange) /\ Len(ch) <= ChCap
    /\ exporter \in Exchange \cup {None}
    /\ conn \in [Exchange -> Conn \cup {None}]
    /\ answered \in [Conn -> Nat]
    /\ sent \in [Conn -> Nat]
    /\ fate \in [Exchange -> Fates]

Init ==
    /\ filter_map = FALSE
    /\ http_processing_map = [c \in Conn |-> None]
    /\ metrics_map = [c \in Conn |-> None]
    /\ cpu = [k \in CPU |-> Idle]
    /\ reader = [pc |-> "next", key |-> None, val |-> None]
    /\ ch = <<>>
    /\ exporter = None
    /\ conn = [i \in Exchange |-> None]
    /\ answered = [c \in Conn |-> 0]
    /\ sent = [c \in Conn |-> 0]
    /\ fate = [i \in Exchange |-> "none"]

\* The Put of Load, after the filter is attached.
PutFilter ==
    /\ ~filter_map
    /\ filter_map' = TRUE
    /\ UNCHANGED <<http_processing_map, metrics_map, cpu, reader, ch, exporter,
                   conn, answered, sent, fate>>

-----------------------------------------------------------------------------
(* The socket filter, read_http_info.                                      *)

MayFilter(c) == c \in Pinned => \A k \in CPU : cpu[k].conn # c

\* The exchanges in S that still wait for a response will get none.
Unanswered(S) ==
    [i \in Exchange |-> IF i \in S /\ fate[i] = "asked" THEN "unanswered" ELSE fate[i]]

\* HTTP_REQUEST with a known method, sent by the pod.  It replaces the request
\* of its connection that waits for a response.  Unless SlotsKept, it may get the
\* slot that v had when no key leads to it any more, also when a CPU still has a
\* pointer to that slot: the CPU then finds i behind it.
RequestPacket(i, c, v) ==
    LET new == UpdateElem(http_processing_map, c, i, ProcessingMax)
    IN  /\ filter_map
        /\ fate[i] = "none"
        /\ MayFilter(c)
        /\ http_processing_map' = new
        /\ conn' = [conn EXCEPT ![i] = c]
        /\ fate' = [Unanswered({http_processing_map[c]}) EXCEPT
                       ![i] = IF new[c] = i THEN "asked" ELSE "unanswered"]
        /\ v # None =>
               /\ ~SlotsKept
               /\ new[c] = i
               /\ \A d \in Conn : http_processing_map[d] # v
        /\ cpu' = [k \in CPU |-> IF v # None /\ cpu[k].val = v
                                 THEN [cpu[k] EXCEPT !.val = i]
                                 ELSE cpu[k]]
        /\ UNCHANGED <<filter_map, metrics_map, reader, ch, exporter, answered, sent>>

\* HTTP_RESPONSE: the lookup, and duration and status written in place.
ResponseMatch(k, c) ==
    LET i == http_processing_map[c]
    IN  /\ cpu[k] = Idle
        /\ MayFilter(c)
        /\ i # None
        /\ cpu' = [cpu EXCEPT ![k] = [pc |-> "matched", conn |-> c, val |-> i]]
        /\ fate' = [fate EXCEPT ![i] = IF @ = "asked" THEN "flying" ELSE @]
        /\ answered' = [answered EXCEPT ![c] = @ + 1]
        /\ UNCHANGED <<filter_map, http_processing_map, metrics_map, reader, ch,
                       exporter, conn, sent>>

\* The clean-up, by key.
ResponseDelete(k) ==
    /\ cpu[k].pc = "matched"
    /\ http_processing_map' = DeleteElem(http_processing_map, cpu[k].conn)
    /\ fate' = Unanswered({http_processing_map[cpu[k].conn]})
    /\ cpu' = [cpu EXCEPT ![k].pc = "deleted"]
    /\ UNCHANGED <<filter_map, metrics_map, reader, ch, exporter, conn, answered,
                   sent>>

\* The reader has taken what metrics_map holds for c, and not deleted it yet.
Taken(c) == reader.pc # "next" /\ reader.key = c /\ reader.val = metrics_map[c]

\* Mutant: metrics_map keyed by something other than the connection.
MetricsKeyConstant(k) == CHOOSE c \in Conn : TRUE

\* compose_conn_key gives a response the key of its request.
MetricsKey(k) == cpu[k].conn

\* The value stored is read through the pointer that the lookup returned.
ResponseStore(k) ==
    LET c == MetricsKey(k)
        i == cpu[k].val
        old == metrics_map[c]
    IN  /\ cpu[k].pc = "deleted"
        /\ metrics_map' = UpdateElem(metrics_map, c, i, MetricsMax)
        /\ fate' = IF ~Fits(metrics_map, c, MetricsMax)
                   THEN [fate EXCEPT ![i] = "rejected"]
                   ELSE IF old \notin {None, i} /\ ~Taken(c)
                   THEN [fate EXCEPT ![old] = "overwritten"]
                   ELSE fate
        /\ cpu' = [cpu EXCEPT ![k] = Idle]
        /\ UNCHANGED <<filter_map, http_processing_map, reader, ch, exporter,
                       conn, answered, sent>>

-----------------------------------------------------------------------------
(* FanInMetric.                                                            *)

\* m.Iterate().Next(&key, &val); Load starts the goroutine after the Put.
ReaderNext(c) ==
    /\ filter_map
    /\ reader.pc = "next"
    /\ metrics_map[c] # None
    /\ reader' = [pc |-> "decode", key |-> c, val |-> metrics_map[c]]
    /\ UNCHANGED <<filter_map, http_processing_map, metrics_map, cpu, ch, exporter,
                   conn, answered, sent, fate>>

\* decodeMetrics.  Its error is logged, and then *metric dereferences nil: the
\* panic is recovered by the deferred function, and the goroutine has ended.
ReaderDecode ==
    /\ reader.pc = "decode"
    /\ IF reader.val \in Undecodable
       THEN /\ reader' = [reader EXCEPT !.pc = "ended"]
            /\ fate' = [fate EXCEPT ![reader.val] = "undecoded"]
       ELSE /\ reader' = [reader EXCEPT !.pc = "send"]
            /\ UNCHANGED fate
    /\ UNCHANGED <<filter_map, http_processing_map, metrics_map, cpu, ch, exporter,
                   conn, answered, sent>>

\* e.ch <- *metric blocks while the channel is full.  The metric has the
\* addresses of the key and the content of the value.
ReaderSend ==
    /\ reader.pc = "send"
    /\ Len(ch) < ChCap
    /\ ch' = Append(ch, reader.val)
    /\ reader' = [reader EXCEPT !.pc = "delete"]
    /\ sent' = [sent EXCEPT ![reader.key] = @ + 1]
    /\ UNCHANGED <<filter_map, http_processing_map, metrics_map, cpu, exporter,
                   conn, answered, fate>>

\* Mutant: the entry is not deleted.
MetricsAfterReadKept == metrics_map

\* m.Delete(key)
MetricsAfterRead == DeleteElem(metrics_map, reader.key)

\* The rest of the loop: an exchange that arrived under the key since Next is
\* deleted unread.
ReaderDelete ==
    LET now == metrics_map[reader.key]
    IN  /\ reader.pc = "delete"
        /\ metrics_map' = MetricsAfterRead
        /\ fate' = IF now \notin {None, reader.val} THEN [fate EXCEPT ![now] = "unread"]
                   ELSE fate
        /\ reader' = [pc |-> "next", key |-> None, val |-> None]
        /\ UNCHANGED <<filter_map, http_processing_map, cpu, ch, exporter, conn,
                       answered, sent>>

-----------------------------------------------------------------------------
(* The export goroutine of Gather.                                         *)

\* Mutant: the goroutine returns at the first external target.
ExporterSkipsOnce == "ended"

\* `if export != nil' is the whole treatment of an external target.
ExporterSkips == None

\* Convert returns nil for a target that is neither pod nor service.
ExportReceive(external) ==
    /\ exporter = None
    /\ ch # <<>>
    /\ ch' = Tail(ch)
    /\ IF external
       THEN /\ fate' = [fate EXCEPT ![Head(ch)] = "skipped"]
            /\ exporter' = ExporterSkips
       ELSE /\ exporter' = Head(ch)
            /\ UNCHANGED fate
    /\ UNCHANGED <<filter_map, http_processing_map, metrics_map, cpu, reader, conn,
                   answered, sent>>

\* c <- export
ExportForward ==
    /\ exporter \in Exchange
    /\ fate' = [fate EXCEPT ![exporter] = "reported"]
    /\ exporter' = None
    /\ UNCHANGED <<filter_map, http_processing_map, metrics_map, cpu, reader, ch,
                   conn, answered, sent>>

-----------------------------------------------------------------------------

Next ==
    \/ PutFilter
    \/ \E i \in Exchange, c \in Conn, v \in Exchange \cup {None} : RequestPacket(i, c, v)
    \/ \E k \in CPU, c \in Conn : ResponseMatch(k, c)
    \/ \E k \in CPU : ResponseDelete(k) \/ ResponseStore(k)
    \/ \E c \in Conn : ReaderNext(c)
    \/ ReaderDecode
    \/ ReaderSend
    \/ ReaderDelete
    \/ \E external \in BOOLEAN : ExportReceive(external)
    \/ ExportForward

Spec == Init /\ [][Next]_vars

\* Load goes on, the goroutines and the filter run to their next step; packets
\* are the environment's.
Fairness ==
    /\ WF_vars(PutFilter)
    /\ \A k \in CPU : WF_vars(ResponseDelete(k)) /\ WF_vars(ResponseStore(k))
    /\ WF_vars(\E c \in Conn : ReaderNext(c))
    /\ WF_vars(ReaderDecode)
    /\ WF_vars(ReaderSend)
    /\ WF_vars(ReaderDelete)
    /\ WF_vars(\E external \in BOOLEAN : ExportReceive(external))
    /\ WF_vars(ExportForward)

FairSpec == Spec /\ Fairness

-----------------------------------------------------------------------------
(* Properties.                                                             *)

\* The places where an answered exchange can be.  A map entry the reader has
\* taken counts as the reader's.
Where(i) ==
    {<<"cpu", k>> : k \in {k \in CPU : cpu[k].val = i}}
    \cup {<<"map", c>> : c \in {c \in Conn : metrics_map[c] = i /\ ~Taken(c)}}
    \cup {<<"ch", n>> : n \in {n \in DOMAIN ch : ch[n] = i}}
    \cup {<<"hand", g>> : g \in {g \in {"reader", "exporter"} :
              IF g = "reader" THEN reader.pc \in {"decode", "send"} /\ reader.val = i
              ELSE exporter = i}}

\* Exchanges on connections whose packets are filtered one at a time.
InOrder == {i \in Exchange : conn[i] \in Pinned}

\* If packets of its connection are filtered one at a time, an answered exchange
\* is in exactly one place until it is reported or dropped, and in none
\* afterwards: it is reported once, although its map entry stays while the
\* reader waits for the channel.
AccountedFor ==
    SlotsKept =>
        \A i \in InOrder :
            Cardinality(Where(i)) = IF fate[i] = "flying" THEN 1 ELSE 0

\* The probe sends no more metrics of a connection than it has matched responses
\* of it, also when CPUs filter packets of one connection at the same time and a
\* CPU stores another connection's exchange from a reused slot: a metric sent
\* before its entry is deleted is not sent again, and what is stored meanwhile is
\* sent once at most.
NoReportWithoutResponse == \A c \in Conn : sent[c] <= answered[c]

\* An exchange that was stored is lost only to another of its connection that
\* was answered before the reader came.
LostToSameConnection ==
    SlotsKept =>
        \A i \in Exchange :
            fate[i] \in {"overwritten", "unread"} =>
                \E j \in Exchange \ {i} :
                    conn[j] = conn[i] /\ fate[j] \notin {"none", "asked", "unanswered"}

\* If packets of its connection are filtered one at a time, the request that a
\* response deletes is the one it answers.
OnlyAnsweredLeave ==
    [][SlotsKept =>
        \A c \in Pinned :
            http_processing_map[c] # None /\ http_processing_map'[c] = None =>
                fate'[http_processing_map[c]] \notin {"asked", "unanswered"}]_vars

Settled(ends) == {i \in InOrder : fate[i] \in ends}

D == INSTANCE Delivery WITH
        Item <- Exchange,
        pending <- Settled({"flying"}),
        delivered <- Settled({"reported"}),
        lost <- Settled({"overwritten", "rejected", "unread", "undecoded", "skipped"})

\* The probe implements the at-most-once stage for answered exchanges of
\* connections whose packets are filtered one at a time.
RefinesDelivery == D!Spec

\* Every answered exchange leaves the probe.  One that cannot be decoded is
\* reported as an error and does not stop the others: not so in the code, where
\* the decode error ends the reader.
EveryExchangeSettles ==
    \A i \in Exchange : fate[i] = "flying" ~> fate[i] # "flying"

============================================================================
