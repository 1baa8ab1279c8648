----------------------------- MODULE KafkaProbe -----------------------------
(***************************************************************************)
(* The kafka probe of one interface: the socket filter with its maps       *)
(* kafka_in_flight, kafka_response and kafka_event, the goroutine that     *)
(* drains kafka_event, and sendMetrics.                                    *)
(*                                                                         *)
(* A connection has two directed tuples.  What a peer sends on a tuple is  *)
(* a stream of bytes, of which the filter sees segments [base, end): in    *)
(* order, again (a retransmission), or not at all (a segment lost to the   *)
(* capture).  Requests and responses are parsed from these bytes.          *)
(*                                                                         *)
(* kafka_in_flight is declared with a key of 4 bytes, while the code       *)
(* passes a kafka_transaction_key_t: only the first half of saddr_h is     *)
(* compared, which is 0 for IPv4.  All connections share one slot.         *)
(*                                                                         *)
(* The filter runs on one packet at a time; what it stores in kafka_event  *)
(* it stores one update after the other (writes), and the reader may come  *)
(* in between.  Times are left out.                                        *)
(***************************************************************************)
EXTENDS KafkaParser, FiniteSetsExt

Reports == INSTANCE BagsExt

CONSTANTS
    Conn,         \* connections
    Worlds,       \* what the peers may send: a sequence of functions from Tuple
                  \* to streams
    None,         \* no entry
    ChCap,        \* capacity of the channel p.ch (100 in the code)
    MaxOld,       \* bound: retransmitted segments
    MaxLost       \* bound: segments the capture loses

ASSUME KafkaProbeAssumption == ChCap \in Nat \ {0} /\ MaxOld \in Nat /\ MaxLost \in Nat

VARIABLES
    world,           \* which of the Worlds this is
    sent,            \* tuple -> bytes sent so far
    kafka_in_flight, \* the slot: a transaction or None
    kafka_response,  \* tuple -> [c, tx, begin]: parser context, transaction
    kafka_event,     \* tuple -> transaction or None
    writes,          \* updates of kafka_event the filter has still to make
    reader,          \* the reader goroutine: its step, key and value
    ch,              \* p.ch
    reported,        \* the transactions for which metrics were sent, a bag
    old, lost        \* segments retransmitted and lost so far

vars == <<world, sent, kafka_in_flight, kafka_response, kafka_event, writes,
          reader, ch, reported, old, lost>>
filterVars == <<kafka_in_flight, kafka_response, writes>>
readerVars == <<kafka_event, reader, ch, reported>>

Tuple == Conn \X {"request", "response"}
Flip(t) == <<t[1], IF t[2] = "request" THEN "response" ELSE "request">>

\* What is sent on a tuple: bytes, ends (where segments may end), starts (of
\* responses in step) and batches.
Stream(t) == Worlds[world][t]

\* Streams are of bytes, and their segments end in them.
ASSUME WorldsAssumption ==
    \A w \in DOMAIN Worlds : \A t \in Tuple :
      /\ Worlds[w][t].bytes \in Seq(0 .. 255)
      /\ Worlds[w][t].ends \subseteq 0 .. Len(Worlds[w][t].bytes)

\* What the filter can read: the segment [base, end) of tuple t.  Before it are
\* the packet's headers, here zeros like what bpf_skb_load_bytes leaves when it
\* fails.
Packet(t, base, end) ==
    [p \in Int |-> IF p \in base + 1 .. end THEN Stream(t).bytes[p] ELSE 0]

\* kafka_transaction_t; a transaction is named by the segment that made it.
Transaction == [from : Tuple, base : Nat, no : Nat, api : {0, 1}, version : 0 .. 11,
                records : Nat]

-----------------------------------------------------------------------------
(* Requests.                                                               *)

Signed16(s, p) == LET n == Unsigned(s, p, 2) IN IF n > 32767 THEN n - 65536 ELSE n

Positive(n) == IF n > 0 THEN n ELSE 0

\* Without the upper limit of the fetch version.
AnyFetchVersion(h) ==
    /\ h.size >= 14 /\ h.version >= 0
    /\ h.api \in {0, 1}
    /\ h.api = 0 => h.version \in 1 .. 8
    /\ h.correlation_id >= 0
    /\ h.client_id_size >= -1

\* is_valid_kafka_request_header
IsValidHeader(h) ==
    /\ h.size >= 14 /\ h.version >= 0
    /\ \/ h.api = 1 /\ h.version <= 11
       \/ h.api = 0 /\ h.version \in 1 .. 8
    /\ h.correlation_id >= 0
    /\ h.client_id_size >= -1

\* kafka_header_t, all zero if the segment is too short for it.
Header(s, p, end) ==
    IF end - p < 14
    THEN [size |-> 0, api |-> 0, version |-> 0, correlation_id |-> 0,
          client_id_size |-> 0]
    ELSE [size |-> Signed32(s, p), api |-> Signed16(s, p + 4),
          version |-> Signed16(s, p + 6), correlation_id |-> Signed32(s, p + 8),
          client_id_size |-> Signed16(s, p + 12)]

\* CHECK_STRING_COMPOSED_OF_ASCII: letters, digits, '.', '_' and '-'.
IsNameChar(b) == b \in (97 .. 122) \cup (65 .. 90) \cup (48 .. 57) \cup {45, 46, 95}

\* is_valid_client_id: 15 bytes are loaded, or none; the first n are printable.
IsValidClientId(s, p, n, end) ==
    n > 0 => p + 15 <= end /\ \A k \in 1 .. 15 : k <= n => s[p + k] \in 32 .. 126

\* get_topic_offset_from_produce_request
ProduceTopic(s, p, version, end) ==
    LET q == IF version >= 3 /\ p + 2 <= end THEN p + 2 + Positive(Signed16(s, p)) ELSE p
    IN  [off |-> q + 6,
         ok |-> /\ version >= 3 => p + 2 <= end
                /\ q + 6 <= end
                /\ Signed16(s, q) \in -1 .. 1
                /\ Signed32(s, q + 2) >= 0]

\* get_topic_offset_from_fetch_request
FetchTopic(p, version) ==
    p + 12 + (IF version >= 3 THEN 4 ELSE 0) + (IF version >= 4 THEN 1 ELSE 0)
           + (IF version >= 7 THEN 8 ELSE 0)

\* read_first_topic_name_size and the check of the name
TopicSize(s, p, end) == IF p + 2 <= end THEN Signed16(s, p) ELSE 0

IsValidTopic(s, p, end) ==
    LET n == TopicSize(s, p, end)
    IN  /\ n \in 1 .. 255
        /\ \A k \in 1 .. 48 : k <= n => p + 2 + k <= end /\ IsNameChar(s[p + 2 + k])

\* One partition, magic 2, and the count of the first record batch.
ProduceRecords(s, p, end) ==
    IF p + 73 <= end /\ Signed32(s, p) = 1 /\ s[p + 29] = 2
    THEN Signed32(s, p + 69) ELSE 0

\* kafka_process as far as the header and the topic are concerned: the
\* transaction of a request, or None.
ParseRequest(t, base, end, no) ==
    LET s == Packet(t, base, end)
        h == Header(s, base, end)
        p == base + 14 + Positive(h.client_id_size)
        produce == ProduceTopic(s, p, h.version, end)
        topic == 4 + (IF h.api = 0 THEN produce.off ELSE FetchTopic(p, h.version))
        records == IF h.api = 1 THEN 0
                   ELSE ProduceRecords(s, topic + 2 + TopicSize(s, topic, end), end)
    IN  IF /\ IsValidHeader(h)
           /\ IsValidClientId(s, base + 14, h.client_id_size, end)
           /\ h.api = 0 => produce.ok
           /\ IsValidTopic(s, topic, end)
           /\ h.api = 0 => records > 0
        THEN [from |-> t, base |-> base, no |-> no, api |-> h.api,
              version |-> h.version, records |-> records]
        ELSE None

-----------------------------------------------------------------------------
(* The filter.                                                             *)

Init ==
    /\ world \in DOMAIN Worlds
    /\ sent = [t \in Tuple |-> 0]
    /\ kafka_in_flight = None
    /\ kafka_response = [t \in Tuple |-> None]
    /\ kafka_event = [t \in Tuple |-> None]
    /\ writes = <<>>
    /\ reader = [at |-> "next", key |-> None, val |-> None]
    /\ ch = <<>>
    /\ reported = [tx \in {} |-> 0]
    /\ old = 0 /\ lost = 0

\* An update of kafka_event; begin and upto, the bytes it is about, are not
\* stored.
Event(t, x) ==
    [key |-> t, val |-> [x.tx EXCEPT !.records = x.c.records],
     begin |-> x.begin, upto |-> x.c.expected]

\* The response parser has ended with result ret, and left the context x.  DONE
\* is written to kafka_event by kafka_batch_enqueue_wrapper and again by the
\* program; running out of tail calls too, but the first only if records were
\* found.
ParserEnds(t, x, ret, before) ==
    /\ kafka_response' = [kafka_response EXCEPT ![t] = IF ret = "EOP" THEN x ELSE None]
    /\ writes' = before \o
            CASE ret \in {"EOP", "ERR"} -> <<>>
              [] ret = "LOOP_END" /\ x.c.records = 0 -> <<Event(t, x)>>
              [] OTHER -> <<Event(t, x), Event(t, x)>>

\* The response parser on one segment.
RunParser(t, x, base, end, before) ==
    \E q \in {ParseSegment(x.c, Packet(t, base, end), base, end)} :
        ParserEnds(t, [x EXCEPT !.c = q.c], q.ret, before)

\* kafka_process_new_response: any segment of 8 bytes takes the slot.
NewResponse(t, base, end, before) ==
    /\ kafka_in_flight # None /\ end - base >= 8
    /\ kafka_in_flight' = None
    /\ RunParser(t, [c |-> NewContext(kafka_in_flight.version, end),
                     tx |-> kafka_in_flight, begin |-> base], base, end, before)

\* kafka_process, reached if the segment is no response.  A fetch waits in the
\* slot unless another one does (BPF_NOEXIST), a produce is an event.
Request(t, base, end, no, before) ==
    LET tx == ParseRequest(t, base, end, no)
    IN  /\ kafka_in_flight = None \/ end - base < 8
        /\ kafka_response' = [kafka_response EXCEPT ![t] = None]
        /\ kafka_in_flight' = IF tx # None /\ tx.api = 1 /\ kafka_in_flight = None
                              THEN tx ELSE kafka_in_flight
        /\ writes' = IF tx # None /\ tx.api = 0
                     THEN Append(before, [key |-> t, val |-> tx, begin |-> base, upto |-> end]) ELSE before

\* socket__kafka_filter and kafka_process_response on the segment [base, end).
Filter(t, base, end, no) ==
    LET x == kafka_response[t]
        flushed == IF x # None /\ x.c.records > 0 THEN <<Event(t, x)>> ELSE <<>>
    IN  /\ writes = <<>>
        /\ \/ /\ x # None /\ base = x.c.expected
              /\ RunParser(t, [x EXCEPT !.c.expected = end], base, end, <<>>)
              /\ UNCHANGED kafka_in_flight
           \/ /\ x # None /\ base < x.c.expected
              /\ UNCHANGED filterVars
           \/ /\ x # None => base > x.c.expected
              /\ NewResponse(t, base, end, flushed) \/ Request(t, base, end, no, flushed)

\* A peer's next segment.  Responses are sent once the requests are.
MaySend(t, end) ==
    /\ end \in Stream(t).ends /\ end > sent[t]
    /\ t[2] = "response" => sent[Flip(t)] = Len(Stream(Flip(t)).bytes)

Segment(t, end) ==
    /\ MaySend(t, end)
    /\ Filter(t, sent[t], end, 0)
    /\ sent' = [sent EXCEPT ![t] = end]
    /\ UNCHANGED <<world, readerVars, old, lost>>

\* A segment, or more, sent again.
Retransmission(t, base, end) ==
    /\ old < MaxOld
    /\ base \in Stream(t).ends \cup {0} /\ end \in Stream(t).ends
    /\ base < end /\ end <= sent[t]
    /\ Filter(t, base, end, old + 1)
    /\ old' = old + 1
    /\ UNCHANGED <<world, sent, readerVars, lost>>

LostSegment(t, end) ==
    /\ lost < MaxLost
    /\ MaySend(t, end)
    /\ sent' = [sent EXCEPT ![t] = end]
    /\ lost' = lost + 1
    /\ UNCHANGED <<world, filterVars, readerVars, old>>

\* FIN or RST: the contexts of both directions go, and what they counted.
Termination(t) ==
    /\ writes = <<>>
    /\ kafka_response' = [kafka_response EXCEPT ![t] = None, ![Flip(t)] = None]
    /\ sent' = [sent EXCEPT ![t] = Len(Stream(t).bytes)]
    /\ UNCHANGED <<world, kafka_in_flight, writes, readerVars, old, lost>>

\* bpf_map_update_elem of kafka_event with BPF_ANY
UpdateEvent ==
    /\ writes # <<>>
    /\ kafka_event' = [kafka_event EXCEPT ![Head(writes).key] = Head(writes).val]
    /\ writes' = Tail(writes)
    /\ UNCHANGED <<world, sent, kafka_in_flight, kafka_response, reader, ch,
                   reported, old, lost>>

-----------------------------------------------------------------------------
(* The reader goroutine of Ebpf.Load, and sendMetrics.                     *)

ReaderNext(t) ==
    /\ reader.at = "next" /\ kafka_event[t] # None
    /\ reader' = [at |-> "delete", key |-> t, val |-> kafka_event[t]]
    /\ UNCHANGED <<world, sent, filterVars, kafka_event, ch, reported, old, lost>>

\* kafka_event after the reader's Delete, and a mutant without it.
EventKept(t) == kafka_event
EventAfterDelete(t) == [kafka_event EXCEPT ![t] = None]

ReaderDelete ==
    /\ reader.at = "delete"
    /\ kafka_event' = EventAfterDelete(reader.key)
    /\ reader' = [reader EXCEPT !.at = "send"]
    /\ UNCHANGED <<world, sent, filterVars, ch, reported, old, lost>>

ReaderSend ==
    /\ reader.at = "send" /\ Len(ch) < ChCap
    /\ ch' = Append(ch, reader.val)
    /\ reader' = [at |-> "next", key |-> None, val |-> None]
    /\ UNCHANGED <<world, sent, filterVars, kafka_event, reported, old, lost>>

\* sendMetrics: convert2Metric and c <- mc.  For a target that is neither pod nor
\* service mc is nil, and is sent too: the controller ignores it.
SendMetric(external) ==
    /\ ch # <<>>
    /\ reported' = IF external THEN reported
                   ELSE Reports!BagAdd(reported, [Head(ch) EXCEPT !.records = 0])
    /\ ch' = Tail(ch)
    /\ UNCHANGED <<world, sent, filterVars, kafka_event, reader, old, lost>>

Reader == (\E t \in Tuple : ReaderNext(t)) \/ ReaderDelete \/ ReaderSend

Next ==
    \/ \E t \in Tuple :
         \/ \E end \in Stream(t).ends : Segment(t, end) \/ LostSegment(t, end)
         \/ \E base \in Stream(t).ends \cup {0}, end \in Stream(t).ends :
              Retransmission(t, base, end)
         \/ Termination(t)
    \/ UpdateEvent \/ Reader
    \/ \E external \in BOOLEAN : SendMetric(external)

Spec == Init /\ [][Next]_vars

-----------------------------------------------------------------------------
(* Properties.                                                             *)

Context == [c : [state : States, partition_state : States, remainder : 0 .. 3,
                 num_bytes : Int, batch_length : Int, expected : Nat, carry : Nat,
                 partitions : Int, idx : Nat, count : Nat, version : 0 .. 11,
                 records : Nat],
            tx : Transaction, begin : Nat]

\* Only requests whose encoding the response parser knows are followed: the
\* versions in the maps are those of is_valid_kafka_request_header, and no
\* context is left with a negative offset or more than 3 bytes of remainder.
TypeOK ==
    /\ world \in DOMAIN Worlds
    /\ sent \in [Tuple -> Nat]
    /\ kafka_in_flight \in {None} \cup Transaction
    /\ \A t \in Tuple : kafka_response[t] = None \/ kafka_response[t] \in Context
    /\ kafka_event \in [Tuple -> {None} \cup Transaction]
    /\ reader.at \in {"next", "delete", "send"}
    /\ reader.key \in {None} \cup Tuple /\ reader.val \in {None} \cup Transaction
    /\ Len(ch) <= ChCap
    /\ \A tx \in DOMAIN reported : tx \in Transaction /\ reported[tx] \in Nat \ {0}

\* The records in the batches whose count lies in [from, to) of tuple t.
RecordsIn(t, from, to) ==
    MapThenSumSet(LAMBDA b : b.count, {b \in Stream(t).batches : from < b.at /\ b.at <= to})

\* However a response is cut into segments (between its 4-byte fields),
\* whatever is sent again or lost, and however often the parser stops at an
\* iteration or array limit and resumes: a context has counted each record
\* batch it has come across once, and an update of kafka_event counts each batch
\* of a beginning of the response once.  Stated for responses in step, those
\* the parser was entered at the start of, with their own request.
CountsWhole ==
    /\ \A t \in Tuple :
         LET x == kafka_response[t]
         IN  x # None /\ x.tx.from = Flip(t) /\ x.begin \in Stream(t).starts
               => x.c.records = RecordsIn(t, x.begin, x.c.expected)
    /\ \A i \in DOMAIN writes :
         LET w == writes[i]
         IN  w.val.from = Flip(w.key) /\ w.begin \in Stream(w.key).starts
               => \E p \in w.begin .. w.upto :
                    w.val.records = RecordsIn(w.key, w.begin, p)

\* A produce request the filter accepted is reported at most once.  A fetch is
\* stored twice when its response is done, and the reader may take both: it is
\* reported at most twice, whoever else's packets used its transaction.
BoundedReports ==
    \A tx \in DOMAIN reported : reported[tx] <= IF tx.api = 0 THEN 1 ELSE 2

\* A fetch is reported for the connection it was sent on: the code builds the
\* key of kafka_in_flight from the tuple and the correlation id.
OwnRequest ==
    \A t \in Tuple :
      kafka_event[t] # None =>
        kafka_event[t].from = IF kafka_event[t].api = 0 THEN t ELSE Flip(t)
============================================================================
