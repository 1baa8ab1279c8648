------------------------------ MODULE Classify ------------------------------
(***************************************************************************)
(* The head of the rpc filter: a packet is classified (Protocols), packets *)
(* of known gRPC connections pass as gRPC, and AMQP method frames are      *)
(* counted per directed tuple in amqp_filter_map until a frame of class    *)
(* connection turns the entry into a trace for amqp_trace_map (a goroutine *)
(* takes the traces from there and logs them).  What happens to requests   *)
(* and responses of the other protocols is RpcProbe; grpc_connections      *)
(* loses keys in SockTrack only.  Times are left out.                      *)
(***************************************************************************)
EXTENDS Protocols

CONSTANTS
    Tuple,       \* directed connection tuples
    Packets,     \* tuple -> the packets that may come: bytes and, of one with a
                 \* HEADERS frame, where its frames and its fields are
    None,
    MaxCount     \* bound: AMQP methods, and repetitions, counted in one entry

\* amqp_data: class and method as is_amqp lets them through.
Entry == [hdr : [class : {10, 50, 60}, method : {11, 20, 40, 50, 51, 60}],
          type : {"UNKNOWN", "PUBLISH", "CONSUME"}, count : Nat]

ASSUME ClassifyAssumption == MaxCount \in Nat /\ None \notin Entry

\* A length and a string of that length: bytes i to j of code.
IsString(code, i, j) == i <= j /\ code[i] % 128 = j - i /\ j - i < 127

\* The encodings of a header field the statement is about: an index, a value with
\* the index of its name, a new name and its value.  Indices and lengths fit
\* into the byte they begin in.
IsEncoding(code) ==
    \/ Len(code) = 1 /\ code[1] \in 129 .. 190
    \/ Len(code) >= 2 /\ code[1] \in 65 .. 126 /\ IsString(code, 2, Len(code))
    \/ /\ Len(code) >= 3 /\ code[1] = 64
       /\ \E i \in 3 .. Len(code) : IsString(code, 2, i - 1) /\ IsString(code, i, Len(code))

\* What the static table of HPACK says of the fields the filter looks for; of the
\* two paths in it these are HTTP2_PATH_HEADER_IDX.
FieldName(code) ==
    CASE code[1] = 130 -> "GET"
      [] code[1] \in {66, 67} -> "method"
      [] code[1] \in {69, 133} -> "path"
      [] code[1] \in {72, 136} -> "status"
      [] code[1] = 95 -> IF Has(code, 2, GrpcType) THEN "grpc" ELSE "json"
      [] OTHER -> "other"

\* The bytes hold whole frames, the last of them the first HEADERS frame, and
\* its payload is the fields, one behind the other.
IsHeaders(p) ==
    LET s == p.bytes
        frame == p.frames
        field == p.fields
        m == Len(frame)
        n == Len(field)
        behind(k) == field[k].at + Len(field[k].code)
    IN  /\ frame \in Seq(Nat) /\ m \in 1 .. MaxFrames
        /\ frame[1] = IF Has(s, 0, Http2Preface) THEN Len(Http2Preface) ELSE 0
        /\ \A k \in 1 .. m : IsFrame(s, frame[k]) /\ (Byte(s, frame[k] + 3) = 1 <=> k = m)
        /\ \A k \in 1 .. m - 1 : frame[k + 1] = frame[k] + 9 + FrameLength(s, frame[k])
        /\ field \in Seq([name : STRING, code : Seq(0 .. 255), at : Nat]) /\ n >= 1
        /\ \A k \in 1 .. n : /\ IsEncoding(field[k].code)
                             /\ field[k].name = FieldName(field[k].code)
                             /\ Has(s, field[k].at, field[k].code)
        /\ field[1].at = frame[m] + 9
        /\ \A k \in 1 .. n - 1 : field[k + 1].at = behind(k)
        /\ behind(n) = frame[m] + 9 + FrameLength(s, frame[m])

ASSUME PacketsAssumption ==
    \A t \in Tuple : \A p \in Packets[t] :
      p.bytes \in Seq(0 .. 255) /\ (p.fields # None => IsHeaders(p))

VARIABLES
    grpc_connections,  \* tuples known to carry gRPC
    amqp_filter_map,   \* tuple -> [hdr, type, count] or None
    last,              \* the packet in the filter, how it was classified and the
                       \* trace it left in amqp_trace_map
    since              \* tuple -> methods that count since its last trace, and
                       \* protocol headers that found one (history)

vars == <<grpc_connections, amqp_filter_map, last, since>>
amqpVars == <<amqp_filter_map, since>>

Nothing == [methods |-> 0, again |-> 0]

Init ==
    /\ grpc_connections = {}
    /\ amqp_filter_map = [t \in Tuple |-> None]
    /\ last = None
    /\ since = [t \in Tuple |-> Nothing]

Result(p, v, trace) == [packet |-> p, verdict |-> v, trace |-> trace]

\* The order of rpc__filter_package: a protocol that matches ends the search.
\* With Dubbo's magic nothing else is tried.
Classification(s) ==
    LET mysql == JudgeMysql(s)
        redis == JudgeRedis(s)
    IN  IF IsDubboMagic(s) THEN JudgeDubbo(s)
        ELSE IF mysql # No THEN mysql
        ELSE IF redis # No THEN redis
        ELSE IF IsAmqp(s) THEN Verdict("AMQP", "UNKNOWN")
        ELSE Verdict("HTTP2", JudgeRpc(s).phase)

\* A packet of Dubbo, MySQL or Redis, or one that is dropped.
OtherPacket(t, p) ==
    LET v == Classification(p.bytes)
    IN  /\ last = None
        /\ v.type \notin {"AMQP", "HTTP2"}
        /\ last' = Result(p, v, None)
        /\ UNCHANGED <<grpc_connections, amqpVars>>

\* gRPC: the content type makes the tuple known; packets of a known tuple are
\* gRPC whatever they hold.
Http2Packet(t, p) ==
    LET s == p.bytes
        r == JudgeRpc(s)
        known == IF r.status = "GRPC" THEN grpc_connections \cup {t}
                 ELSE grpc_connections
    IN  /\ last = None
        /\ Classification(s).type = "HTTP2"
        /\ grpc_connections' = known
        /\ last' = Result(p, IF t \in known THEN Verdict("GRPC", r.phase) ELSE No, None)
        /\ UNCHANGED amqpVars

-----------------------------------------------------------------------------
(* AMQP.                                                                   *)

\* amqp_data.hdr: class and method of the last method frame.
Hdr(s) == [class |-> AmqpClass(s), method |-> AmqpMethod(s)]

Counted(h) == h.class \in {50, 60} /\ h.method \in {40, 20, 60}

\* The entry after socket__amqp_filter has looked at its header.  The cases fall
\* through: a queue bind counts as a consume, a publish too, but keeps its type.
EntryAfter(e) ==
    LET type == IF e.hdr.method = 40 THEN "PUBLISH"
                ELSE IF e.hdr.method = 20 /\ e.type # "PUBLISH" THEN "CONSUME" ELSE e.type
    IN  IF Counted(e.hdr) THEN [e EXCEPT !.type = type, !.count = @ + 1] ELSE e

\* Start-Ok, Close and Close-Ok of a connection end the entry.
Ends(h) == h.method \in {11, 50, 51}

\* Mutant: the entry stays behind its trace.
FilterMapKept(t, e, traced) == [amqp_filter_map EXCEPT ![t] = e]
FilterMapAfter(t, e, traced) ==
    [amqp_filter_map EXCEPT ![t] = IF traced THEN None ELSE e]

Tally(h, kind) == [h EXCEPT ![kind] = @ + 1]

\* is_amqp makes the entry or sets its header, socket__amqp_filter (a tail call)
\* fills it; an entry of no type is not traced.  A protocol header makes no
\* entry, but if the tuple has one, the filter looks at its old header again.
\* Tuples do not share entries; the packets of one tuple are taken to be filtered
\* one at a time, as receive steering arranges.
AmqpPacket(t, p) ==
    LET s == p.bytes
        method == IsAmqpMethod(s)
        old == amqp_filter_map[t]
        found == IF ~method THEN old
                 ELSE IF old = None THEN [hdr |-> Hdr(s), type |-> "UNKNOWN", count |-> 0]
                 ELSE [old EXCEPT !.hdr = Hdr(s)]
        e == EntryAfter(found)
        traced == Ends(e.hdr) /\ e.type # "UNKNOWN"
        kind == IF method THEN "methods" ELSE "again"
    IN  /\ last = None
        /\ Classification(s).type = "AMQP"
        /\ last' = Result(p, Verdict("AMQP", "UNKNOWN"),
                          IF found # None /\ traced
                          THEN [event |-> e, counted |-> since[t]] ELSE None)
        /\ IF found # None
           THEN /\ since[t][kind] < MaxCount \/ ~Counted(e.hdr)
                /\ amqp_filter_map' = FilterMapAfter(t, e, traced)
                /\ since' = [since EXCEPT ![t] = IF traced THEN Nothing
                                                 ELSE IF Counted(e.hdr)
                                                 THEN Tally(@, kind) ELSE @]
           ELSE UNCHANGED amqpVars
        /\ UNCHANGED grpc_connections

\* The filter is through with the packet.
Done ==
    /\ last # None
    /\ last' = None
    /\ UNCHANGED <<grpc_connections, amqpVars>>

Next ==
    \/ \E t \in Tuple : \E p \in Packets[t] :
         OtherPacket(t, p) \/ Http2Packet(t, p) \/ AmqpPacket(t, p)
    \/ Done

Spec == Init /\ [][Next]_vars

-----------------------------------------------------------------------------
(* Properties.                                                             *)

\* What a list of header fields says, read as HPACK: the first field that
\* settles the question, and the last path or status up to it, among the first
\* limit.  An indexed field counts for the phase unless it is the last:
\* get_status wants a byte behind it.
Settles(f) == f.name \in {"GET", "method", "grpc", "json"}
Unsettled(fields, k) == \A i \in 1 .. k - 1 : ~Settles(fields[i])
Phased(fields, k) ==
    /\ fields[k].name \in {"path", "status"}
    /\ Len(fields[k].code) = 1 => k < Len(fields)

Reading(fields, limit) ==
    LET upto == {k \in DOMAIN fields : k <= limit /\ Unsettled(fields, k)}
        phases == {k \in upto : Phased(fields, k)}
        settled == {k \in upto : Settles(fields[k])}
    IN  [status |-> IF settled = {} THEN "UNDETERMINED"
                    ELSE IF \E k \in settled : fields[k].name = "grpc" THEN "GRPC"
                    ELSE "NOT_GRPC",
         phase |-> IF phases = {} THEN "UNKNOWN"
                   ELSE IF fields[CHOOSE k \in phases : \A i \in phases : i <= k].name = "path"
                        THEN "REQUEST" ELSE "RESPONSE"]

\* The offsets of scan_headers and judge_rpc stay in step with the header
\* block: for a HEADERS frame, behind the preface or other frames or not, the
\* filter finds the status and the phase that its fields, read one by one,
\* have.  (Fields are indexed ones below 64 and literals with indexing.)
ScanAgrees ==
    last # None /\ last.packet.fields # None =>
      LET r == JudgeRpc(last.packet.bytes)
      IN  [status |-> r.status, phase |-> r.phase] = Reading(last.packet.fields, MaxHeaders)

\* A trace counts the publishes, consumes, delivers and binds on its tuple since
\* the trace before it, each once, whatever came in between on either direction;
\* only a protocol header on a tuple that still has an entry (a new connection
\* on the ports of one that ended without Close) repeats one.
TraceCounts ==
    last # None /\ last.trace # None =>
      LET n == last.trace.counted
      IN  last.trace.event.count \in n.methods .. n.methods + n.again
============================================================================
