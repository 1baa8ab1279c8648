----------------------------- MODULE Protocols ------------------------------
(***************************************************************************)
(* How the rpc filter tells from the bytes of one packet which protocol it *)
(* belongs to, and whether it is a request or a response.  A packet is its *)
(* TCP payload s, a sequence of bytes; offsets count from 0.  A load that  *)
(* reaches beyond the packet yields zeros (bpf_skb_load_bytes clears the   *)
(* buffer when it fails), and so does the classification buffer.           *)
(*                                                                         *)
(* Words the filter compares with (SQL commands, the encoded content type  *)
(* "application/grpc", ...) are parameters: what matters is where they are *)
(* looked for.                                                             *)
(***************************************************************************)
EXTENDS Integers, Sequences

CONSTANTS
    SqlCommands,     \* ALTER, CREATE, DELETE, DROP, INSERT, SELECT, UPDATE, SHOW
    GrpcType,        \* GRPC_ENCODED_CONTENT_TYPE (11 bytes)
    Http2Preface,    \* PRI * HTTP/2.0 ... (24 bytes)
    AmqpPreface,     \* AMQP
    RedisErrors,     \* -ERR and -WRONGTYPE
    MaxFrames,       \* GRPC_MAX_FRAMES_TO_FILTER (10)
    MaxHeaders       \* GRPC_MAX_HEADERS_TO_PROCESS (10)

ASSUME ProtocolsAssumption ==
    /\ MaxFrames \in Nat \ {0} /\ MaxHeaders \in Nat \ {0}
    /\ GrpcType \in Seq(0 .. 255) /\ Http2Preface \in Seq(0 .. 255)

Byte(s, p) == IF p < Len(s) THEN s[p + 1] ELSE 0

\* The word w stands at offset p.
Has(s, p, w) == p + Len(w) <= Len(s) /\ SubSeq(s, p + 1, p + Len(w)) = w

Verdict(type, phase) == [type |-> type, phase |-> phase]
No == Verdict("NONE", "UNKNOWN")

-----------------------------------------------------------------------------
(* Dubbo, MySQL, Redis.                                                    *)

IsDubboMagic(s) == Has(s, 0, <<218, 187>>)

\* judge_dubbo_protocol.  The event flag is the lowest of the three bits that
\* are compared with 1.
JudgeDubbo(s) ==
    LET flags == Byte(s, 2)
        request == flags >= 128
    IN  IF \/ Len(s) < 3
           \/ flags \div 32 = 1
           \/ ~request /\ Len(s) < 4
           \/ request /\ Len(s) < 16 + 80
        THEN No
        ELSE Verdict("DUBBO", IF request THEN "REQUEST" ELSE "RESPONSE")

Upper(b) == IF b \in 97 .. 122 THEN b - 32 ELSE b

\* is_sql_command: six bytes of the query in upper case
IsSqlCommand(s) ==
    LET query == [k \in 1 .. 6 |-> Upper(Byte(s, 4 + k))]
    IN  \E w \in SqlCommands : SubSeq(query, 1, Len(w)) = w

IsDigit(b) == b \in 48 .. 57

\* is_version_component_helper: the length of one or two digits and delimiter d.
VersionComponent(s, p, d) ==
    IF ~IsDigit(Byte(s, p)) \/ p >= Len(s) THEN 0
    ELSE IF Byte(s, p + 1) = d /\ p + 1 < Len(s) THEN 2
    ELSE IF IsDigit(Byte(s, p + 1)) /\ Byte(s, p + 2) = d /\ p + 2 < Len(s) THEN 3
    ELSE 0

IsVersion(s) ==
    LET major == VersionComponent(s, 5, 46)
        minor == VersionComponent(s, 5 + major, 46)
    IN  Len(s) >= 10 /\ major > 0 /\ minor > 0
        /\ VersionComponent(s, 5 + major + minor, 0) > 0

\* is_mysql: header of 5 bytes, the last of which is the command type.  A server
\* greeting has no phase.
JudgeMysql(s) ==
    LET command == Byte(s, 4)
        response(ok) == IF ok THEN Verdict("MYSQL", "RESPONSE") ELSE No
    IN  IF Len(s) < 5 \/ (\A k \in 0 .. 2 : Byte(s, k) = 0) THEN No
        ELSE CASE command \in {3, 22} -> IF IsSqlCommand(s)
                                         THEN Verdict("MYSQL", "REQUEST") ELSE No
               [] command = 0 -> response(Byte(s, 7) = 2)
               [] command = 255 -> response(\E k \in 5 .. 8 : Byte(s, k) # 0)
               [] command \in {9, 10} -> IF IsVersion(s)
                                         THEN Verdict("MYSQL", "UNKNOWN") ELSE No
               [] OTHER -> response(Has(s, 10, <<100, 101, 102>>))

\* The first carriage return of the 24 bytes looked at, and a line feed behind.
HasLine(s) ==
    \E k \in 1 .. 23 : /\ Byte(s, k) = 13 /\ Byte(s, k + 1) = 10
                       /\ \A i \in 1 .. k - 1 : Byte(s, i) # 13

\* check_supported_ascii_and_crlf
IsAsciiLine(s) ==
    \E k \in 1 .. 23 :
      /\ Byte(s, k) = 13 /\ Byte(s, k + 1) = 10
      /\ \A i \in 1 .. k - 1 : Byte(s, i) \in (65 .. 90) \cup (97 .. 122) \cup (48 .. 57)
                                               \cup {46, 32, 45, 95}

\* is_redis: '*' for a request, '+' and '$' for a response, '-' for an error.
JudgeRedis(s) ==
    LET first == Byte(s, 0)
    IN  IF Len(s) < 3 THEN No
        ELSE IF first = 42 /\ HasLine(s) THEN Verdict("REDIS", "REQUEST")
        ELSE IF \/ first \in {43, 36} /\ IsAsciiLine(s)
                \/ first = 45 /\ \E w \in RedisErrors : Has(s, 0, w)
        THEN Verdict("REDIS", "RESPONSE")
        ELSE No

-----------------------------------------------------------------------------
(* AMQP.                                                                   *)

\* amqp_header is not packed: class_id and method_id are read one byte behind
\* their places in the frame, in the byte order of the machine.
AmqpClass(s) == Byte(s, 8) + 256 * Byte(s, 9)
AmqpMethod(s) == Byte(s, 10) + 256 * Byte(s, 11)

\* is_amqp: the protocol header, or a method frame of interest.  The cases of
\* the outer switch fall through: connection, basic, queue.
IsAmqpMethod(s) ==
    /\ Len(s) >= 11 /\ Byte(s, 0) = 1
    /\ \/ AmqpClass(s) = 10 /\ AmqpMethod(s) \in {50, 51, 11, 40, 60, 20}
       \/ AmqpClass(s) = 60 /\ AmqpMethod(s) \in {40, 60, 20}
       \/ AmqpClass(s) = 50 /\ AmqpMethod(s) = 20

IsAmqp(s) == (Len(s) >= 8 /\ Has(s, 0, AmqpPreface)) \/ IsAmqpMethod(s)

-----------------------------------------------------------------------------
(* HTTP/2 and gRPC.                                                        *)

StringLength(s, p) == Byte(s, p) % 128

\* Mutant: the value of a header with a literal name is not skipped.
SkipNameOnly(s, p, end, index) ==
    IF p + 1 > end THEN p ELSE p + 1 + StringLength(s, p)

\* skip_literal_header: the value, or the name and the value.
SkipLiteral(s, p, end, index) ==
    LET q == p + 1 + StringLength(s, p)
    IN  IF p + 1 > end THEN p
        ELSE IF index = 0 /\ q + 1 <= end THEN q + 1 + StringLength(s, q)
        ELSE q

\* is_content_type_grpc, at the length of the value
ContentType(s, p, end) ==
    IF /\ p + 1 <= end
       /\ StringLength(s, p) >= Len(GrpcType)
       /\ Has(s, p + 1, GrpcType)
    THEN "GRPC" ELSE "NOT_GRPC"

\* One round of scan_headers, on a cursor of the offset, the phase and the
\* status found so far.  get_path and get_status look at the low six bits,
\* whatever kind of field it is; bit 6 alone makes a literal.
ScanHeader(q, s, end) ==
    LET raw == Byte(s, q.off)
        index == raw % 64
        p == q.off + 1
        phase == IF p + 1 > end THEN q.phase
                 ELSE IF index = 5 THEN "REQUEST"
                 ELSE IF index = 8 THEN "RESPONSE" ELSE q.phase
        literal == (raw \div 64) % 2 = 1
    IN  IF q.status # "UNDETERMINED" \/ q.off >= end THEN q
        ELSE IF (literal /\ index \in {2, 3}) \/ raw = 130
        THEN [off |-> p, phase |-> phase, status |-> "NOT_GRPC"]
        ELSE IF literal /\ index = 31
        THEN [off |-> p, phase |-> phase, status |-> ContentType(s, p, end)]
        ELSE [off |-> IF literal THEN SkipLiteral(s, p, end, index) ELSE p,
              phase |-> phase, status |-> "UNDETERMINED"]

\* scan_headers of a frame whose payload has n bytes from offset p.
ScanHeaders(s, p, n) ==
    LET end == IF p + n < Len(s) + 1 THEN p + n ELSE Len(s) + 1
        f[k \in 0 .. MaxHeaders] ==
            IF k = 0 THEN [off |-> p, phase |-> "UNKNOWN", status |-> "UNDETERMINED"]
            ELSE ScanHeader(f[k - 1], s, end)
    IN  f[MaxHeaders]

FrameLength(s, p) == (Byte(s, p) * 256 + Byte(s, p + 1)) * 256 + Byte(s, p + 2)

\* read_http2_frame_header
IsFrame(s, p) ==
    /\ p + 9 <= Len(s)
    /\ \E k \in 0 .. 8 : Byte(s, p + k) # 0
    /\ Byte(s, p + 3) <= 9

\* judge_rpc: the first HEADERS frame among the first MaxFrames is scanned.
JudgeRpc(s) ==
    LET start == IF Len(s) > Len(Http2Preface) /\ Has(s, 0, Http2Preface)
                 THEN Len(Http2Preface) ELSE 0
        next(p) == p + 9 + FrameLength(s, p)
        f[k \in 0 .. MaxFrames - 1] ==       \* the offset of frame k, or -1
            IF k = 0 THEN start
            ELSE IF f[k - 1] >= 0 /\ IsFrame(s, f[k - 1]) THEN next(f[k - 1]) ELSE -1
        headers == {k \in 0 .. MaxFrames - 1 :
                      f[k] >= 0 /\ IsFrame(s, f[k]) /\ Byte(s, f[k] + 3) = 1}
        first == CHOOSE k \in headers : \A i \in headers : k <= i
    IN  IF headers = {} THEN [off |-> start, phase |-> "UNKNOWN", status |-> "UNDETERMINED"]
        ELSE ScanHeaders(s, f[first] + 9, FrameLength(s, f[first]))

============================================================================
