----------------------------- MODULE MCClassify -----------------------------
(* Packets for Classify: HEADERS frames with up to three fields, alone or  *)
(* behind a SETTINGS frame or the preface, and some packets of every other *)
(* protocol.                                                               *)
EXTENDS Classify, SequencesExt

\* Stand-ins for the words of the code, of the right places and shorter.
MCSqlCommands == {<<83, 69, 76, 69, 67, 84>>, <<83, 72, 79, 87>>}
MCGrpcType == <<29, 117>>
MCHttp2Preface == <<80, 82, 73>>
MCAmqpPreface == <<65, 77, 81, 80>>
MCRedisErrors == {<<45, 69, 82, 82, 32>>}

Codes == {<<130>>, <<131>>, <<66, 1, 2>>, <<69, 2, 4, 31>>, <<136>>, <<72, 1, 5>>,
          <<64, 1, 95, 2, 130, 66>>, <<122, 1, 130>>, <<95, 3, 29, 117, 7>>, <<95, 2, 29, 29>>}

\* All lists of two fields, and those of three that begin with a skipped field.
CodeLists ==
    [1 .. 1 -> Codes] \cup [1 .. 2 -> Codes]
    \cup {<<c, d, e>> : c \in {x \in Codes : FieldName(x) \in {"other", "path"}},
                        d \in Codes, e \in Codes}

Frame(type, payload) == <<0, 0, Len(payload), type, 4, 0, 0, 0, 1>> \o payload

\* A HEADERS frame with the fields encoded by codes, behind the preface and other
\* frames; frames says where these and the HEADERS frame are.
HeadersPacket(before, frames, codes) ==
    [bytes |-> before \o Frame(1, FlattenSeq(codes)),
     frames |-> frames,
     fields |-> [k \in DOMAIN codes |->
                   [name |-> FieldName(codes[k]), code |-> codes[k],
                    at |-> Len(before) + 9 + Len(FlattenSeq(SubSeq(codes, 1, k - 1)))]]]

Plain(bytes) == [bytes |-> bytes, frames |-> <<>>, fields |-> None]

Zeros(n) == [i \in 1 .. n |-> 0]

\* type, channel, size, class, method and the first argument byte
Amqp(class, method, arg) ==
    <<1, 0, 1, 0, 0, 0, 8, 0, class, 0, method, arg, 0, 206>>

OtherPackets ==
    {Plain(<<218, 187, 194, 0>> \o Zeros(92)), Plain(<<218, 187, 226, 0>> \o Zeros(14)),
     Plain(<<218, 187, 2, 20>>), Plain(<<218, 187, 34, 20>>), Plain(<<218, 187>>),
     Plain(<<12, 0, 0, 0, 3, 115, 69, 76, 69, 67, 84, 32>>),
     Plain(<<12, 0, 0, 0, 22, 83, 104, 79, 87, 32, 32>>),
     Plain(<<7, 0, 0, 1, 0, 0, 0, 2, 0, 0, 0>>), Plain(<<7, 0, 0, 1, 255, 72, 4>>),
     Plain(<<9, 0, 0, 0, 10, 56, 46, 48, 46, 49, 0>>),
     Plain(<<9, 0, 0, 0, 10, 56, 46, 48, 46, 120, 0>>),
     Plain(<<1, 0, 0, 1, 5, 40, 0, 0, 2, 3, 100, 101, 102>>),
     Plain(<<42, 49, 13, 10, 36>>), Plain(<<43, 79, 75, 13, 10>>),
     Plain(<<36, 51, 13, 10>>), Plain(<<45, 69, 82, 82, 32, 120>>), Plain(<<45, 120, 120>>),
     Plain(<<65, 77, 81, 80, 0, 0, 9, 1>>),
     Plain(Amqp(10, 11, 0)), Plain(Amqp(10, 40, 0)), Plain(Amqp(10, 50, 0)),
     Plain(Amqp(10, 51, 206)), Plain(Amqp(60, 40, 0)), Plain(Amqp(60, 20, 0)),
     Plain(Amqp(60, 60, 4)), Plain(Amqp(50, 20, 0)), Plain(Amqp(20, 40, 0))}

CONSTANTS t1, t2

MCPackets ==
    [t \in Tuple |->
       IF t = t2 THEN OtherPackets
       ELSE {HeadersPacket(<<>>, <<0>>, c) : c \in CodeLists}
            \cup {HeadersPacket(MCHttp2Preface \o Frame(4, <<0, 3, 1>>), <<3, 15>>, <<c>>) :
                      c \in Codes}
            \cup {Plain(Amqp(60, 40, 0)), Plain(Amqp(10, 50, 0)), Plain(<<43, 79, 75, 13, 10>>)}]
============================================================================
