---------------------------- MODULE MCKafkaProbe ----------------------------
(* Streams for KafkaProbe.  A stream has its bytes, the positions where    *)
(* segments may end, the positions where a response in step starts, and    *)
(* its record batches with the position behind their count.                *)
EXTENDS KafkaProbe

CONSTANTS c1, c2

Zeros(n) == [i \in 1 .. n |-> 0]
Int16(n) == <<n \div 256, n % 256>>
Int32(n) == <<0, 0>> \o Int16(n)

\* Requests with client id "" and topic "ab".
RequestHeader(api, version) ==
    Int32(60) \o Int16(api) \o Int16(version) \o Int32(7) \o Int16(0)
Topics == Int32(1) \o Int16(2) \o <<97, 98>> \o Int32(1)

FetchRequest(version) ==
    RequestHeader(1, version) \o Zeros(FetchTopic(0, version)) \o Topics \o Zeros(16)
ProduceRequest ==
    RequestHeader(0, 3) \o <<255, 255>> \o Int16(1) \o Int32(30) \o Topics
      \o Zeros(24) \o <<2>> \o Zeros(40) \o Int32(4) \o Zeros(8)

\* What the parser takes for partitions: with their record batch arrays.
Batch(count, extra) ==
    Zeros(8) \o Int32(49 + extra) \o Zeros(4) \o <<2>> \o Zeros(40) \o Int32(count)
      \o Zeros(extra)
Partition(version, array) ==
    Zeros(PartitionHeader(version))
      \o (IF version >= 4 THEN Int32(0) ELSE <<>>)
      \o (IF version >= 11 THEN Zeros(4) ELSE <<>>)
      \o Int32(Len(array)) \o array

Whole(bytes) == [bytes |-> bytes, ends |-> {Len(bytes)}, starts |-> {}, batches |-> {}]
Nothing == Whole(<<>>)

\* Two partitions of one version, with two batches and one.
FetchResponse(version) ==
    LET p1 == Partition(version, Batch(3, 2) \o Batch(5, 1))
        p2 == Partition(version, Batch(2, 1))
        h == 8 + Len(Partition(version, <<>>))     \* where the first array begins
        g == 8 + Len(p1) + Len(Partition(version, <<>>))
    IN  [bytes |-> Int32(300) \o Int32(7) \o p1 \o p2,
         ends |-> {h, h + 63, h + 110, g + 20, g + Len(Batch(2, 1))}
                    \cup (IF version = 0 THEN {h + 66, 8 + Len(p1)} ELSE {}),
         starts |-> {0},
         batches |-> {[at |-> h + 61, count |-> 3], [at |-> h + 63 + 61, count |-> 5],
                      [at |-> g + 61, count |-> 2]}]

World(request, response, other, answer) ==
    [t \in Tuple |-> CASE t = <<c1, "request">> -> Whole(request)
                       [] t = <<c1, "response">> -> response
                       [] t = <<c2, "request">> -> Whole(other)
                       [] t = <<c2, "response">> -> Whole(answer)]

\* A fetch that is counted beside a produce, in two versions; a fetch the filter
\* does not support beside one it does; partitions without records, more than
\* the parser's runs on a segment can take.
MCWorlds ==
    LET produced == Int32(40) \o Int32(7) \o Zeros(12)
    IN  <<World(FetchRequest(0), FetchResponse(0), ProduceRequest, produced),
          World(FetchRequest(11), FetchResponse(11), ProduceRequest, produced),
          World(FetchRequest(12), FetchResponse(0), FetchRequest(0), Zeros(20)),
          World(FetchRequest(0), Whole(Zeros(8 + 18 * 14)), ProduceRequest, produced)>>
============================================================================
