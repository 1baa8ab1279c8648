---------------------------- MODULE KafkaParser ----------------------------
(***************************************************************************)
(* The resumable parser of Kafka fetch responses in the kafka filter.  A   *)
(* response is cut into TCP segments; what the parser knows between two of *)
(* them is a context (kafka_response_context_t).  On each segment the      *)
(* parser runs as a chain of tail calls: the partition level collects the  *)
(* record batch arrays that begin in the segment, the record batch level   *)
(* adds up their record counts, and then the partition level goes on.      *)
(*                                                                         *)
(* Positions are positions in the byte stream of the response, so that a   *)
(* segment is a stream s with its ends base and end (data_off, data_end).  *)
(* A cursor q is a context c, the offset off reached, the arrays collected *)
(* from this segment and a result.  Requests with flexible encodings       *)
(* (version 12 and later) do not pass is_valid_kafka_request_header, and a *)
(* context starts in PARTITION_START: the states before it, the varints    *)
(* and the tagged fields are never reached.  partitions_count is a __u32;  *)
(* here -1 stands for 2^32 - 1.  Offsets do not wrap around: a size so     *)
(* negative that a __u32 would is outside the model.                       *)
(***************************************************************************)
EXTENDS Integers, Sequences

CONSTANTS
    MaxIterations,  \* KAFKA_RESPONSE_PARSER_MAX_ITERATIONS (10 in the code)
    MaxArrays,      \* KAFKA_MAX_RECORD_BATCHES_ARRAYS (50)
    MaxTailCalls    \* tail calls the kernel allows in one run (33)

ASSUME KafkaParserAssumption ==
    /\ MaxIterations \in Nat \ {0}
    /\ MaxArrays \in Nat \ {0}
    /\ MaxTailCalls \in Nat \ {0}

States == {"PARTITION_START", "PARTITION_ABORTED_TRANSACTIONS",
           "RECORD_BATCHES_ARRAY_START", "PARTITION_TAGGED_FIELDS",
           "PARTITION_END", "RECORD_BATCH_START", "RECORD_BATCH_LENGTH",
           "RECORD_BATCH_MAGIC", "RECORD_BATCH_RECORDS_COUNT",
           "RECORD_BATCH_END", "RECORD_BATCHES_ARRAY_END"}

\* parser_state_to_level
Level(state) ==
    IF state \in {"RECORD_BATCH_START", "RECORD_BATCH_LENGTH",
                  "RECORD_BATCH_MAGIC", "RECORD_BATCH_RECORDS_COUNT",
                  "RECORD_BATCH_END", "RECORD_BATCHES_ARRAY_END"}
    THEN "RECORD_BATCH" ELSE "PARTITION"

\* What kafka_process_new_response leaves in a context: the size and the
\* correlation id are the 8 bytes to carry over.
NewContext(version, expected) ==
    [state |-> "PARTITION_START", partition_state |-> "PARTITION_START",
     remainder |-> 0, num_bytes |-> 0, batch_length |-> 0, expected |-> expected,
     carry |-> 8, partitions |-> 0, idx |-> 0, count |-> 0, version |-> version,
     records |-> 0]

-----------------------------------------------------------------------------
(* Reading integers.                                                       *)

\* The n bytes, at most 4, of s from position p (counted from 0), big endian.
Unsigned(s, p, n) ==
    LET Then(v, k) == IF k <= n THEN v * 256 + s[p + k] ELSE v
    IN  Then(Then(Then(Then(0, 1), 2), 3), 4)

Signed32(s, p) ==
    (IF s[p + 1] > 127 THEN s[p + 1] - 256 ELSE s[p + 1]) * 16777216
        + Unsigned(s, p + 1, 3)

\* __read_with_remainder for 32 bits.  The head of a value that a segment
\* boundary cuts is in remainder_buf, but it is not used: its bytes are zero.
ReadRest(s, p, remainder) == Unsigned(s, p, 4 - remainder)

\* read_with_remainder: q with the value read as q.val, or with the reason why
\* not as q.ret.
Read(q, s, end, first) ==
    LET remainder == IF first THEN q.c.remainder ELSE 0
    IN  IF q.off >= end \/ (end - q.off < 4 /\ remainder = 0)
        THEN [q EXCEPT !.c.carry = q.off - end, !.ret = "EOP"]
        ELSE IF end - q.off < 4
        THEN [q EXCEPT !.ret = "ERR"]
        ELSE IF remainder = 0
        THEN [q EXCEPT !.val = Signed32(s, q.off), !.off = @ + 4]
        ELSE [q EXCEPT !.val = ReadRest(s, q.off, remainder),
                       !.off = @ + 4 - remainder, !.c.remainder = 0]

-----------------------------------------------------------------------------
(* The partition level: one operator per case of the switch.  Cases fall   *)
(* through, so each one applies if its state has been reached and the      *)
(* iteration has not ended.                                                *)

At(q, state) == q.ret = "go" /\ q.c.state = state

Goto(q, state, off) == [q EXCEPT !.c.state = state, !.off = off]

\* partition_index, error_code, high_watermark and, by version,
\* last_stable_offset and log_start_offset.
PartitionHeader(version) ==
    14 + (IF version >= 4 THEN 8 ELSE 0) + (IF version >= 5 THEN 8 ELSE 0)

PartitionStart(q) ==
    IF ~At(q, "PARTITION_START") THEN q
    ELSE Goto(q, "PARTITION_ABORTED_TRANSACTIONS",
              q.off + PartitionHeader(q.c.version))

\* r has read the number of aborted transactions; the transactions and the
\* preferred read replica are skipped.
SkipTransactions(r) ==
    IF r.ret # "go" THEN r
    ELSE IF r.val < -1 THEN [r EXCEPT !.ret = "ERR"]
    ELSE Goto(r, "RECORD_BATCHES_ARRAY_START",
              r.off + (IF r.val >= 0 THEN 16 * r.val ELSE 0)
                    + (IF r.c.version >= 11 THEN 4 ELSE 0))

AbortedTransactions(q, s, end, first) ==
    IF ~At(q, "PARTITION_ABORTED_TRANSACTIONS") THEN q
    ELSE IF q.c.version < 4 THEN Goto(q, "RECORD_BATCHES_ARRAY_START", q.off)
    ELSE SkipTransactions(Read(q, s, end, first))

\* r has read the size of an array, which is noted, unless the array is empty,
\* with its distance from the segment's start.
NoteArray(r, base) ==
    IF r.ret # "go" THEN r
    ELSE [r EXCEPT !.arrays = IF r.val = 0 THEN @
                              ELSE Append(@, [num_bytes |-> r.val, offset |-> r.off - base]),
                   !.c.count = IF r.val = 0 THEN @ ELSE @ + 1,
                   !.c.num_bytes = r.val,
                   !.c.state = "PARTITION_TAGGED_FIELDS",
                   !.off = @ + r.val]

ArrayStart(q, s, base, end, first) ==
    IF ~At(q, "RECORD_BATCHES_ARRAY_START") THEN q
    ELSE IF q.c.count >= MaxArrays THEN [q EXCEPT !.ret = "exit"]
    ELSE NoteArray(Read(q, s, end, first), base)

PartitionEnd(q, end) ==
    IF ~(At(q, "PARTITION_TAGGED_FIELDS") \/ At(q, "PARTITION_END")) THEN q
    ELSE IF q.off > end
    THEN [q EXCEPT !.c.state = "PARTITION_END", !.c.carry = q.off - end,
                   !.ret = "EOP"]
    ELSE [q EXCEPT !.c.partitions = @ - 1,
                   !.c.state = IF q.c.partitions = 1 THEN "PARTITION_END"
                               ELSE "PARTITION_START",
                   !.ret = IF q.c.partitions = 1 THEN "DONE" ELSE "go"]

PartitionStep(q, s, base, end, first) ==
    IF Level(q.c.state) = "RECORD_BATCH" THEN [q EXCEPT !.ret = "ERR"]
    ELSE PartitionEnd(ArrayStart(AbortedTransactions(PartitionStart(q),
             s, end, first), s, base, end, first), end)

-----------------------------------------------------------------------------
(* The record batch level.                                                 *)

\* baseOffset is skipped.
BatchStart(q) ==
    IF ~At(q, "RECORD_BATCH_START") THEN q
    ELSE Goto(q, "RECORD_BATCH_LENGTH", q.off + 8)

\* r has read the length of a batch.  An array that ends inside a batch has been
\* truncated by the broker: reported as far as it goes if it is the last, an
\* error otherwise.  The comparison is unsigned: a negative num_bytes (a null
\* array) passes.
CheckLength(r) ==
    IF r.ret # "go" THEN r
    ELSE IF r.val <= 0 THEN [r EXCEPT !.c.batch_length = r.val, !.ret = "ERR"]
    ELSE IF r.c.num_bytes < 0 \/ r.val + 12 <= r.c.num_bytes
    THEN [r EXCEPT !.c.batch_length = r.val, !.c.state = "RECORD_BATCH_MAGIC",
                   !.off = @ + 4]
    ELSE IF r.c.records > 0 /\ r.c.partitions \in {0, 1} /\ r.c.count - r.c.idx = 1
    THEN [r EXCEPT !.c.batch_length = 0, !.c.num_bytes = 0, !.ret = "continue",
                   !.c.state = "RECORD_BATCHES_ARRAY_END"]
    ELSE [r EXCEPT !.c.batch_length = r.val, !.ret = "ERR"]

BatchLength(q, s, end, first) ==
    IF ~At(q, "RECORD_BATCH_LENGTH") THEN q ELSE CheckLength(Read(q, s, end, first))

\* The magic byte, and the 40 bytes from crc to base sequence.
BatchMagic(q, s, end) ==
    IF ~At(q, "RECORD_BATCH_MAGIC") THEN q
    ELSE IF q.off + 1 > end THEN [q EXCEPT !.c.carry = q.off - end, !.ret = "EOP"]
    ELSE IF s[q.off + 1] # 2 THEN [q EXCEPT !.ret = "ERR"]
    ELSE Goto(q, "RECORD_BATCH_RECORDS_COUNT", q.off + 41)

\* Mutant: the count of a batch replaces the count so far.
AddCountReplaces(r) ==
    IF r.ret # "go" THEN r
    ELSE IF r.val <= 0 \/ r.val >= r.c.batch_length THEN [r EXCEPT !.ret = "ERR"]
    ELSE Goto([r EXCEPT !.c.records = r.val], "RECORD_BATCH_END",
              r.off + r.c.batch_length - 49)

\* r has read the count of a batch.  49 bytes of the batch's length lie before
\* its first record.
AddCount(r) ==
    IF r.ret # "go" THEN r
    ELSE IF r.val <= 0 \/ r.val >= r.c.batch_length THEN [r EXCEPT !.ret = "ERR"]
    ELSE Goto([r EXCEPT !.c.records = @ + r.val], "RECORD_BATCH_END",
              r.off + r.c.batch_length - 49)

BatchCount(q, s, end, first) ==
    IF ~At(q, "RECORD_BATCH_RECORDS_COUNT") THEN q
    ELSE AddCount(Read(q, s, end, first))

\* The next batch of the array, the next array, or DONE.
BatchEnd(q, base, end) ==
    LET left == q.c.num_bytes - (q.c.batch_length + 12)
        atEnd == At(q, "RECORD_BATCH_END")
        c == IF atEnd THEN [q.c EXCEPT !.num_bytes = left, !.batch_length = 0] ELSE q.c
        idx == c.idx + 1
    IN  IF ~atEnd /\ ~At(q, "RECORD_BATCHES_ARRAY_END") THEN q
        ELSE IF atEnd /\ q.off > end
        THEN [q EXCEPT !.c.carry = q.off - end, !.ret = "EOP"]
        ELSE IF atEnd /\ left > 0
        THEN [q EXCEPT !.c = [c EXCEPT !.state = "RECORD_BATCH_START"]]
        ELSE IF idx >= c.count
        THEN [q EXCEPT !.c = [c EXCEPT !.idx = idx, !.carry = q.off - base],
                       !.ret = "DONE"]
        ELSE IF idx >= MaxArrays THEN [q EXCEPT !.c = c, !.ret = "ERR"]
        ELSE [q EXCEPT !.c = [c EXCEPT !.state = "RECORD_BATCH_START", !.idx = idx,
                                       !.num_bytes = q.arrays[idx + 1].num_bytes],
                       !.off = q.arrays[idx + 1].offset + base]

\* continue: the iteration has ended.
Continue(q) == IF q.ret = "continue" THEN [q EXCEPT !.ret = "go"] ELSE q

BatchStep(q, s, base, end, first) ==
    Continue(BatchEnd(BatchCount(BatchMagic(BatchLength(BatchStart(q),
        s, end, first), s, end), s, end, first), base, end))

-----------------------------------------------------------------------------
(* One run of the parser, and all runs on one segment.                     *)

Iterate(q, level, s, base, end, first) ==
    IF q.ret # "go" THEN q
    ELSE IF level = "PARTITION" THEN PartitionStep(q, s, base, end, first)
    ELSE BatchStep(q, s, base, end, first)

\* The loop is left, by its bound or by exit.
LoopEnd(q, base) ==
    IF q.ret \in {"go", "exit"}
    THEN [q EXCEPT !.c.carry = q.off - base, !.ret = "LOOP_END"]
    ELSE q

\* MaxIterations iterations of a loop, from context c with its carry applied.
Loop(c, arrays, s, base, end) ==
    LET f[n \in 0 .. MaxIterations] ==
            IF n = 0
            THEN [c |-> [c EXCEPT !.carry = 0], off |-> base + c.carry,
                  arrays |-> arrays, ret |-> IF c.carry < 0 THEN "ERR" ELSE "go",
                  val |-> 0]
            ELSE Iterate(f[n - 1], Level(c.state), s, base, end, n = 1)
    IN  LoopEnd(f[MaxIterations], base)

\* The end of kafka_continue_parse_response: up to three bytes of a value that
\* goes on in the next segment are the remainder.
SaveRemainder(q) ==
    IF q.ret # "EOP" \/ q.c.carry >= 0 THEN q
    ELSE IF q.c.carry < -3 THEN [q EXCEPT !.ret = "ERR"]
    ELSE [q EXCEPT !.c.remainder = -q.c.carry, !.c.carry = 0]

\* kafka_continue_parse_response, partition level: arrays found in the segment
\* are parsed before anything else.
AfterPartitions(q) ==
    IF q.ret # "ERR" /\ q.c.count > 0
    THEN [q EXCEPT !.c.partition_state = q.c.state,
                   !.c.state = "RECORD_BATCH_START",
                   !.c.num_bytes = q.arrays[1].num_bytes,
                   !.c.carry = q.arrays[1].offset, !.ret = "LOOP_END"]
    ELSE SaveRemainder(q)

ContinuePartition(c, s, base, end) ==
    AfterPartitions(Loop([c EXCEPT !.count = 0, !.idx = 0], <<>>, s, base, end))

\* kafka_continue_parse_response, record batch level: back to the partitions,
\* or done; an array may go on in the next segment only if it is the last.
AfterBatches(q) ==
    IF q.ret = "DONE" /\ q.c.partitions # 0
    THEN [q EXCEPT !.c.partitions =
                       IF q.c.partition_state \in {"PARTITION_START",
                            "PARTITION_ABORTED_TRANSACTIONS", "RECORD_BATCHES_ARRAY_START"}
                       THEN @ + 1 ELSE @,
                   !.c.state = "PARTITION_TAGGED_FIELDS", !.ret = "LOOP_END"]
    ELSE IF q.ret = "EOP" /\ q.c.idx # q.c.count - 1
    THEN [q EXCEPT !.ret = "ERR"]
    ELSE IF q.ret = "EOP"
    THEN SaveRemainder([q EXCEPT !.c.idx = 0, !.c.count = 1])
    ELSE q

ContinueBatches(c, arrays, s, base, end) ==
    AfterBatches(Loop(c, arrays, s, base, end))

\* One call of the parser, if the one before it asked for it.
TailCall(q, s, base, end) ==
    IF q.ret # "LOOP_END" THEN q
    ELSE IF Level(q.c.state) = "PARTITION"
    THEN ContinuePartition(q.c, s, base, end)
    ELSE ContinueBatches(q.c, q.arrays, s, base, end)

\* The tail calls on one segment: the result is EOP, ERR, DONE, or LOOP_END when
\* no tail call is left.
ParseSegment(c, s, base, end) ==
    LET f[n \in 0 .. MaxTailCalls] ==
            IF n = 0 THEN [c |-> c, arrays |-> <<>>, ret |-> "LOOP_END"]
            ELSE TailCall(f[n - 1], s, base, end)
    IN  f[MaxTailCalls]

============================================================================
