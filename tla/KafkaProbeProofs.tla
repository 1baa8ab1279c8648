-------------------------- MODULE KafkaProbeProofs --------------------------
(***************************************************************************)
(* Theorems about the kafka probe, for any connections, any bytes sent on  *)
(* them, any segments, and any limits of the response parser.              *)
(*                                                                         *)
(* The first half shows that the parser keeps its context well-typed:      *)
(* bottom up, from what one read leaves through one iteration and one run  *)
(* of a loop to a whole segment.  The loops are recursive functions; a     *)
(* property of the first k rounds follows from a least counterexample      *)
(* (LeastNatural), and LoopExists and CallsExist show that the functions   *)
(* are what their recursive equations say.                                 *)
(*                                                                         *)
(* The second half bounds how often a transaction is reported: an update   *)
(* of kafka_event, a value in the reader's hands, in p.ch or reported is   *)
(* one report, the slot and a context are worth two.                       *)
(***************************************************************************)
EXTENDS KafkaProbe, FiniteSetTheorems, TLAPS

-----------------------------------------------------------------------------
(* The response parser keeps its context well-typed.                       *)

Results == {"go", "continue", "exit", "EOP", "ERR", "DONE", "LOOP_END"}

\* A parser context while the parser runs: the offset to carry over may be
\* negative.
Running ==
    [state : States, partition_state : States, remainder : 0 .. 3,
     num_bytes : Int, batch_length : Int, expected : Nat, carry : Int,
     partitions : Int, idx : Nat, count : Nat, version : 0 .. 11, records : Nat]

ArrayNote == [num_bytes : Int, offset : Int]

Cursor ==
    [c : Running, off : Int, arrays : Seq(ArrayNote), ret : Results, val : Int]

\* What the parser reads from.
Readable == [Int -> 0 .. 255]

\* The arrays counted are those noted, at the partition level.
Noted(q) == q.c.count = Len(q.arrays)

\* At the record batch level the one array that goes on from the last segment is
\* counted too.
Listed(q) == q.c.count <= 1 \/ q.c.count = Len(q.arrays)

LEMMA UnsignedType ==
    ASSUME NEW s \in Readable, NEW p \in Int, NEW n \in 0 .. 4
    PROVE  Unsigned(s, p, n) \in Nat
<1> DEFINE Then(v, k) == IF k <= n THEN v * 256 + s[p + k] ELSE v
<1>1. ASSUME NEW v \in Nat, NEW k \in Nat
      PROVE  Then(v, k) \in Nat
    <2>1. s[p + k] \in Nat
        BY DEF Readable
    <2> QED
        BY <2>1
<1>2. Unsigned(s, p, n) = Then(Then(Then(Then(0, 1), 2), 3), 4)
    BY DEF Unsigned
<1> HIDE DEF Then
<1> QED
    BY <1>1, <1>2

LEMMA Signed32Type ==
    ASSUME NEW s \in Readable, NEW p \in Int
    PROVE  Signed32(s, p) \in Int
<1>1. Unsigned(s, p + 1, 3) \in Nat
    BY UnsignedType
<1>2. s[p + 1] \in Int
    BY DEF Readable
<1> QED
    BY <1>1, <1>2 DEF Signed32

-----------------------------------------------------------------------------
(* One lemma for each way the parser changes its cursor.                   *)

\* r has the arrays and the count of q.
Keeps(q, r) == r.c.count = q.c.count /\ r.arrays = q.arrays

LEMMA PutRet ==
    ASSUME NEW q \in Cursor, NEW ret \in Results
    PROVE  /\ [q EXCEPT !.ret = ret] \in Cursor
           /\ Keeps(q, [q EXCEPT !.ret = ret])
BY DEF Cursor, Running, Keeps

LEMMA PutCarry ==
    ASSUME NEW q \in Cursor, NEW carry \in Int, NEW ret \in Results
    PROVE  /\ [q EXCEPT !.c.carry = carry, !.ret = ret] \in Cursor
           /\ Keeps(q, [q EXCEPT !.c.carry = carry, !.ret = ret])
BY DEF Cursor, Running, Keeps

LEMMA PutValue ==
    ASSUME NEW q \in Cursor, NEW val \in Int, NEW off \in Int
    PROVE  /\ [q EXCEPT !.val = val, !.off = off] \in Cursor
           /\ Keeps(q, [q EXCEPT !.val = val, !.off = off])
BY DEF Cursor, Running, Keeps

LEMMA PutRest ==
    ASSUME NEW q \in Cursor, NEW val \in Int, NEW off \in Int, NEW n \in 0 .. 3
    PROVE  /\ [q EXCEPT !.val = val, !.off = off, !.c.remainder = n] \in Cursor
           /\ Keeps(q, [q EXCEPT !.val = val, !.off = off, !.c.remainder = n])
BY DEF Cursor, Running, Keeps

LEMMA PutState ==
    ASSUME NEW q \in Cursor, NEW state \in States, NEW off \in Int
    PROVE  /\ [q EXCEPT !.c.state = state, !.off = off] \in Cursor
           /\ Keeps(q, [q EXCEPT !.c.state = state, !.off = off])
BY DEF Cursor, Running, Keeps

LEMMA PutNote ==
    ASSUME NEW q \in Cursor, NEW arrays \in Seq(ArrayNote), NEW count \in Nat, NEW n \in Int,
           NEW state \in States, NEW off \in Int
    PROVE  /\ [q EXCEPT !.arrays = arrays, !.c.count = count, !.c.num_bytes = n,
                      !.c.state = state, !.off = off] \in Cursor
           /\ [q EXCEPT !.arrays = arrays, !.c.count = count, !.c.num_bytes = n,
                      !.c.state = state, !.off = off].arrays = arrays
           /\ [q EXCEPT !.arrays = arrays, !.c.count = count, !.c.num_bytes = n,
                      !.c.state = state, !.off = off].c.count = count
BY DEF Cursor, Running

LEMMA PutStop ==
    ASSUME NEW q \in Cursor, NEW state \in States, NEW carry \in Int, NEW ret \in Results
    PROVE  /\ [q EXCEPT !.c.state = state, !.c.carry = carry, !.ret = ret] \in Cursor
           /\ Keeps(q, [q EXCEPT !.c.state = state, !.c.carry = carry, !.ret = ret])
BY DEF Cursor, Running, Keeps

LEMMA PutPartition ==
    ASSUME NEW q \in Cursor, NEW n \in Int, NEW state \in States, NEW ret \in Results
    PROVE  /\ [q EXCEPT !.c.partitions = n, !.c.state = state, !.ret = ret] \in Cursor
           /\ Keeps(q, [q EXCEPT !.c.partitions = n, !.c.state = state, !.ret = ret])
BY DEF Cursor, Running, Keeps

LEMMA PutLength ==
    ASSUME NEW q \in Cursor, NEW n \in Int, NEW ret \in Results
    PROVE  /\ [q EXCEPT !.c.batch_length = n, !.ret = ret] \in Cursor
           /\ Keeps(q, [q EXCEPT !.c.batch_length = n, !.ret = ret])
BY DEF Cursor, Running, Keeps

LEMMA PutMagic ==
    ASSUME NEW q \in Cursor, NEW n \in Int, NEW state \in States, NEW off \in Int
    PROVE  /\ [q EXCEPT !.c.batch_length = n, !.c.state = state, !.off = off] \in Cursor
           /\ Keeps(q, [q EXCEPT !.c.batch_length = n, !.c.state = state, !.off = off])
BY DEF Cursor, Running, Keeps

LEMMA PutTruncated ==
    ASSUME NEW q \in Cursor, NEW m \in Int, NEW n \in Int, NEW state \in States, NEW ret \in Results
    PROVE  /\ [q EXCEPT !.c.batch_length = m, !.c.num_bytes = n, !.ret = ret,
                      !.c.state = state] \in Cursor
           /\ Keeps(q, [q EXCEPT !.c.batch_length = m, !.c.num_bytes = n, !.ret = ret,
                      !.c.state = state])
BY DEF Cursor, Running, Keeps

LEMMA PutRecords ==
    ASSUME NEW q \in Cursor, NEW n \in Nat
    PROVE  /\ [q EXCEPT !.c.records = n] \in Cursor
           /\ Keeps(q, [q EXCEPT !.c.records = n])
BY DEF Cursor, Running, Keeps

LEMMA PutRemainder ==
    ASSUME NEW q \in Cursor, NEW n \in 0 .. 3, NEW carry \in Int
    PROVE  /\ [q EXCEPT !.c.remainder = n, !.c.carry = carry] \in Cursor
           /\ Keeps(q, [q EXCEPT !.c.remainder = n, !.c.carry = carry])
BY DEF Cursor, Running, Keeps

-----------------------------------------------------------------------------

LEMMA ReadType ==
    ASSUME NEW q \in Cursor, NEW s \in Readable, NEW end \in Nat, NEW first \in BOOLEAN,
           NEW r, r = Read(q, s, end, first)
    PROVE  r \in Cursor /\ Keeps(q, r)
<1> USE DEF Keeps
<1> DEFINE remainder == IF first THEN q.c.remainder ELSE 0
           carry == q.off - end
           rest == ReadRest(s, q.off, remainder)
           near == q.off + 4
           far == q.off + 4 - remainder
           read == Signed32(s, q.off)
<1>0. q.c.remainder \in 0 .. 3 /\ q.off \in Int
    BY DEF Cursor, Running
<1>1. remainder \in 0 .. 3
    BY <1>0
<1>a. carry \in Int
    BY <1>0
<1>b. near \in Int
    BY <1>0
<1>2. read \in Int
    BY <1>0, Signed32Type
<1>3. rest \in Int
    <2>1. 4 - remainder \in 0 .. 4
        BY <1>1
    <2> HIDE DEF remainder
    <2> QED
        BY <1>0, <2>1, UnsignedType DEF ReadRest
<1>4. far \in Int
    <2> HIDE DEF remainder
    <2> QED
        BY <1>0, <1>1
<1>5. \/ r = [q EXCEPT !.c.carry = carry, !.ret = "EOP"]
      \/ r = [q EXCEPT !.ret = "ERR"]
      \/ r = [q EXCEPT !.val = read, !.off = near]
      \/ r = [q EXCEPT !.val = rest, !.off = far, !.c.remainder = 0]
    BY DEF Read
<1>6. "EOP" \in Results /\ "ERR" \in Results
    BY DEF Results
<1> HIDE DEF remainder, carry, rest, near, far, read
<1>7. CASE r = [q EXCEPT !.c.carry = carry, !.ret = "EOP"]
    <2>1. [q EXCEPT !.c.carry = carry, !.ret = "EOP"] \in Cursor
        BY <1>a, <1>6, PutCarry
    <2> QED
        BY <2>1, <1>7 DEF Cursor, Running
<1>8. CASE r = [q EXCEPT !.ret = "ERR"]
    <2>1. [q EXCEPT !.ret = "ERR"] \in Cursor
        BY <1>6, PutRet
    <2> QED
        BY <2>1, <1>8 DEF Cursor, Running
<1>9. CASE r = [q EXCEPT !.val = read, !.off = near]
    <2>1. [q EXCEPT !.val = read, !.off = near] \in Cursor
        BY <1>b, <1>2, PutValue
    <2> QED
        BY <2>1, <1>9 DEF Cursor, Running
<1>10. CASE r = [q EXCEPT !.val = rest, !.off = far, !.c.remainder = 0]
    <2>1. [q EXCEPT !.val = rest, !.off = far, !.c.remainder = 0] \in Cursor
        <3> DEFINE zero == 0
        <3>1. zero \in 0 .. 3
            OBVIOUS
        <3> HIDE DEF zero
        <3>2. [q EXCEPT !.val = rest, !.off = far, !.c.remainder = zero] \in Cursor
            BY <1>3, <1>4, <3>1, PutRest
        <3> QED
            BY <3>2 DEF zero
    <2>2. r.arrays = q.arrays
        BY <1>10 DEF Cursor
    <2>3. r.c.count = q.c.count
        BY <1>10 DEF Cursor, Running
    <2> QED
        BY <2>1, <2>2, <2>3, <1>10
<1> QED
    BY <1>5, <1>7, <1>8, <1>9, <1>10

LEMMA RetType ==
    ASSUME NEW q \in Cursor, NEW ret \in Results, NEW r, r = [q EXCEPT !.ret = ret]
    PROVE  r \in Cursor /\ Keeps(q, r)
<1>1. [q EXCEPT !.ret = ret] \in Cursor
    BY PutRet
<1> QED
    BY <1>1 DEF Cursor, Keeps

LEMMA GotoType ==
    ASSUME NEW q \in Cursor, NEW state \in States, NEW off \in Int,
           NEW r, r = Goto(q, state, off)
    PROVE  r \in Cursor /\ Keeps(q, r)
<1>1. [q EXCEPT !.c.state = state, !.off = off] \in Cursor
    BY PutState
<1> QED
    BY <1>1 DEF Goto, Cursor, Running, Keeps

LEMMA CursorFields ==
    ASSUME NEW q \in Cursor
    PROVE  /\ q.off \in Int /\ q.val \in Int /\ q.ret \in Results
           /\ q.arrays \in Seq(ArrayNote) /\ q.c \in Running
           /\ q.c.version \in 0 .. 11 /\ q.c.partitions \in Int /\ q.c.count \in Nat
           /\ q.c.idx \in Nat /\ q.c.num_bytes \in Int /\ q.c.batch_length \in Int
           /\ q.c.records \in Nat /\ q.c.carry \in Int /\ q.c.remainder \in 0 .. 3
           /\ q.c.state \in States /\ q.c.expected \in Nat /\ q.c.partition_state \in States
BY DEF Cursor, Running

LEMMA PartitionStartType ==
    ASSUME NEW q \in Cursor, NEW r, r = PartitionStart(q)
    PROVE  r \in Cursor /\ Keeps(q, r)
<1> DEFINE off == q.off + PartitionHeader(q.c.version)
<1>1. off \in Int
    <2>1. q.off \in Int /\ q.c.version \in 0 .. 11
        BY CursorFields
    <2> QED
        BY <2>1 DEF PartitionHeader
<1>2. "PARTITION_ABORTED_TRANSACTIONS" \in States
    BY DEF States
<1>3. \/ r = q
      \/ r = Goto(q, "PARTITION_ABORTED_TRANSACTIONS", off)
    BY DEF PartitionStart
<1> HIDE DEF off
<1> QED
    BY <1>1, <1>2, <1>3, GotoType DEF Keeps

LEMMA SkipTransactionsType ==
    ASSUME NEW q \in Cursor, NEW r, r = SkipTransactions(q)
    PROVE  r \in Cursor /\ Keeps(q, r)
<1> DEFINE off == q.off + (IF q.val >= 0 THEN 16 * q.val ELSE 0)
                        + (IF q.c.version >= 11 THEN 4 ELSE 0)
<1>1. off \in Int
    <2>1. q.off \in Int /\ q.c.version \in 0 .. 11 /\ q.val \in Int
        BY CursorFields
    <2> QED
        BY <2>1
<1>2. "RECORD_BATCHES_ARRAY_START" \in States /\ "ERR" \in Results
    BY DEF States, Results
<1>3. \/ r = q
      \/ r = [q EXCEPT !.ret = "ERR"]
      \/ r = Goto(q, "RECORD_BATCHES_ARRAY_START", off)
    BY DEF SkipTransactions
<1> HIDE DEF off
<1>4. CASE r = [q EXCEPT !.ret = "ERR"]
    BY <1>2, <1>4, RetType
<1>5. CASE r = Goto(q, "RECORD_BATCHES_ARRAY_START", off)
    BY <1>1, <1>2, <1>5, GotoType
<1> QED
    BY <1>3, <1>4, <1>5 DEF Keeps

LEMMA AbortedTransactionsType ==
    ASSUME NEW q \in Cursor, NEW s \in Readable, NEW end \in Nat, NEW first \in BOOLEAN,
           NEW r, r = AbortedTransactions(q, s, end, first)
    PROVE  r \in Cursor /\ Keeps(q, r)
<1> DEFINE off == q.off
           p == Read(q, s, end, first)
<1>1. off \in Int
    BY CursorFields
<1>2. "RECORD_BATCHES_ARRAY_START" \in States
    BY DEF States
<1>3. \/ r = q
      \/ r = Goto(q, "RECORD_BATCHES_ARRAY_START", off)
      \/ r = SkipTransactions(p)
    BY DEF AbortedTransactions
<1>4. p \in Cursor /\ Keeps(q, p)
    BY ReadType
<1> HIDE DEF off, p
<1>5. CASE r = SkipTransactions(p)
    BY <1>4, <1>5, SkipTransactionsType DEF Keeps
<1>6. CASE r = Goto(q, "RECORD_BATCHES_ARRAY_START", off)
    BY <1>1, <1>2, <1>6, GotoType
<1> QED
    BY <1>3, <1>5, <1>6 DEF Keeps

LEMMA NoteArrayType ==
    ASSUME NEW q \in Cursor, NEW base \in Nat, Noted(q), NEW r, r = NoteArray(q, base)
    PROVE  r \in Cursor /\ Noted(r)
<1> DEFINE note == [num_bytes |-> q.val, offset |-> q.off - base]
           arrays == IF q.val = 0 THEN q.arrays ELSE Append(q.arrays, note)
           count == IF q.val = 0 THEN q.c.count ELSE q.c.count + 1
           off == q.off + q.val
           n == q.val
           state == "PARTITION_TAGGED_FIELDS"
<1>0. q.off \in Int /\ q.val \in Int /\ q.c.count \in Nat /\ q.arrays \in Seq(ArrayNote)
    BY CursorFields
<1>1. note \in ArrayNote
    <2> DEFINE d == q.off - base
    <2>1. d \in Int
        BY <1>0
    <2> HIDE DEF d
    <2>2. [num_bytes |-> q.val, offset |-> d] \in ArrayNote
        BY <1>0, <2>1 DEF ArrayNote
    <2> QED
        BY <2>2 DEF d
<1>2. count \in Nat
    BY <1>0
<1>3. arrays \in Seq(ArrayNote) /\ count = Len(arrays)
    <2> HIDE DEF note
    <2> QED
        BY <1>0, <1>1 DEF Noted
<1>4. off \in Int /\ n \in Int
    BY <1>0
<1>5. state \in States
    BY DEF States
<1>6. \/ r = q
      \/ r = [q EXCEPT !.arrays = arrays, !.c.count = count, !.c.num_bytes = n,
                       !.c.state = state, !.off = off]
    BY DEF NoteArray
<1> HIDE DEF note, arrays, count, off, n, state
<1>7. CASE r = [q EXCEPT !.arrays = arrays, !.c.count = count, !.c.num_bytes = n,
                         !.c.state = state, !.off = off]
    <2>1. [q EXCEPT !.arrays = arrays, !.c.count = count, !.c.num_bytes = n,
                        !.c.state = state, !.off = off] \in Cursor
        BY <1>2, <1>3, <1>4, <1>5, PutNote
    <2>2. [q EXCEPT !.arrays = arrays, !.c.count = count, !.c.num_bytes = n,
                        !.c.state = state, !.off = off].arrays = arrays
        BY DEF Cursor
    <2>3. [q EXCEPT !.arrays = arrays, !.c.count = count, !.c.num_bytes = n,
                        !.c.state = state, !.off = off].c.count = count
        BY DEF Cursor, Running
    <2> QED
        BY <2>1, <2>2, <2>3, <1>3, <1>7 DEF Noted
<1> QED
    BY <1>6, <1>7

LEMMA ArrayStartType ==
    ASSUME NEW q \in Cursor, NEW s \in Readable, NEW base \in Nat, NEW end \in Nat,
           NEW first \in BOOLEAN, Noted(q), NEW r, r = ArrayStart(q, s, base, end, first)
    PROVE  r \in Cursor /\ Noted(r)
<1> DEFINE p == Read(q, s, end, first)
<1>1. p \in Cursor /\ Keeps(q, p)
    BY ReadType
<1>2. Noted(p)
    BY <1>1 DEF Keeps, Noted
<1>3. "exit" \in Results
    BY DEF Results
<1>4. \/ r = q
      \/ r = [q EXCEPT !.ret = "exit"]
      \/ r = NoteArray(p, base)
    BY DEF ArrayStart
<1> HIDE DEF p
<1>5. CASE r = [q EXCEPT !.ret = "exit"]
    BY <1>3, <1>5, RetType DEF Keeps, Noted
<1>6. CASE r = NoteArray(p, base)
    BY <1>1, <1>2, <1>6, NoteArrayType
<1> QED
    BY <1>4, <1>5, <1>6

LEMMA PartitionEndType ==
    ASSUME NEW q \in Cursor, NEW end \in Nat, NEW r, r = PartitionEnd(q, end)
    PROVE  r \in Cursor /\ Keeps(q, r)
<1> DEFINE carry == q.off - end
           n == q.c.partitions - 1
           state == IF q.c.partitions = 1 THEN "PARTITION_END" ELSE "PARTITION_START"
           ret == IF q.c.partitions = 1 THEN "DONE" ELSE "go"
<1>0. q.off \in Int /\ q.c.partitions \in Int
    BY CursorFields
<1>1. carry \in Int
    BY <1>0
<1>2. n \in Int
    BY <1>0
<1>3. state \in States /\ "PARTITION_END" \in States /\ ret \in Results /\ "EOP" \in Results
    BY DEF States, Results
<1>4. \/ r = q
      \/ r = [q EXCEPT !.c.state = "PARTITION_END", !.c.carry = carry, !.ret = "EOP"]
      \/ r = [q EXCEPT !.c.partitions = n, !.c.state = state, !.ret = ret]
    BY DEF PartitionEnd
<1> HIDE DEF carry, n, state, ret
<1>5. CASE r = [q EXCEPT !.c.state = "PARTITION_END", !.c.carry = carry, !.ret = "EOP"]
    <2>1. [q EXCEPT !.c.state = "PARTITION_END", !.c.carry = carry, !.ret = "EOP"] \in Cursor
          /\ Keeps(q, [q EXCEPT !.c.state = "PARTITION_END", !.c.carry = carry, !.ret = "EOP"])
        BY <1>1, <1>3, PutStop
    <2> QED
        BY <2>1, <1>5
<1>6. CASE r = [q EXCEPT !.c.partitions = n, !.c.state = state, !.ret = ret]
    <2>1. [q EXCEPT !.c.partitions = n, !.c.state = state, !.ret = ret] \in Cursor
          /\ Keeps(q, [q EXCEPT !.c.partitions = n, !.c.state = state, !.ret = ret])
        BY <1>2, <1>3, PutPartition
    <2> QED
        BY <2>1, <1>6
<1> QED
    BY <1>4, <1>5, <1>6 DEF Keeps

LEMMA PartitionStepType ==
    ASSUME NEW q \in Cursor, NEW s \in Readable, NEW base \in Nat, NEW end \in Nat,
           NEW first \in BOOLEAN, Noted(q), NEW r, r = PartitionStep(q, s, base, end, first)
    PROVE  r \in Cursor /\ Noted(r)
<1> DEFINE q1 == PartitionStart(q)
           q2 == AbortedTransactions(q1, s, end, first)
           q3 == ArrayStart(q2, s, base, end, first)
           q4 == PartitionEnd(q3, end)
<1>1. \/ r = [q EXCEPT !.ret = "ERR"]
      \/ r = q4
    BY DEF PartitionStep
<1>2. q1 \in Cursor /\ Keeps(q, q1)
    BY PartitionStartType
<1> HIDE DEF q1
<1>3. q2 \in Cursor /\ Keeps(q1, q2)
    BY <1>2, AbortedTransactionsType
<1> HIDE DEF q2
<1>4. Noted(q2)
    BY <1>2, <1>3 DEF Keeps, Noted
<1>5. q3 \in Cursor /\ Noted(q3)
    BY <1>3, <1>4, ArrayStartType
<1> HIDE DEF q3
<1>6. q4 \in Cursor /\ Noted(q4)
    BY <1>5, PartitionEndType DEF Keeps, Noted
<1> HIDE DEF q4
<1>7. "ERR" \in Results
    BY DEF Results
<1>8. CASE r = [q EXCEPT !.ret = "ERR"]
    BY <1>7, <1>8, RetType DEF Keeps, Noted
<1> QED
    BY <1>1, <1>6, <1>8

-----------------------------------------------------------------------------
(* The record batch level.                                                 *)

LEMMA BatchStartType ==
    ASSUME NEW q \in Cursor, NEW r, r = BatchStart(q)
    PROVE  r \in Cursor /\ Keeps(q, r)
<1> DEFINE off == q.off + 8
<1>1. off \in Int
    <2>1. q.off \in Int
        BY CursorFields
    <2> QED
        BY <2>1
<1>2. "RECORD_BATCH_LENGTH" \in States
    BY DEF States
<1>3. r = q \/ r = Goto(q, "RECORD_BATCH_LENGTH", off)
    BY DEF BatchStart
<1> HIDE DEF off
<1> QED
    BY <1>1, <1>2, <1>3, GotoType DEF Keeps

LEMMA CheckLengthType ==
    ASSUME NEW q \in Cursor, NEW r, r = CheckLength(q)
    PROVE  r \in Cursor /\ Keeps(q, r)
<1> DEFINE off == q.off + 4
           n == q.val
           zero == 0
<1>0. q.off \in Int /\ q.val \in Int
    BY CursorFields
<1>1. off \in Int
    BY <1>0
<1>2. n \in Int /\ zero \in Int
    BY <1>0
<1>3. /\ "RECORD_BATCH_MAGIC" \in States /\ "RECORD_BATCHES_ARRAY_END" \in States
      /\ "ERR" \in Results /\ "continue" \in Results
    BY DEF States, Results
<1>4. \/ r = q
      \/ r = [q EXCEPT !.c.batch_length = n, !.ret = "ERR"]
      \/ r = [q EXCEPT !.c.batch_length = n, !.c.state = "RECORD_BATCH_MAGIC", !.off = off]
      \/ r = [q EXCEPT !.c.batch_length = zero, !.c.num_bytes = zero, !.ret = "continue",
                       !.c.state = "RECORD_BATCHES_ARRAY_END"]
    BY DEF CheckLength
<1> HIDE DEF off, n, zero
<1>5. CASE r = [q EXCEPT !.c.batch_length = n, !.ret = "ERR"]
    <2>1. /\ [q EXCEPT !.c.batch_length = n, !.ret = "ERR"] \in Cursor
          /\ Keeps(q, [q EXCEPT !.c.batch_length = n, !.ret = "ERR"])
        BY <1>2, <1>3, PutLength
    <2> QED
        BY <2>1, <1>5
<1>6. CASE r = [q EXCEPT !.c.batch_length = n, !.c.state = "RECORD_BATCH_MAGIC", !.off = off]
    <2>1. /\ [q EXCEPT !.c.batch_length = n, !.c.state = "RECORD_BATCH_MAGIC", !.off = off]
               \in Cursor
          /\ Keeps(q, [q EXCEPT !.c.batch_length = n, !.c.state = "RECORD_BATCH_MAGIC",
                                !.off = off])
        BY <1>1, <1>2, <1>3, PutMagic
    <2> QED
        BY <2>1, <1>6
<1>7. CASE r = [q EXCEPT !.c.batch_length = zero, !.c.num_bytes = zero, !.ret = "continue",
                         !.c.state = "RECORD_BATCHES_ARRAY_END"]
    <2>1. /\ [q EXCEPT !.c.batch_length = zero, !.c.num_bytes = zero, !.ret = "continue",
                       !.c.state = "RECORD_BATCHES_ARRAY_END"] \in Cursor
          /\ Keeps(q, [q EXCEPT !.c.batch_length = zero, !.c.num_bytes = zero,
                                !.ret = "continue", !.c.state = "RECORD_BATCHES_ARRAY_END"])
        BY <1>2, <1>3, PutTruncated
    <2> QED
        BY <2>1, <1>7
<1> QED
    BY <1>4, <1>5, <1>6, <1>7 DEF Keeps

LEMMA BatchLengthType ==
    ASSUME NEW q \in Cursor, NEW s \in Readable, NEW end \in Nat, NEW first \in BOOLEAN,
           NEW r, r = BatchLength(q, s, end, first)
    PROVE  r \in Cursor /\ Keeps(q, r)
<1> DEFINE p == Read(q, s, end, first)
<1>1. p \in Cursor /\ Keeps(q, p)
    BY ReadType
<1>2. r = q \/ r = CheckLength(p)
    BY DEF BatchLength
<1> HIDE DEF p
<1> QED
    BY <1>1, <1>2, CheckLengthType DEF Keeps

LEMMA BatchMagicType ==
    ASSUME NEW q \in Cursor, NEW s \in Readable, NEW end \in Nat,
           NEW r, r = BatchMagic(q, s, end)
    PROVE  r \in Cursor /\ Keeps(q, r)
<1> DEFINE carry == q.off - end
           off == q.off + 41
<1>0. q.off \in Int
    BY CursorFields
<1>1. carry \in Int
    BY <1>0
<1>2. off \in Int
    BY <1>0
<1>3. "RECORD_BATCH_RECORDS_COUNT" \in States /\ "ERR" \in Results /\ "EOP" \in Results
    BY DEF States, Results
<1>4. \/ r = q
      \/ r = [q EXCEPT !.c.carry = carry, !.ret = "EOP"]
      \/ r = [q EXCEPT !.ret = "ERR"]
      \/ r = Goto(q, "RECORD_BATCH_RECORDS_COUNT", off)
    BY DEF BatchMagic
<1> HIDE DEF carry, off
<1>5. CASE r = [q EXCEPT !.c.carry = carry, !.ret = "EOP"]
    <2>1. /\ [q EXCEPT !.c.carry = carry, !.ret = "EOP"] \in Cursor
          /\ Keeps(q, [q EXCEPT !.c.carry = carry, !.ret = "EOP"])
        BY <1>1, <1>3, PutCarry
    <2> QED
        BY <2>1, <1>5
<1>6. CASE r = [q EXCEPT !.ret = "ERR"]
    BY <1>3, <1>6, RetType
<1>7. CASE r = Goto(q, "RECORD_BATCH_RECORDS_COUNT", off)
    BY <1>2, <1>3, <1>7, GotoType
<1> QED
    BY <1>4, <1>5, <1>6, <1>7 DEF Keeps

LEMMA AddCountType ==
    ASSUME NEW q \in Cursor, NEW r, r = AddCount(q)
    PROVE  r \in Cursor /\ Keeps(q, r)
<1> DEFINE n == q.c.records + q.val
           p == [q EXCEPT !.c.records = n]
           off == q.off + q.c.batch_length - 49
<1>0. q.off \in Int /\ q.val \in Int /\ q.c.records \in Nat /\ q.c.batch_length \in Int
    BY CursorFields
<1>1. off \in Int
    BY <1>0
<1>2. "RECORD_BATCH_END" \in States /\ "ERR" \in Results
    BY DEF States, Results
<1>3. CASE q.ret # "go" \/ q.val <= 0 \/ q.val >= q.c.batch_length
    <2>1. r = q \/ r = [q EXCEPT !.ret = "ERR"]
        BY <1>3 DEF AddCount
    <2> QED
        BY <1>2, <2>1, RetType DEF Keeps
<1>4. CASE ~(q.ret # "go" \/ q.val <= 0 \/ q.val >= q.c.batch_length)
    <2>1. r = Goto(p, "RECORD_BATCH_END", off)
        BY <1>4 DEF AddCount
    <2>2. n \in Nat
        BY <1>0, <1>4
    <2> HIDE DEF n, off
    <2>3. p \in Cursor /\ Keeps(q, p)
        BY <2>2, PutRecords
    <2> HIDE DEF p
    <2> QED
        BY <1>1, <1>2, <2>1, <2>3, GotoType DEF Keeps
<1> QED
    BY <1>3, <1>4

LEMMA BatchCountType ==
    ASSUME NEW q \in Cursor, NEW s \in Readable, NEW end \in Nat, NEW first \in BOOLEAN,
           NEW r, r = BatchCount(q, s, end, first)
    PROVE  r \in Cursor /\ Keeps(q, r)
<1> DEFINE p == Read(q, s, end, first)
<1>1. p \in Cursor /\ Keeps(q, p)
    BY ReadType
<1>2. r = q \/ r = AddCount(p)
    BY DEF BatchCount
<1> HIDE DEF p
<1> QED
    BY <1>1, <1>2, AddCountType DEF Keeps

LEMMA BatchEndType ==
    ASSUME NEW q \in Cursor, NEW base \in Nat, NEW end \in Nat, Listed(q),
           NEW r, r = BatchEnd(q, base, end)
    PROVE  r \in Cursor /\ Keeps(q, r)
<1> DEFINE left == q.c.num_bytes - (q.c.batch_length + 12)
           zero == 0
           atEnd == At(q, "RECORD_BATCH_END")
           c == IF atEnd THEN [q.c EXCEPT !.num_bytes = left, !.batch_length = zero] ELSE q.c
           idx == c.idx + 1
           over == q.off - end
           carry == q.off - base
           bytes == q.arrays[idx + 1].num_bytes
           off == q.arrays[idx + 1].offset + base
           c1 == [c EXCEPT !.state = "RECORD_BATCH_START"]
           c2 == [c EXCEPT !.idx = idx, !.carry = carry]
           c3 == [c EXCEPT !.state = "RECORD_BATCH_START", !.idx = idx, !.num_bytes = bytes]
<1>0. /\ q.off \in Int /\ q.c \in Running /\ q.c.num_bytes \in Int /\ q.c.batch_length \in Int
      /\ q.c.idx \in Nat /\ q.c.count \in Nat /\ q.arrays \in Seq(ArrayNote)
    BY CursorFields
<1>1. left \in Int
    BY <1>0
<1>2. zero \in Int
    OBVIOUS
<1>3. over \in Int
    BY <1>0
<1>4. carry \in Int
    BY <1>0
<1>5. /\ "RECORD_BATCH_START" \in States /\ "ERR" \in Results /\ "EOP" \in Results
      /\ "DONE" \in Results
    BY DEF States, Results
<1>6. \/ r = q
      \/ r = [q EXCEPT !.c.carry = over, !.ret = "EOP"]
      \/ r = [q EXCEPT !.c = c1]
      \/ r = [q EXCEPT !.c = c2, !.ret = "DONE"]
      \/ r = [q EXCEPT !.c = c, !.ret = "ERR"]
      \/ ~(idx >= c.count) /\ r = [q EXCEPT !.c = c3, !.off = off]
    BY DEF BatchEnd
<1> HIDE DEF left, zero, over, carry, atEnd
<1>7. c \in Running /\ c.count = q.c.count /\ c.idx = q.c.idx
    <2>1. /\ [q.c EXCEPT !.num_bytes = left, !.batch_length = zero] \in Running
          /\ [q.c EXCEPT !.num_bytes = left, !.batch_length = zero].count = q.c.count
          /\ [q.c EXCEPT !.num_bytes = left, !.batch_length = zero].idx = q.c.idx
        BY <1>0, <1>1, <1>2 DEF Running
    <2> QED
        BY <1>0, <2>1
<1> HIDE DEF c
<1>8. idx \in Nat
    BY <1>0, <1>7
<1>9. CASE r = [q EXCEPT !.c.carry = over, !.ret = "EOP"]
    <2>1. /\ [q EXCEPT !.c.carry = over, !.ret = "EOP"] \in Cursor
          /\ Keeps(q, [q EXCEPT !.c.carry = over, !.ret = "EOP"])
        BY <1>3, <1>5, PutCarry
    <2> QED
        BY <2>1, <1>9
<1>10. CASE r = [q EXCEPT !.c = c1]
    <2>1. c1 \in Running /\ c1.count = q.c.count
        BY <1>5, <1>7 DEF Running
    <2> HIDE DEF c1
    <2>2. [q EXCEPT !.c = c1] \in Cursor /\ Keeps(q, [q EXCEPT !.c = c1])
        BY <2>1 DEF Cursor, Keeps
    <2> QED
        BY <2>2, <1>10
<1>11. CASE r = [q EXCEPT !.c = c2, !.ret = "DONE"]
    <2> HIDE DEF idx
    <2>1. c2 \in Running /\ c2.count = q.c.count
        BY <1>4, <1>7, <1>8 DEF Running
    <2> HIDE DEF c2
    <2>2. /\ [q EXCEPT !.c = c2, !.ret = "DONE"] \in Cursor
          /\ Keeps(q, [q EXCEPT !.c = c2, !.ret = "DONE"])
        BY <2>1, <1>5 DEF Cursor, Keeps
    <2> QED
        BY <2>2, <1>11
<1>12. CASE r = [q EXCEPT !.c = c, !.ret = "ERR"]
    <2>1. /\ [q EXCEPT !.c = c, !.ret = "ERR"] \in Cursor
          /\ Keeps(q, [q EXCEPT !.c = c, !.ret = "ERR"])
        BY <1>5, <1>7 DEF Cursor, Keeps
    <2> QED
        BY <2>1, <1>12
<1>13. CASE ~(idx >= c.count) /\ r = [q EXCEPT !.c = c3, !.off = off]
    <2>1. q.c.count = Len(q.arrays)
        <3>1. q.c.count > 1
            BY <1>0, <1>7, <1>13
        <3> QED
            BY <1>0, <3>1 DEF Listed
    <2>2. idx + 1 \in 1 .. Len(q.arrays)
        BY <1>0, <1>7, <1>8, <1>13, <2>1
    <2>3. q.arrays[idx + 1] \in ArrayNote
        <3> HIDE DEF idx
        <3> QED
            BY <1>0, <2>2
    <2>4. bytes \in Int
        BY <2>3 DEF ArrayNote
    <2>5. off \in Int
        <3>1. q.arrays[idx + 1].offset \in Int
            BY <2>3 DEF ArrayNote
        <3> QED
            BY <3>1
    <2> HIDE DEF idx, bytes, off
    <2>6. c3 \in Running /\ c3.count = q.c.count
        BY <1>5, <1>7, <1>8, <2>4 DEF Running
    <2> HIDE DEF c3
    <2>7. /\ [q EXCEPT !.c = c3, !.off = off] \in Cursor
          /\ Keeps(q, [q EXCEPT !.c = c3, !.off = off])
        BY <2>5, <2>6 DEF Cursor, Keeps
    <2> QED
        BY <2>7, <1>13
<1> HIDE DEF idx, bytes, off, c1, c2, c3
<1> QED
    BY <1>6, <1>9, <1>10, <1>11, <1>12, <1>13 DEF Keeps

LEMMA BatchStepType ==
    ASSUME NEW q \in Cursor, NEW s \in Readable, NEW base \in Nat, NEW end \in Nat,
           NEW first \in BOOLEAN, Listed(q), NEW r, r = BatchStep(q, s, base, end, first)
    PROVE  r \in Cursor /\ Listed(r)
<1> DEFINE q1 == BatchStart(q)
           q2 == BatchLength(q1, s, end, first)
           q3 == BatchMagic(q2, s, end)
           q4 == BatchCount(q3, s, end, first)
           q5 == BatchEnd(q4, base, end)
<1>1. r = q5 \/ r = [q5 EXCEPT !.ret = "go"]
    BY DEF BatchStep, Continue
<1>2. q1 \in Cursor /\ Keeps(q, q1)
    BY BatchStartType
<1> HIDE DEF q1
<1>3. q2 \in Cursor /\ Keeps(q1, q2)
    BY <1>2, BatchLengthType
<1> HIDE DEF q2
<1>4. q3 \in Cursor /\ Keeps(q2, q3)
    BY <1>3, BatchMagicType
<1> HIDE DEF q3
<1>5. q4 \in Cursor /\ Keeps(q3, q4)
    BY <1>4, BatchCountType
<1> HIDE DEF q4
<1>6. Listed(q4)
    BY <1>2, <1>3, <1>4, <1>5 DEF Keeps, Listed
<1>7. q5 \in Cursor /\ Keeps(q4, q5)
    BY <1>5, <1>6, BatchEndType
<1> HIDE DEF q5
<1>8. Listed(q5)
    BY <1>6, <1>7 DEF Keeps, Listed
<1>9. "go" \in Results
    BY DEF Results
<1>10. CASE r = [q5 EXCEPT !.ret = "go"]
    <2>1. r \in Cursor /\ Keeps(q5, r)
        BY <1>7, <1>9, <1>10, RetType
    <2> QED
        BY <2>1, <1>8 DEF Keeps, Listed
<1> QED
    BY <1>1, <1>7, <1>8, <1>10

-----------------------------------------------------------------------------
(* Induction.  A statement about every n is shown by looking at the least  *)
(* n it fails for.  A recursive function is a function that satisfies its  *)
(* equation only if there is one: the least length without one is shown    *)
(* not to exist.                                                           *)

LEMMA LeastNatural ==
    ASSUME NEW S \in SUBSET Nat, S # {}
    PROVE  \E m \in S : \A k \in S : m <= k
<1> DEFINE R == {ss \in Nat \X Nat : ss[1] < ss[2]}
<1>1. IsWellFoundedOn(R, Nat)
    BY NatLessThanWellFounded, Zenon DEF OpToRel
<1>2. \E x \in S : \A y \in S : ~(<<y, x>> \in R)
    <2> HIDE DEF R
    <2> QED
        BY <1>1, WFMin
<1>3. PICK x \in S : \A y \in S : <<y, x>> \notin R
    BY <1>2
<1>4. ASSUME NEW y \in S
      PROVE  x <= y
    <2>1. x \in Nat /\ y \in Nat
        OBVIOUS
    <2>2. ~(y < x)
        BY <1>3, <2>1
    <2> QED
        BY <2>1, <2>2
<1> QED
    BY <1>4

\* The cursor with which a loop begins.
LoopStart(c, arrays, base) ==
    [c |-> [c EXCEPT !.carry = 0], off |-> base + c.carry,
     arrays |-> arrays, ret |-> IF c.carry < 0 THEN "ERR" ELSE "go", val |-> 0]

\* g is the function of Loop on 0 .. m.
LoopTo(m, g, c, arrays, s, base, end) ==
    g = [n \in 0 .. m |->
           IF n = 0 THEN LoopStart(c, arrays, base)
           ELSE Iterate(g[n - 1], Level(c.state), s, base, end, n = 1)]

LEMMA LoopExists ==
    ASSUME NEW c, NEW arrays, NEW s, NEW base, NEW end
    PROVE  \A m \in Nat : \E g : LoopTo(m, g, c, arrays, s, base, end)
<1> DEFINE Has(m) == \E g : LoopTo(m, g, c, arrays, s, base, end)
           S == {m \in Nat : ~Has(m)}
<1> SUFFICES ASSUME S # {}
             PROVE  FALSE
    OBVIOUS
<1>1. PICK m \in S : \A k \in S : m <= k
    BY LeastNatural
<1>2. CASE m = 0
    <2> DEFINE g == [n \in 0 .. 0 |-> LoopStart(c, arrays, base)]
    <2>1. LoopTo(0, g, c, arrays, s, base, end)
        BY DEF LoopTo
    <2> QED
        BY <1>2, <2>1
<1>3. CASE m # 0
    <2>1. m - 1 \in Nat /\ m - 1 \notin S
        BY <1>1, <1>3
    <2>2. PICK h : LoopTo(m - 1, h, c, arrays, s, base, end)
        BY <2>1
    <2> DEFINE g == [n \in 0 .. m |->
                       IF n = 0 THEN LoopStart(c, arrays, base)
                       ELSE Iterate(h[n - 1], Level(c.state), s, base, end, n = 1)]
    <2>3. \A n \in 0 .. m - 1 : g[n] = h[n]
        BY <2>2, <2>1 DEF LoopTo
    <2>4. LoopTo(m, g, c, arrays, s, base, end)
        BY <2>2, <2>3, <2>1 DEF LoopTo
    <2> QED
        BY <2>4
<1> QED
    BY <1>2, <1>3

LEMMA LoopUnfolds ==
    ASSUME NEW c, NEW arrays, NEW s, NEW base, NEW end
    PROVE  \E g : /\ LoopTo(MaxIterations, g, c, arrays, s, base, end)
                  /\ Loop(c, arrays, s, base, end) = LoopEnd(g[MaxIterations], base)
<1> DEFINE f[n \in 0 .. MaxIterations] ==
             IF n = 0 THEN LoopStart(c, arrays, base)
             ELSE Iterate(f[n - 1], Level(c.state), s, base, end, n = 1)
<1>1. MaxIterations \in Nat
    BY KafkaParserAssumption
<1>2. f = [n \in 0 .. MaxIterations |->
             IF n = 0 THEN LoopStart(c, arrays, base)
             ELSE Iterate(f[n - 1], Level(c.state), s, base, end, n = 1)]
    <2>1. \E g : g = [n \in 0 .. MaxIterations |->
                       IF n = 0 THEN LoopStart(c, arrays, base)
                       ELSE Iterate(g[n - 1], Level(c.state), s, base, end, n = 1)]
        <3>1. PICK g : LoopTo(MaxIterations, g, c, arrays, s, base, end)
            BY <1>1, LoopExists
        <3> QED
            BY <3>1 DEF LoopTo
    <2> QED
        BY <2>1
<1>3. Loop(c, arrays, s, base, end) = LoopEnd(f[MaxIterations], base)
    BY DEF Loop, LoopStart
<1> HIDE DEF f
<1> QED
    BY <1>2, <1>3 DEF LoopTo

-----------------------------------------------------------------------------
(* One run of the parser.                                                  *)

\* At its level the arrays are those counted.
AtLevel(q, level) == IF level = "PARTITION" THEN Noted(q) ELSE Listed(q)

LEMMA IterateType ==
    ASSUME NEW q \in Cursor, NEW s \in Readable, NEW base \in Nat, NEW end \in Nat,
           NEW first \in BOOLEAN, NEW level, AtLevel(q, level),
           NEW r, r = Iterate(q, level, s, base, end, first)
    PROVE  r \in Cursor /\ AtLevel(r, level)
<1>1. CASE q.ret # "go"
    BY <1>1 DEF Iterate
<1>2. CASE q.ret = "go" /\ level = "PARTITION"
    <2>1. r = PartitionStep(q, s, base, end, first)
        BY <1>2 DEF Iterate
    <2> QED
        BY <1>2, <2>1, PartitionStepType DEF AtLevel
<1>3. CASE q.ret = "go" /\ level # "PARTITION"
    <2>1. r = BatchStep(q, s, base, end, first)
        BY <1>3 DEF Iterate
    <2> QED
        BY <1>3, <2>1, BatchStepType DEF AtLevel
<1> QED
    BY <1>1, <1>2, <1>3

LEMMA LoopStartType ==
    ASSUME NEW c \in Running, NEW arrays \in Seq(ArrayNote), NEW base \in Nat,
           NEW r, r = LoopStart(c, arrays, base)
    PROVE  r \in Cursor /\ r.c.count = c.count /\ r.arrays = arrays
<1> DEFINE zero == 0
           off == base + c.carry
           ret == IF c.carry < 0 THEN "ERR" ELSE "go"
           d == [c EXCEPT !.carry = zero]
<1>1. zero \in Int
    OBVIOUS
<1>2. off \in Int
    <2>1. c.carry \in Int
        BY DEF Running
    <2> QED
        BY <2>1
<1>3. ret \in Results
    BY DEF Results
<1>4. r = [c |-> d, off |-> off, arrays |-> arrays, ret |-> ret, val |-> zero]
    BY DEF LoopStart
<1> HIDE DEF zero, off, ret
<1>5. d \in Running /\ d.count = c.count
    BY <1>1 DEF Running
<1> HIDE DEF d
<1> QED
    BY <1>1, <1>2, <1>3, <1>4, <1>5 DEF Cursor

LEMMA LoopEndType ==
    ASSUME NEW q \in Cursor, NEW base \in Nat, NEW r, r = LoopEnd(q, base)
    PROVE  r \in Cursor /\ Keeps(q, r)
<1> DEFINE carry == q.off - base
<1>1. carry \in Int
    <2>1. q.off \in Int
        BY CursorFields
    <2> QED
        BY <2>1
<1>2. "LOOP_END" \in Results
    BY DEF Results
<1>3. r = q \/ r = [q EXCEPT !.c.carry = carry, !.ret = "LOOP_END"]
    BY DEF LoopEnd
<1> HIDE DEF carry
<1>4. /\ [q EXCEPT !.c.carry = carry, !.ret = "LOOP_END"] \in Cursor
      /\ Keeps(q, [q EXCEPT !.c.carry = carry, !.ret = "LOOP_END"])
    BY <1>1, <1>2, PutCarry
<1> QED
    BY <1>3, <1>4 DEF Keeps

\* A loop leaves a cursor, however many iterations it has: by induction over them.
LEMMA LoopType ==
    ASSUME NEW c \in Running, NEW arrays \in Seq(ArrayNote), NEW s \in Readable,
           NEW base \in Nat, NEW end \in Nat,
           IF Level(c.state) = "PARTITION" THEN c.count = Len(arrays)
           ELSE c.count <= 1 \/ c.count = Len(arrays),
           NEW r, r = Loop(c, arrays, s, base, end)
    PROVE  r \in Cursor /\ AtLevel(r, Level(c.state))
<1> DEFINE level == Level(c.state)
<1>0. MaxIterations \in Nat
    BY KafkaParserAssumption
<1>1. PICK g : /\ LoopTo(MaxIterations, g, c, arrays, s, base, end)
               /\ r = LoopEnd(g[MaxIterations], base)
    BY LoopUnfolds
<1> DEFINE Good(n) == g[n] \in Cursor /\ AtLevel(g[n], level)
           S == {n \in 0 .. MaxIterations : ~Good(n)}
<1>2. Good(0)
    <2>1. g[0] = LoopStart(c, arrays, base)
        BY <1>0, <1>1 DEF LoopTo
    <2>2. g[0] \in Cursor /\ g[0].c.count = c.count /\ g[0].arrays = arrays
        BY <2>1, LoopStartType
    <2> QED
        BY <2>2 DEF AtLevel, Noted, Listed
<1>3. ASSUME NEW n \in 1 .. MaxIterations, Good(n - 1)
      PROVE  Good(n)
    <2> DEFINE first == n = 1
    <2>1. g[n] = Iterate(g[n - 1], level, s, base, end, first)
        BY <1>0, <1>1 DEF LoopTo
    <2>2. first \in BOOLEAN
        OBVIOUS
    <2> HIDE DEF first, level
    <2> QED
        BY <1>3, <2>1, <2>2, IterateType
<1>4. S = {}
    <2> SUFFICES ASSUME S # {}
                 PROVE  FALSE
        OBVIOUS
    <2> HIDE DEF Good
    <2>0. S \in SUBSET Nat
        BY <1>0
    <2>1. PICK n \in S : \A k \in S : n <= k
        BY <2>0, LeastNatural
    <2>2. n \in 1 .. MaxIterations
        BY <1>0, <1>2
    <2>3. n - 1 \in 0 .. MaxIterations /\ n - 1 \notin S
        BY <1>0, <2>1, <2>2
    <2>4. Good(n - 1)
        BY <2>3
    <2> QED
        BY <1>3, <2>2, <2>4
<1>5. Good(MaxIterations)
    BY <1>0, <1>4
<1>6. r \in Cursor /\ Keeps(g[MaxIterations], r)
    BY <1>1, <1>5, LoopEndType
<1> QED
    BY <1>5, <1>6 DEF AtLevel, Noted, Listed, Keeps

-----------------------------------------------------------------------------
(* All runs on one segment.                                                *)

LEMMA SaveRemainderType ==
    ASSUME NEW q \in Cursor, NEW r, r = SaveRemainder(q)
    PROVE  /\ r \in Cursor /\ Keeps(q, r)
           /\ r.ret = "EOP" => r.c.carry >= 0
<1> DEFINE n == -q.c.carry
           zero == 0
<1>0. q.c.carry \in Int /\ "ERR" \in Results
    BY CursorFields DEF Results
<1>1. CASE q.ret # "EOP" \/ q.c.carry >= 0
    <2>1. r = q
        BY <1>1 DEF SaveRemainder
    <2> QED
        BY <1>1, <2>1 DEF Keeps
<1>2. CASE q.ret = "EOP" /\ q.c.carry < -3
    <2>1. r = [q EXCEPT !.ret = "ERR"]
        BY <1>0, <1>2 DEF SaveRemainder
    <2>2. r \in Cursor /\ Keeps(q, r)
        BY <1>0, <2>1, RetType
    <2>3. r.ret = "ERR"
        BY <2>1 DEF Cursor
    <2> QED
        BY <2>2, <2>3
<1>3. CASE q.ret = "EOP" /\ q.c.carry < 0 /\ ~(q.c.carry < -3)
    <2>1. r = [q EXCEPT !.c.remainder = n, !.c.carry = zero]
        BY <1>0, <1>3 DEF SaveRemainder
    <2>2. n \in 0 .. 3 /\ zero \in Int
        BY <1>0, <1>3
    <2> HIDE DEF n, zero
    <2>3. /\ [q EXCEPT !.c.remainder = n, !.c.carry = zero] \in Cursor
          /\ Keeps(q, [q EXCEPT !.c.remainder = n, !.c.carry = zero])
        BY <2>2, PutRemainder
    <2>4. [q EXCEPT !.c.remainder = n, !.c.carry = zero].c.carry = zero
        BY DEF Cursor, Running
    <2>5. r.c.carry = 0
        BY <2>1, <2>4 DEF zero
    <2> QED
        BY <2>1, <2>3, <2>5
<1> QED
    BY <1>0, <1>1, <1>2, <1>3

\* What a call of the parser leaves: a context with the arrays it has counted; at
\* the end of the packet one that can wait for the next segment.
Waits(q) == q.ret = "EOP" => q.c.carry >= 0 /\ q.c.count <= 1

Called(q) ==
    /\ q.c \in Running /\ q.arrays \in Seq(ArrayNote) /\ q.ret \in Results
    /\ Listed(q) /\ Waits(q)

LEMMA AfterPartitionsType ==
    ASSUME NEW q \in Cursor, Noted(q), NEW r, r = AfterPartitions(q)
    PROVE  Called(r)
<1>0. q.arrays \in Seq(ArrayNote) /\ q.c.count \in Nat /\ q.c.state \in States
    BY CursorFields
<1>1. CASE q.ret # "ERR" /\ q.c.count > 0
    <2> DEFINE n == q.arrays[1].num_bytes
               carry == q.arrays[1].offset
               old_state == q.c.state
               c == [q.c EXCEPT !.partition_state = old_state, !.state = "RECORD_BATCH_START",
                                !.num_bytes = n, !.carry = carry]
    <2>1. r = [q EXCEPT !.c.partition_state = old_state,
                        !.c.state = "RECORD_BATCH_START",
                        !.c.num_bytes = n, !.c.carry = carry, !.ret = "LOOP_END"]
        BY <1>1 DEF AfterPartitions
    <2>2. q.arrays[1] \in ArrayNote
        BY <1>0, <1>1 DEF Noted
    <2>3. n \in Int /\ carry \in Int /\ old_state \in States
        BY <1>0, <2>2 DEF ArrayNote
    <2>4. "RECORD_BATCH_START" \in States /\ "LOOP_END" \in Results
        BY DEF States, Results
    <2> HIDE DEF n, carry, old_state
    <2>5. q.c \in Running
        BY CursorFields
    <2>6. r.c = c
        BY <2>1 DEF Cursor
    <2>7. c \in Running /\ c.count = q.c.count
        BY <2>3, <2>4, <2>5 DEF Running
    <2>8. r.arrays = q.arrays /\ r.ret = "LOOP_END"
        BY <2>1 DEF Cursor
    <2> HIDE DEF c
    <2> QED
        BY <1>0, <2>4, <2>6, <2>7, <2>8 DEF Called, Waits, Listed, Noted
<1>2. CASE ~(q.ret # "ERR" /\ q.c.count > 0)
    <2>1. r = SaveRemainder(q)
        BY <1>2 DEF AfterPartitions
    <2>2. /\ r \in Cursor /\ Keeps(q, r)
          /\ r.ret = "EOP" => r.c.carry >= 0
        BY <2>1, SaveRemainderType
    <2>3. r.ret = "EOP" => q.ret # "ERR"
        <3>1. q.ret = "ERR" => r = q
            BY <2>1 DEF SaveRemainder
        <3> QED
            BY <3>1
    <2>4. Listed(r) /\ Waits(r)
        BY <1>0, <1>2, <2>2, <2>3 DEF Listed, Noted, Keeps, Waits
    <2>5. r.c \in Running /\ r.arrays \in Seq(ArrayNote) /\ r.ret \in Results
        BY <2>2, CursorFields
    <2> QED
        BY <2>4, <2>5 DEF Called
<1> QED
    BY <1>1, <1>2

LEMMA AfterBatchesType ==
    ASSUME NEW q \in Cursor, Listed(q), NEW r, r = AfterBatches(q)
    PROVE  Called(r)
<1>0. /\ q.arrays \in Seq(ArrayNote) /\ q.c.count \in Nat /\ q.c.partitions \in Int
      /\ q.c \in Running /\ q.ret \in Results
    BY CursorFields
<1>1. "LOOP_END" \in Results /\ "ERR" \in Results /\ "PARTITION_TAGGED_FIELDS" \in States
    BY DEF Results, States
<1>2. CASE q.ret = "DONE" /\ q.c.partitions # 0
    <2> DEFINE n == IF q.c.partition_state \in {"PARTITION_START",
                         "PARTITION_ABORTED_TRANSACTIONS", "RECORD_BATCHES_ARRAY_START"}
                    THEN q.c.partitions + 1 ELSE q.c.partitions
               p == [q EXCEPT !.c.partitions = n, !.c.state = "PARTITION_TAGGED_FIELDS",
                              !.ret = "LOOP_END"]
    <2>1. r = p
        BY <1>2 DEF AfterBatches
    <2>2. n \in Int
        BY <1>0
    <2> HIDE DEF n
    <2>3. p \in Cursor /\ Keeps(q, p)
        BY <1>1, <2>2, PutPartition
    <2>4. p.ret = "LOOP_END"
        BY DEF Cursor
    <2> HIDE DEF p
    <2>5. p.c \in Running /\ p.arrays \in Seq(ArrayNote)
        BY <2>3, CursorFields
    <2> QED
        BY <1>1, <2>1, <2>3, <2>4, <2>5 DEF Called, Waits, Listed, Keeps
<1>3. CASE ~(q.ret = "DONE" /\ q.c.partitions # 0) /\ q.ret = "EOP" /\ q.c.idx # q.c.count - 1
    <2>1. r = [q EXCEPT !.ret = "ERR"]
        BY <1>3 DEF AfterBatches
    <2>2. r \in Cursor /\ Keeps(q, r)
        BY <1>1, <2>1, RetType
    <2>3. r.ret = "ERR"
        BY <2>1 DEF Cursor
    <2>4. r.c \in Running /\ r.arrays \in Seq(ArrayNote)
        BY <2>2, CursorFields
    <2> QED
        BY <1>1, <2>2, <2>3, <2>4 DEF Called, Waits, Listed, Keeps
<1>4. CASE ~(q.ret = "DONE" /\ q.c.partitions # 0) /\ q.ret = "EOP" /\ q.c.idx = q.c.count - 1
    <2> DEFINE zero == 0
               one == 1
               c == [q.c EXCEPT !.idx = zero, !.count = one]
               p == [q EXCEPT !.c = c]
    <2>1. r = SaveRemainder([q EXCEPT !.c.idx = zero, !.c.count = one])
        BY <1>4 DEF AfterBatches
    <2>2. zero \in Nat /\ one \in Nat
        OBVIOUS
    <2> HIDE DEF zero, one
    <2>3. [q EXCEPT !.c.idx = zero, !.c.count = one] = p
        BY DEF Cursor
    <2>4. c \in Running /\ c.count = one
        BY <1>0, <2>2 DEF Running
    <2> HIDE DEF c
    <2>5. p \in Cursor /\ p.c = c
        BY <2>4 DEF Cursor
    <2> HIDE DEF p
    <2>6. /\ r \in Cursor /\ Keeps(p, r)
          /\ r.ret = "EOP" => r.c.carry >= 0
        BY <2>1, <2>3, <2>5, SaveRemainderType
    <2>7. r.c.count = 1
        BY <2>4, <2>5, <2>6 DEF Keeps, one
    <2>8. r.c \in Running /\ r.arrays \in Seq(ArrayNote) /\ r.ret \in Results
        BY <2>6, CursorFields
    <2> QED
        BY <2>6, <2>7, <2>8 DEF Called, Waits, Listed
<1>5. CASE ~(q.ret = "DONE" /\ q.c.partitions # 0) /\ q.ret # "EOP"
    <2>1. r = q
        BY <1>5 DEF AfterBatches
    <2> QED
        BY <1>0, <1>5, <2>1 DEF Called, Waits
<1> QED
    BY <1>2, <1>3, <1>4, <1>5

LEMMA TailCallType ==
    ASSUME NEW q, Called(q), NEW s \in Readable, NEW base \in Nat, NEW end \in Nat,
           NEW r, r = TailCall(q, s, base, end)
    PROVE  Called(r)
<1>1. CASE q.ret # "LOOP_END"
    BY <1>1 DEF TailCall
<1>2. CASE q.ret = "LOOP_END" /\ Level(q.c.state) = "PARTITION"
    <2> DEFINE zero == 0
               c == [q.c EXCEPT !.count = zero, !.idx = zero]
               arrays == << >>
               p == Loop(c, arrays, s, base, end)
    <2>1. r = AfterPartitions(p)
        BY <1>2 DEF TailCall, ContinuePartition
    <2>2. zero \in Nat
        OBVIOUS
    <2>3. arrays \in Seq(ArrayNote) /\ zero = Len(arrays)
        OBVIOUS
    <2> HIDE DEF zero, arrays
    <2>4. c \in Running /\ c.count = zero /\ c.state = q.c.state
        BY <2>2 DEF Called, Running
    <2> HIDE DEF c
    <2>5. Level(c.state) = "PARTITION" /\ c.count = Len(arrays)
        BY <1>2, <2>3, <2>4
    <2>6. p \in Cursor /\ AtLevel(p, Level(c.state))
        BY <2>3, <2>4, <2>5, LoopType
    <2> HIDE DEF p
    <2>7. Noted(p)
        BY <2>5, <2>6 DEF AtLevel
    <2> QED
        BY <2>1, <2>6, <2>7, AfterPartitionsType
<1>3. CASE q.ret = "LOOP_END" /\ Level(q.c.state) # "PARTITION"
    <2> DEFINE c == q.c
               arrays == q.arrays
               p == Loop(c, arrays, s, base, end)
    <2>1. r = AfterBatches(p)
        BY <1>3 DEF TailCall, ContinueBatches
    <2>2. /\ c \in Running /\ arrays \in Seq(ArrayNote)
          /\ c.count <= 1 \/ c.count = Len(arrays)
        BY DEF Called, Listed
    <2>3. Level(c.state) # "PARTITION"
        BY <1>3
    <2> HIDE DEF c, arrays
    <2>4. p \in Cursor /\ AtLevel(p, Level(c.state))
        BY <2>2, <2>3, LoopType
    <2> HIDE DEF p
    <2>5. Listed(p)
        BY <2>3, <2>4 DEF AtLevel
    <2> QED
        BY <2>1, <2>4, <2>5, AfterBatchesType
<1> QED
    BY <1>1, <1>2, <1>3

\* What the first call begins with.
FirstCall(c) == [c |-> c, arrays |-> <<>>, ret |-> "LOOP_END"]

\* g is the function of ParseSegment on 0 .. m.
CallsTo(m, g, c, s, base, end) ==
    g = [n \in 0 .. m |->
           IF n = 0 THEN FirstCall(c)
           ELSE TailCall(g[n - 1], s, base, end)]

LEMMA CallsExist ==
    ASSUME NEW c, NEW s, NEW base, NEW end
    PROVE  \A m \in Nat : \E g : CallsTo(m, g, c, s, base, end)
<1> DEFINE Has(m) == \E g : CallsTo(m, g, c, s, base, end)
           S == {m \in Nat : ~Has(m)}
<1> SUFFICES ASSUME S # {}
             PROVE  FALSE
    OBVIOUS
<1>1. PICK m \in S : \A k \in S : m <= k
    BY LeastNatural
<1>2. CASE m = 0
    <2> DEFINE g == [n \in 0 .. 0 |-> FirstCall(c)]
    <2>1. CallsTo(0, g, c, s, base, end)
        BY DEF CallsTo
    <2> QED
        BY <1>2, <2>1
<1>3. CASE m # 0
    <2>1. m - 1 \in Nat /\ m - 1 \notin S
        BY <1>1, <1>3
    <2>2. PICK h : CallsTo(m - 1, h, c, s, base, end)
        BY <2>1
    <2> DEFINE g == [n \in 0 .. m |->
                       IF n = 0 THEN FirstCall(c) ELSE TailCall(h[n - 1], s, base, end)]
    <2>3. \A n \in 0 .. m - 1 : g[n] = h[n]
        BY <2>2, <2>1 DEF CallsTo
    <2>4. CallsTo(m, g, c, s, base, end)
        BY <2>2, <2>3, <2>1 DEF CallsTo
    <2> QED
        BY <2>4
<1> QED
    BY <1>2, <1>3

LEMMA CallsUnfold ==
    ASSUME NEW c, NEW s, NEW base, NEW end
    PROVE  \E g : /\ CallsTo(MaxTailCalls, g, c, s, base, end)
                  /\ ParseSegment(c, s, base, end) = g[MaxTailCalls]
<1> DEFINE f[n \in 0 .. MaxTailCalls] ==
             IF n = 0 THEN FirstCall(c)
             ELSE TailCall(f[n - 1], s, base, end)
<1>1. MaxTailCalls \in Nat
    BY KafkaParserAssumption
<1>2. f = [n \in 0 .. MaxTailCalls |->
             IF n = 0 THEN FirstCall(c)
             ELSE TailCall(f[n - 1], s, base, end)]
    <2>1. \E g : g = [n \in 0 .. MaxTailCalls |->
                       IF n = 0 THEN FirstCall(c)
                       ELSE TailCall(g[n - 1], s, base, end)]
        <3>1. PICK g : CallsTo(MaxTailCalls, g, c, s, base, end)
            BY <1>1, CallsExist
        <3> QED
            BY <3>1 DEF CallsTo
    <2> QED
        BY <2>1
<1>3. ParseSegment(c, s, base, end) = f[MaxTailCalls]
    BY DEF ParseSegment, FirstCall
<1> HIDE DEF f
<1> QED
    BY <1>2, <1>3 DEF CallsTo

\* Whatever the bytes of a segment: the parser leaves a context, and one that
\* can wait if it wants more.
LEMMA ParseSegmentType ==
    ASSUME NEW c \in Running, c.count <= 1, NEW s \in Readable,
           NEW base \in Nat, NEW end \in Nat, NEW r, r = ParseSegment(c, s, base, end)
    PROVE  Called(r)
<1>0. MaxTailCalls \in Nat
    BY KafkaParserAssumption
<1>1. PICK g : /\ CallsTo(MaxTailCalls, g, c, s, base, end)
               /\ r = g[MaxTailCalls]
    BY CallsUnfold
<1> DEFINE Good(n) == Called(g[n])
           S == {n \in 0 .. MaxTailCalls : ~Good(n)}
<1>2. Good(0)
    <2>1. g[0] = [c |-> c, arrays |-> <<>>, ret |-> "LOOP_END"]
        BY <1>0, <1>1 DEF CallsTo, FirstCall
    <2>2. "LOOP_END" \in Results
        BY DEF Results
    <2>3. << >> \in Seq(ArrayNote)
        OBVIOUS
    <2> QED
        BY <2>1, <2>2, <2>3 DEF Called, Listed, Waits
<1>3. ASSUME NEW n \in 1 .. MaxTailCalls, Good(n - 1)
      PROVE  Good(n)
    <2>1. g[n] = TailCall(g[n - 1], s, base, end)
        BY <1>0, <1>1 DEF CallsTo
    <2> QED
        BY <1>3, <2>1, TailCallType
<1>4. S = {}
    <2> SUFFICES ASSUME S # {}
                 PROVE  FALSE
        OBVIOUS
    <2> HIDE DEF Good
    <2>0. S \in SUBSET Nat
        BY <1>0
    <2>1. PICK n \in S : \A k \in S : n <= k
        BY <2>0, LeastNatural
    <2>2. n \in 1 .. MaxTailCalls
        BY <1>0, <1>2
    <2>3. n - 1 \in 0 .. MaxTailCalls /\ n - 1 \notin S
        BY <1>0, <2>1, <2>2
    <2>4. Good(n - 1)
        BY <2>3
    <2> QED
        BY <1>3, <2>2, <2>4
<1> QED
    BY <1>0, <1>1, <1>4

-----------------------------------------------------------------------------
(* The types of the probe's state.                                         *)

\* Fetch requests, as they wait in the slot and in contexts.
Fetch == {tx \in Transaction : tx.api = 1 /\ tx.records = 0}

\* Contexts between two segments: no array but one that goes on is counted.
Waiting == {x \in Context : x.tx \in Fetch /\ x.c.count <= 1}

Update == [key : Tuple, val : Transaction, begin : Nat, upto : Nat]

FilterTypes ==
    /\ kafka_in_flight \in {None} \cup Fetch
    /\ kafka_response \in [Tuple -> {None} \cup Waiting]
    /\ writes \in Seq(Update)

ReaderTypes ==
    /\ kafka_event \in [Tuple -> {None} \cup Transaction]
    /\ reader \in [at : {"next", "delete", "send"}, key : {None} \cup Tuple,
                   val : {None} \cup Transaction]
    /\ reader.at # "next" => reader.key \in Tuple /\ reader.val \in Transaction
    /\ ch \in Seq(Transaction) /\ Len(ch) <= ChCap
    /\ \A tx \in DOMAIN reported : tx \in Transaction /\ reported[tx] \in Nat \ {0}

WireTypes ==
    /\ world \in DOMAIN Worlds
    /\ sent \in [Tuple -> Nat]
    /\ \A t \in Tuple : sent[t] <= Len(Stream(t).bytes)
    /\ old \in Nat

TypeInv == WireTypes /\ FilterTypes /\ ReaderTypes

LEMMA StreamType ==
    ASSUME world \in DOMAIN Worlds, NEW t \in Tuple
    PROVE  /\ Stream(t).bytes \in Seq(0 .. 255)
           /\ Stream(t).ends \subseteq 0 .. Len(Stream(t).bytes)
BY WorldsAssumption DEF Stream

LEMMA PacketType ==
    ASSUME world \in DOMAIN Worlds, NEW t \in Tuple, NEW base \in Nat, NEW end \in Nat,
           end <= Len(Stream(t).bytes)
    PROVE  Packet(t, base, end) \in Readable
<1> DEFINE b == Stream(t).bytes
<1>1. b \in Seq(0 .. 255) /\ Len(b) \in Nat
    BY StreamType
<1>2. end <= Len(b)
    OBVIOUS
<1>3. Packet(t, base, end) = [p \in Int |-> IF p \in base + 1 .. end THEN b[p] ELSE 0]
    BY DEF Packet
<1> HIDE DEF b
<1>4. ASSUME NEW p \in base + 1 .. end
      PROVE  b[p] \in 0 .. 255
    <2> DEFINE Byte == 0 .. 255
    <2>1. p \in 1 .. Len(b) /\ b \in Seq(Byte)
        BY <1>1, <1>2
    <2> HIDE DEF Byte
    <2>2. b[p] \in Byte
        BY <2>1
    <2> QED
        BY <2>2 DEF Byte
<1> QED
    BY <1>3, <1>4 DEF Readable

LEMMA Signed16Type ==
    ASSUME NEW s \in Readable, NEW p \in Int
    PROVE  Signed16(s, p) \in Int
<1> DEFINE n == Unsigned(s, p, 2)
<1>1. n \in Nat
    BY UnsignedType
<1> HIDE DEF n
<1>2. Signed16(s, p) = IF n > 32767 THEN n - 65536 ELSE n
    BY DEF Signed16, n
<1> QED
    BY <1>1, <1>2

LEMMA HeaderType ==
    ASSUME NEW s \in Readable, NEW p \in Nat, NEW end \in Nat
    PROVE  Header(s, p, end).version \in Int /\ Header(s, p, end).client_id_size \in Int
<1>1. p + 6 \in Int /\ p + 12 \in Int
    OBVIOUS
<1>2. Signed16(s, p + 6) \in Int /\ Signed16(s, p + 12) \in Int
    BY <1>1, Signed16Type
<1> QED
    BY <1>2 DEF Header

LEMMA TopicTypes ==
    ASSUME NEW s \in Readable, NEW p \in Int, NEW end \in Nat, NEW version \in Int
    PROVE  /\ ProduceTopic(s, p, version, end).off \in Int
           /\ FetchTopic(p, version) \in Int
           /\ TopicSize(s, p, end) \in Int
           /\ ProduceRecords(s, p, end) \in Int
<1>1. Signed16(s, p) \in Int
    BY Signed16Type
<1>2. ProduceTopic(s, p, version, end).off \in Int
    BY <1>1 DEF ProduceTopic, Positive
<1>3. FetchTopic(p, version) \in Int
    BY DEF FetchTopic
<1>4. TopicSize(s, p, end) \in Int
    BY <1>1 DEF TopicSize
<1>5. ProduceRecords(s, p, end) \in Int
    <2>1. Signed32(s, p + 69) \in Int
        BY Signed32Type
    <2> QED
        BY <2>1 DEF ProduceRecords
<1> QED
    BY <1>2, <1>3, <1>4, <1>5

\* A request that passes the checks is a transaction, named by its segment.
LEMMA ParseRequestType ==
    ASSUME WireTypes, NEW t \in Tuple, NEW base \in Nat, NEW end \in Nat,
           end <= Len(Stream(t).bytes), NEW no \in Nat,
           NEW tx, tx = ParseRequest(t, base, end, no), tx # None
    PROVE  /\ tx \in Transaction
           /\ tx.from = t /\ tx.base = base /\ tx.no = no
           /\ tx.api = 1 => tx \in Fetch
<1> DEFINE s == Packet(t, base, end)
           h == Header(s, base, end)
           p == base + 14 + Positive(h.client_id_size)
           produce == ProduceTopic(s, p, h.version, end)
           topic == 4 + (IF h.api = 0 THEN produce.off ELSE FetchTopic(p, h.version))
           where == topic + 2 + TopicSize(s, topic, end)
           records == IF h.api = 1 THEN 0 ELSE ProduceRecords(s, where, end)
<1>1. /\ IsValidHeader(h) /\ (h.api = 0 => records > 0)
      /\ tx = [from |-> t, base |-> base, no |-> no, api |-> h.api,
               version |-> h.version, records |-> records]
    BY DEF ParseRequest
<1>2. s \in Readable
    BY PacketType DEF WireTypes
<1> HIDE DEF s
<1>3. h.version \in Int /\ h.client_id_size \in Int
    BY <1>2, HeaderType
<1> HIDE DEF h
<1>4. h.api \in {0, 1} /\ h.version \in 0 .. 11
    <2>1. IsValidHeader(h)
        BY <1>1
    <2>2. /\ h.version >= 0
          /\ \/ h.api = 1 /\ h.version <= 11
             \/ h.api = 0 /\ h.version \in 1 .. 8
        BY <2>1, Zenon DEF IsValidHeader
    <2>3. h.api \in {0, 1}
        BY <2>2, Zenon
    <2>4. h.version <= 11 => h.version \in 0 .. 11
        <3> DEFINE v == h.version
        <3>1. v \in Int
            BY <1>3
        <3>2. v >= 0
            BY <2>2, Zenon
        <3> HIDE DEF v
        <3>3. v <= 11 => v \in 0 .. 11
            BY <3>1, <3>2
        <3> QED
            BY <3>3 DEF v
    <2>5. h.version \in 1 .. 8 => h.version \in 0 .. 11
        OBVIOUS
    <2> QED
        BY <2>2, <2>3, <2>4, <2>5, Zenon
<1>5. p \in Int
    BY <1>3 DEF Positive
<1> HIDE DEF p
<1>6. produce.off \in Int /\ FetchTopic(p, h.version) \in Int
    BY <1>2, <1>3, <1>5, TopicTypes
<1> HIDE DEF produce
<1>7. topic \in Int
    BY <1>6
<1> HIDE DEF topic
<1>8. TopicSize(s, topic, end) \in Int
    BY <1>2, <1>3, <1>7, TopicTypes
<1>9. where \in Int
    BY <1>7, <1>8
<1> HIDE DEF where
<1>10. ProduceRecords(s, where, end) \in Int
    BY <1>2, <1>3, <1>9, TopicTypes
<1>11. records \in Nat /\ (h.api = 1 => records = 0)
    BY <1>1, <1>4, <1>10
<1> HIDE DEF records
<1>12. tx \in Transaction
    BY <1>1, <1>4, <1>11 DEF Transaction
<1> QED
    BY <1>1, <1>11, <1>12 DEF Fetch

\* What the parser is given and leaves: a context, its transaction, a position.
Parsing == [c : Running, tx : Fetch, begin : Nat]

LEMMA WaitingParses ==
    ASSUME NEW x \in Waiting
    PROVE  x \in Parsing /\ x.c.count <= 1 /\ x.tx \in Fetch /\ x.c.expected \in Nat
<1>1. x \in Context /\ x.tx \in Fetch /\ x.c.count <= 1
    BY DEF Waiting
<1>2. x.c \in Running /\ x.c.expected \in Nat /\ x.begin \in Nat
    BY <1>1 DEF Context, Running
<1>3. x = [c |-> x.c, tx |-> x.tx, begin |-> x.begin]
    BY <1>1 DEF Context
<1> QED
    BY <1>1, <1>2, <1>3 DEF Parsing

LEMMA ParsingWaits ==
    ASSUME NEW x \in Parsing, x.c.carry >= 0, x.c.count <= 1
    PROVE  x \in Waiting
<1>1. x.c \in Running /\ x.tx \in Fetch /\ x.begin \in Nat
    BY DEF Parsing
<1>2. x.c.carry \in Nat
    <2>1. x.c.carry \in Int
        BY <1>1 DEF Running
    <2> QED
        BY <2>1
<1>3. x.c \in [state : States, partition_state : States, remainder : 0 .. 3,
               num_bytes : Int, batch_length : Int, expected : Nat, carry : Nat,
               partitions : Int, idx : Nat, count : Nat, version : 0 .. 11, records : Nat]
    BY <1>1, <1>2 DEF Running
<1>4. x.tx \in Transaction
    BY <1>1 DEF Fetch
<1>5. x = [c |-> x.c, tx |-> x.tx, begin |-> x.begin]
    BY DEF Parsing
<1>6. x \in Context
    BY <1>1, <1>3, <1>4, <1>5 DEF Context
<1> QED
    BY <1>1, <1>6 DEF Waiting

LEMMA EventType ==
    ASSUME NEW x \in Parsing, NEW t \in Tuple
    PROVE  Event(t, x) \in Update
<1> DEFINE val == [x.tx EXCEPT !.records = x.c.records]
<1>1. x.c \in Running /\ x.tx \in Transaction /\ x.begin \in Nat
    BY DEF Parsing, Fetch
<1>2. x.c.records \in Nat /\ x.c.expected \in Nat
    BY <1>1 DEF Running
<1>3. val \in Transaction
    BY <1>1, <1>2 DEF Transaction
<1>4. Event(t, x) = [key |-> t, val |-> val, begin |-> x.begin, upto |-> x.c.expected]
    BY DEF Event
<1> HIDE DEF val
<1> QED
    BY <1>1, <1>2, <1>3, <1>4 DEF Update

\* The parser keeps the context of t, or drops it and makes up to two updates.
Kept(t, y, before) ==
    /\ y \in Waiting
    /\ kafka_response' = [kafka_response EXCEPT ![t] = y]
    /\ writes' = before

Dropped(t, y, before) ==
    /\ kafka_response' = [kafka_response EXCEPT ![t] = None]
    /\ \/ writes' = before
       \/ writes' = before \o <<Event(t, y)>>
       \/ writes' = before \o <<Event(t, y), Event(t, y)>>

LEMMA RunParserEffect ==
    ASSUME WireTypes, NEW t \in Tuple, NEW base \in Nat, NEW end \in Nat,
           end <= Len(Stream(t).bytes), NEW x \in Parsing, x.c.count <= 1,
           NEW before \in Seq(Update), RunParser(t, x, base, end, before)
    PROVE  \E y \in Parsing : y.tx = x.tx /\ (Kept(t, y, before) \/ Dropped(t, y, before))
<1> DEFINE s == Packet(t, base, end)
           q == ParseSegment(x.c, s, base, end)
           y == [x EXCEPT !.c = q.c]
           e == CASE q.ret \in {"EOP", "ERR"} -> <<>>
                  [] q.ret = "LOOP_END" /\ y.c.records = 0 -> <<Event(t, y)>>
                  [] OTHER -> <<Event(t, y), Event(t, y)>>
<1>1. /\ kafka_response' = [kafka_response EXCEPT ![t] = IF q.ret = "EOP" THEN y ELSE None]
      /\ writes' = before \o e
    BY DEF RunParser, ParserEnds
<1>2. s \in Readable
    BY PacketType DEF WireTypes
<1> HIDE DEF s
<1>3. x.c \in Running
    BY DEF Parsing
<1>4. Called(q)
    BY <1>2, <1>3, ParseSegmentType
<1> HIDE DEF q
<1>5. q.c \in Running /\ Waits(q)
    BY <1>4 DEF Called
<1>6. y \in Parsing /\ y.tx = x.tx /\ y.c = q.c
    BY <1>5 DEF Parsing
<1>7. before \o <<>> = before
    OBVIOUS
<1> HIDE DEF y
<1>8. CASE q.ret = "EOP"
    <2>1. e = <<>>
        BY <1>8
    <2>2. y \in Waiting
        BY <1>5, <1>6, <1>8, ParsingWaits DEF Waits
    <2> QED
        BY <1>1, <1>6, <1>7, <1>8, <2>1, <2>2 DEF Kept
<1>9. CASE q.ret # "EOP"
    <2>1. e = <<>> \/ e = <<Event(t, y)>> \/ e = <<Event(t, y), Event(t, y)>>
        BY <1>9
    <2> HIDE DEF e
    <2>2. Dropped(t, y, before)
        BY <1>1, <1>7, <1>9, <2>1 DEF Dropped
    <2> QED
        BY <1>6, <2>2
<1> QED
    BY <1>8, <1>9

LEMMA ConcatType ==
    ASSUME NEW S, NEW u \in Seq(S), NEW v \in Seq(S)
    PROVE  u \o v \in Seq(S)
OBVIOUS

LEMMA EffectType ==
    ASSUME FilterTypes, NEW t \in Tuple, NEW y \in Parsing, NEW before \in Seq(Update),
           Kept(t, y, before) \/ Dropped(t, y, before)
    PROVE  /\ kafka_response' \in [Tuple -> {None} \cup Waiting]
           /\ writes' \in Seq(Update)
<1>1. Event(t, y) \in Update
    BY EventType
<1>2. CASE Kept(t, y, before)
    BY <1>2 DEF Kept, FilterTypes
<1>3. CASE Dropped(t, y, before)
    <2>1. kafka_response' \in [Tuple -> {None} \cup Waiting]
        BY <1>3 DEF Dropped, FilterTypes
    <2> DEFINE e == Event(t, y)
    <2>2. writes' = before \/ writes' = before \o <<e>> \/ writes' = before \o <<e, e>>
        BY <1>3 DEF Dropped
    <2>3. e \in Update
        BY <1>1
    <2> HIDE DEF e
    <2>4. <<e>> \in Seq(Update) /\ <<e, e>> \in Seq(Update)
        BY <2>3
    <2>5. writes' \in Seq(Update)
        <3>1. before \o <<e>> \in Seq(Update) /\ before \o <<e, e>> \in Seq(Update)
            BY <2>4, ConcatType
        <3> QED
            BY <2>2, <3>1
    <2> QED
        BY <2>1, <2>5
<1> QED
    BY <1>2, <1>3

\* The update that flushes a context which has found records.
Flushed(t) ==
    LET x == kafka_response[t]
    IN  IF x # None /\ x.c.records > 0 THEN <<Event(t, x)>> ELSE <<>>

LEMMA FlushedType ==
    ASSUME FilterTypes, NEW t \in Tuple
    PROVE  Flushed(t) \in Seq(Update)
<1> DEFINE x == kafka_response[t]
<1>1. x # None => x \in Waiting
    BY DEF FilterTypes
<1>2. Flushed(t) = <<>> \/ (x # None /\ Flushed(t) = <<Event(t, x)>>)
    BY DEF Flushed
<1> HIDE DEF x
<1>3. x # None => Event(t, x) \in Update
    BY <1>1, WaitingParses, EventType
<1> DEFINE e == Event(t, x)
<1>4. Flushed(t) = <<>> \/ (e \in Update /\ Flushed(t) = <<e>>)
    BY <1>2, <1>3
<1> HIDE DEF e
<1>5. << >> \in Seq(Update)
    OBVIOUS
<1>6. e \in Update => <<e>> \in Seq(Update)
    OBVIOUS
<1> QED
    BY <1>4, <1>5, <1>6, Zenon

\* The context with which a response that takes transaction tx begins.
Begun(tx, base, end) == [c |-> NewContext(tx.version, end), tx |-> tx, begin |-> base]

LEMMA BegunType ==
    ASSUME NEW tx \in Fetch, NEW base \in Nat, NEW end \in Nat
    PROVE  Begun(tx, base, end) \in Parsing /\ Begun(tx, base, end).c.count <= 1
<1>1. tx.version \in 0 .. 11
    BY DEF Fetch, Transaction
<1>2. NewContext(tx.version, end) \in Running
    BY <1>1 DEF NewContext, Running, States
<1>3. NewContext(tx.version, end).count = 0
    BY DEF NewContext
<1> QED
    BY <1>2, <1>3 DEF Begun, Parsing

\* What the filter does with a segment of tuple t: goes on with the context of t,
\* ignores a segment from before it, takes the slot's fetch for a new response,
\* or looks for a request.
GoesOn(t) ==
    \E x \in Waiting, y \in Parsing :
      /\ x # None /\ kafka_response[t] = x /\ y.tx = x.tx
      /\ Kept(t, y, <<>>) \/ Dropped(t, y, <<>>)
      /\ UNCHANGED kafka_in_flight

Takes(t) ==
    \E y \in Parsing :
      /\ kafka_in_flight # None /\ kafka_in_flight = y.tx
      /\ kafka_in_flight' = None
      /\ Kept(t, y, Flushed(t)) \/ Dropped(t, y, Flushed(t))

LEMMA FilterEffect ==
    ASSUME WireTypes, FilterTypes, NEW t \in Tuple, NEW base \in Nat, NEW end \in Nat,
           end <= Len(Stream(t).bytes), NEW no, Filter(t, base, end, no)
    PROVE  /\ writes = <<>>
           /\ \/ GoesOn(t)
              \/ UNCHANGED filterVars
              \/ Takes(t)
              \/ Request(t, base, end, no, Flushed(t))
<1> DEFINE x == kafka_response[t]
<1>1. x # None => x \in Waiting
    BY DEF FilterTypes
<1>2. /\ writes = <<>>
      /\ \/ /\ x # None
            /\ RunParser(t, [x EXCEPT !.c.expected = end], base, end, <<>>)
            /\ UNCHANGED kafka_in_flight
         \/ UNCHANGED filterVars
         \/ NewResponse(t, base, end, Flushed(t))
         \/ Request(t, base, end, no, Flushed(t))
    BY DEF Filter, Flushed
<1> HIDE DEF x
<1>3. CASE /\ x # None
           /\ RunParser(t, [x EXCEPT !.c.expected = end], base, end, <<>>)
           /\ UNCHANGED kafka_in_flight
    <2> DEFINE z == [x EXCEPT !.c.expected = end]
    <2>1. x \in Waiting /\ x \in Parsing /\ x.c.count <= 1
        BY <1>1, <1>3, WaitingParses
    <2>2. x.c \in Running
        BY <2>1 DEF Parsing
    <2>3. [x.c EXCEPT !.expected = end] \in Running /\ [x.c EXCEPT !.expected = end].count = x.c.count
        BY <2>2 DEF Running
    <2>4. z.c = [x.c EXCEPT !.expected = end] /\ z.tx = x.tx /\ z \in Parsing
        BY <2>1, <2>3 DEF Parsing
    <2>5. RunParser(t, z, base, end, <<>>)
        BY <1>3
    <2> HIDE DEF z
    <2>6. z.c.count <= 1
        BY <2>1, <2>3, <2>4
    <2>7. << >> \in Seq(Update)
        OBVIOUS
    <2>8. \E y \in Parsing : y.tx = z.tx /\ (Kept(t, y, <<>>) \/ Dropped(t, y, <<>>))
        BY <2>4, <2>5, <2>6, <2>7, RunParserEffect
    <2> QED
        BY <1>2, <1>3, <2>1, <2>4, <2>8 DEF GoesOn, x
<1>4. CASE NewResponse(t, base, end, Flushed(t))
    <2>1. /\ kafka_in_flight # None /\ kafka_in_flight' = None
          /\ RunParser(t, Begun(kafka_in_flight, base, end), base, end, Flushed(t))
        BY <1>4 DEF NewResponse, Begun
    <2>2. kafka_in_flight \in Fetch
        BY <2>1 DEF FilterTypes
    <2>3. Begun(kafka_in_flight, base, end) \in Parsing
            /\ Begun(kafka_in_flight, base, end).c.count <= 1
        BY <2>2, BegunType
    <2>4. Begun(kafka_in_flight, base, end).tx = kafka_in_flight
        BY DEF Begun
    <2>5. Flushed(t) \in Seq(Update)
        BY FlushedType
    <2>6. \E y \in Parsing : /\ y.tx = Begun(kafka_in_flight, base, end).tx
                             /\ Kept(t, y, Flushed(t)) \/ Dropped(t, y, Flushed(t))
        BY <2>1, <2>3, <2>5, RunParserEffect
    <2> QED
        BY <1>2, <2>1, <2>4, <2>6 DEF Takes
<1> QED
    BY <1>2, <1>3, <1>4

LEMMA RequestType ==
    ASSUME WireTypes, FilterTypes, NEW t \in Tuple, NEW base \in Nat, NEW end \in Nat,
           end <= Len(Stream(t).bytes), NEW no \in Nat,
           Request(t, base, end, no, Flushed(t))
    PROVE  FilterTypes'
<1> DEFINE tx == ParseRequest(t, base, end, no)
           w == [key |-> t, val |-> tx, begin |-> base, upto |-> end]
<1>1. tx # None => tx \in Transaction /\ (tx.api = 1 => tx \in Fetch)
    BY ParseRequestType
<1>2. /\ kafka_response' = [kafka_response EXCEPT ![t] = None]
      /\ kafka_in_flight' = IF tx # None /\ tx.api = 1 /\ kafka_in_flight = None
                            THEN tx ELSE kafka_in_flight
      /\ writes' = IF tx # None /\ tx.api = 0 THEN Append(Flushed(t), w) ELSE Flushed(t)
    BY DEF Request
<1> HIDE DEF tx
<1>3. kafka_response' \in [Tuple -> {None} \cup Waiting]
    BY <1>2 DEF FilterTypes
<1>4. kafka_in_flight' \in {None} \cup Fetch
    BY <1>1, <1>2 DEF FilterTypes
<1>5. tx # None => w \in Update
    BY <1>1 DEF Update
<1> HIDE DEF w
<1>6. Flushed(t) \in Seq(Update)
    BY FlushedType
<1>7. writes' \in Seq(Update)
    BY <1>2, <1>5, <1>6
<1> QED
    BY <1>3, <1>4, <1>7 DEF FilterTypes

LEMMA FilterType ==
    ASSUME WireTypes, FilterTypes, NEW t \in Tuple, NEW base \in Nat, NEW end \in Nat,
           end <= Len(Stream(t).bytes), NEW no \in Nat, Filter(t, base, end, no)
    PROVE  FilterTypes'
<1>1. \/ GoesOn(t) \/ UNCHANGED filterVars \/ Takes(t)
      \/ Request(t, base, end, no, Flushed(t))
    BY FilterEffect
<1>2. CASE GoesOn(t)
    <2>1. PICK y \in Parsing : Kept(t, y, <<>>) \/ Dropped(t, y, <<>>)
        BY <1>2 DEF GoesOn
    <2>2. << >> \in Seq(Update)
        OBVIOUS
    <2>3. kafka_response' \in [Tuple -> {None} \cup Waiting] /\ writes' \in Seq(Update)
        BY <2>1, <2>2, EffectType
    <2> QED
        BY <1>2, <2>3 DEF GoesOn, FilterTypes
<1>3. CASE UNCHANGED filterVars
    BY <1>3 DEF filterVars, FilterTypes
<1>4. CASE Takes(t)
    <2>1. PICK y \in Parsing : Kept(t, y, Flushed(t)) \/ Dropped(t, y, Flushed(t))
        BY <1>4 DEF Takes
    <2>2. Flushed(t) \in Seq(Update)
        BY FlushedType
    <2>3. kafka_response' \in [Tuple -> {None} \cup Waiting] /\ writes' \in Seq(Update)
        BY <2>1, <2>2, EffectType
    <2> QED
        BY <1>4, <2>3 DEF Takes, FilterTypes
<1>5. CASE Request(t, base, end, no, Flushed(t))
    BY <1>5, RequestType
<1> QED
    BY <1>1, <1>2, <1>3, <1>4, <1>5

-----------------------------------------------------------------------------
(* Type correctness.                                                       *)

\* The filter runs on a segment [base, end) that lies in its stream.
LEMMA SegmentTypes ==
    ASSUME TypeInv, NEW t \in Tuple, NEW end \in Stream(t).ends, Segment(t, end)
    PROVE  /\ sent[t] \in Nat /\ end \in Nat /\ end <= Len(Stream(t).bytes)
           /\ sent[t] < end
           /\ Filter(t, sent[t], end, 0)
           /\ sent' = [sent EXCEPT ![t] = end]
<1>1. end \in 0 .. Len(Stream(t).bytes) /\ Len(Stream(t).bytes) \in Nat
    BY StreamType DEF TypeInv, WireTypes
<1>2. sent[t] \in Nat
    BY DEF TypeInv, WireTypes
<1>3. sent[t] < end
    BY <1>1, <1>2 DEF Segment, MaySend
<1> QED
    BY <1>1, <1>2, <1>3 DEF Segment

LEMMA RetransmissionTypes ==
    ASSUME TypeInv, NEW t \in Tuple, NEW base \in Stream(t).ends \cup {0},
           NEW end \in Stream(t).ends, Retransmission(t, base, end)
    PROVE  /\ base \in Nat /\ end \in Nat /\ end <= Len(Stream(t).bytes)
           /\ base < sent[t]
           /\ old \in Nat /\ old' = old + 1
           /\ Filter(t, base, end, old + 1)
<1>1. end \in 0 .. Len(Stream(t).bytes) /\ Len(Stream(t).bytes) \in Nat
    BY StreamType DEF TypeInv, WireTypes
<1>2. base \in 0 .. Len(Stream(t).bytes) \/ base = 0
    BY StreamType DEF TypeInv, WireTypes
<1>3. sent[t] \in Nat /\ old \in Nat
    BY DEF TypeInv, WireTypes
<1>4. base < end /\ end <= sent[t] /\ old' = old + 1 /\ Filter(t, base, end, old + 1)
    BY DEF Retransmission
<1>5. base \in Nat /\ end \in Nat /\ end <= Len(Stream(t).bytes)
    BY <1>1, <1>2
<1>6. base < sent[t]
    BY <1>3, <1>4, <1>5
<1> QED
    BY <1>3, <1>4, <1>5, <1>6

\* sent stays in the streams when what t has sent grows to end.
LEMMA SentType ==
    ASSUME WireTypes, NEW t \in Tuple, NEW end \in Nat, end <= Len(Stream(t).bytes),
           sent' = [sent EXCEPT ![t] = end], UNCHANGED world, old' \in Nat
    PROVE  WireTypes'
<1>1. \A u \in Tuple : Stream(u)' = Stream(u)
    BY DEF Stream
<1>2. sent' \in [Tuple -> Nat]
    BY DEF WireTypes
<1>3. ASSUME NEW u \in Tuple
      PROVE  sent'[u] <= Len(Stream(u).bytes)
    BY DEF WireTypes
<1> QED
    BY <1>1, <1>2, <1>3 DEF WireTypes

LEMMA WireStutters ==
    ASSUME WireTypes, UNCHANGED <<world, sent>>, old' \in Nat
    PROVE  WireTypes'
BY DEF WireTypes, Stream

LEMMA ReaderStutters ==
    ASSUME ReaderTypes, UNCHANGED readerVars
    PROVE  ReaderTypes'
BY DEF ReaderTypes, readerVars

LEMMA FilterStutters ==
    ASSUME FilterTypes, UNCHANGED filterVars
    PROVE  FilterTypes'
BY DEF FilterTypes, filterVars

LEMMA FlipType ==
    ASSUME NEW t \in Tuple
    PROVE  Flip(t) \in Tuple
BY DEF Tuple, Flip

\* A metric is added to the bag of what was reported.
LEMMA ReportedAdd ==
    ASSUME ReaderTypes, NEW e \in Transaction
    PROVE  /\ DOMAIN Reports!BagAdd(reported, e) = DOMAIN reported \cup {e}
           /\ \A x \in DOMAIN reported \ {e} : Reports!BagAdd(reported, e)[x] = reported[x]
           /\ Reports!BagAdd(reported, e)[e] = IF e \in DOMAIN reported THEN reported[e] + 1 ELSE 1
           /\ \A x \in DOMAIN Reports!BagAdd(reported, e) :
                x \in Transaction /\ Reports!BagAdd(reported, e)[x] \in Nat \ {0}
<1>0. \A x \in DOMAIN reported : x \in Transaction /\ reported[x] \in Nat \ {0}
    BY DEF ReaderTypes
<1>1. CASE e \in DOMAIN reported
    <2> DEFINE n == reported[e] + 1
    <2>1. Reports!BagAdd(reported, e) = [reported EXCEPT ![e] = n]
        BY <1>1 DEF Reports!BagAdd
    <2>2. n \in Nat \ {0}
        BY <1>0, <1>1
    <2> HIDE DEF n
    <2>3. DOMAIN [reported EXCEPT ![e] = n] = DOMAIN reported /\ [reported EXCEPT ![e] = n][e] = n
        BY <1>1
    <2>4. \A x \in DOMAIN reported \ {e} : [reported EXCEPT ![e] = n][x] = reported[x]
        OBVIOUS
    <2>5. reported[e] + 1 = n
        BY DEF n
    <2> QED
        BY <1>0, <1>1, <2>1, <2>2, <2>3, <2>4, <2>5
<1>2. CASE e \notin DOMAIN reported
    <2> DEFINE one == 1
    <2>1. Reports!BagAdd(reported, e) = 
            [x \in DOMAIN reported \cup {e} |-> IF x = e THEN one ELSE reported[x]]
        BY <1>2 DEF Reports!BagAdd
    <2>2. one = 1 /\ one \in Nat \ {0}
        OBVIOUS
    <2> HIDE DEF one
    <2> QED
        BY <1>0, <1>2, <2>1, <2>2
<1> QED
    BY <1>1, <1>2

LEMMA UpdateEventType ==
    ASSUME TypeInv, UpdateEvent
    PROVE  TypeInv'
<1>1. writes \in Seq(Update) /\ writes # <<>>
    BY DEF TypeInv, FilterTypes, UpdateEvent
<1>2. Head(writes) \in Update /\ Tail(writes) \in Seq(Update)
    BY <1>1
<1>3. Head(writes).key \in Tuple /\ Head(writes).val \in Transaction
    BY <1>2 DEF Update
<1>4. kafka_event' \in [Tuple -> {None} \cup Transaction]
    BY <1>3 DEF TypeInv, ReaderTypes, UpdateEvent
<1>5. ReaderTypes'
    BY <1>4 DEF TypeInv, ReaderTypes, UpdateEvent
<1>6. FilterTypes'
    BY <1>2 DEF TypeInv, FilterTypes, UpdateEvent
<1> QED
    BY <1>5, <1>6, WireStutters DEF TypeInv, UpdateEvent, WireTypes

LEMMA ReaderNextType ==
    ASSUME TypeInv, NEW t \in Tuple, ReaderNext(t)
    PROVE  TypeInv'
<1>1. kafka_event[t] \in Transaction
    BY DEF TypeInv, ReaderTypes, ReaderNext
<1>2. reader' = [at |-> "delete", key |-> t, val |-> kafka_event[t]]
    BY DEF ReaderNext
<1>3. ReaderTypes'
    BY <1>1, <1>2 DEF TypeInv, ReaderTypes, ReaderNext
<1> QED
    BY <1>3, WireStutters, FilterStutters DEF TypeInv, ReaderNext, WireTypes

LEMMA ReaderDeleteType ==
    ASSUME TypeInv, ReaderDelete
    PROVE  TypeInv'
<1>1. kafka_event' \in [Tuple -> {None} \cup Transaction]
    BY DEF TypeInv, ReaderTypes, ReaderDelete, EventAfterDelete
<1>2. reader.key \in Tuple /\ reader.val \in Transaction
    BY DEF TypeInv, ReaderTypes, ReaderDelete
<1>3. /\ reader' \in [at : {"next", "delete", "send"}, key : {None} \cup Tuple,
                     val : {None} \cup Transaction]
      /\ reader'.key = reader.key /\ reader'.val = reader.val
    BY DEF TypeInv, ReaderTypes, ReaderDelete
<1>4. ReaderTypes'
    BY <1>1, <1>2, <1>3 DEF TypeInv, ReaderTypes, ReaderDelete
<1> QED
    BY <1>4, WireStutters, FilterStutters DEF TypeInv, ReaderDelete, WireTypes

LEMMA ReaderSendType ==
    ASSUME TypeInv, ReaderSend
    PROVE  TypeInv'
<1>1. ch \in Seq(Transaction) /\ reader.val \in Transaction /\ Len(ch) < ChCap
    BY DEF TypeInv, ReaderTypes, ReaderSend
<1>2. ch' \in Seq(Transaction) /\ Len(ch') = Len(ch) + 1
    BY <1>1 DEF ReaderSend
<1>3. Len(ch') <= ChCap
    BY <1>1, <1>2, KafkaProbeAssumption
<1>4. reader' = [at |-> "next", key |-> None, val |-> None]
    BY DEF ReaderSend
<1>5. ReaderTypes'
    BY <1>2, <1>3, <1>4 DEF TypeInv, ReaderTypes, ReaderSend
<1> QED
    BY <1>5, WireStutters, FilterStutters DEF TypeInv, ReaderSend, WireTypes

LEMMA SendMetricType ==
    ASSUME TypeInv, NEW external \in BOOLEAN, SendMetric(external)
    PROVE  TypeInv'
<1> DEFINE zero == 0
           e == [Head(ch) EXCEPT !.records = zero]
<1>1. ch \in Seq(Transaction) /\ ch # <<>> /\ Len(ch) <= ChCap
    BY DEF TypeInv, ReaderTypes, SendMetric
<1>2. Head(ch) \in Transaction /\ Tail(ch) \in Seq(Transaction) /\ Len(Tail(ch)) = Len(ch) - 1
    BY <1>1
<1>3. Len(Tail(ch)) <= ChCap
    BY <1>1, <1>2, KafkaProbeAssumption
<1>4. zero \in Nat
    OBVIOUS
<1>5. reported' = reported \/ reported' = Reports!BagAdd(reported, e)
    BY DEF SendMetric
<1> HIDE DEF zero
<1>6. e \in Transaction
    BY <1>2, <1>4 DEF Transaction
<1> HIDE DEF e
<1>8. \A tx \in DOMAIN reported' : tx \in Transaction /\ reported'[tx] \in Nat \ {0}
    <2>1. \A tx \in DOMAIN Reports!BagAdd(reported, e) :
            tx \in Transaction /\ Reports!BagAdd(reported, e)[tx] \in Nat \ {0}
        BY <1>6, ReportedAdd DEF TypeInv
    <2>2. \A tx \in DOMAIN reported : tx \in Transaction /\ reported[tx] \in Nat \ {0}
        BY DEF TypeInv, ReaderTypes
    <2> QED
        BY <1>5, <2>1, <2>2, Zenon
<1>9. ReaderTypes'
    BY <1>2, <1>3, <1>8 DEF TypeInv, ReaderTypes, SendMetric
<1> QED
    BY <1>9, WireStutters, FilterStutters DEF TypeInv, SendMetric, WireTypes

LEMMA TerminationType ==
    ASSUME TypeInv, NEW t \in Tuple, Termination(t)
    PROVE  TypeInv'
<1> DEFINE n == Len(Stream(t).bytes)
<1>1. n \in Nat /\ n <= Len(Stream(t).bytes)
    BY StreamType DEF TypeInv, WireTypes
<1>2. sent' = [sent EXCEPT ![t] = n]
    BY DEF Termination
<1> HIDE DEF n
<1>3. WireTypes'
    BY <1>1, <1>2, SentType DEF TypeInv, Termination, WireTypes
<1>4. FilterTypes'
    BY FlipType DEF TypeInv, FilterTypes, Termination
<1> QED
    BY <1>3, <1>4, ReaderStutters DEF TypeInv, Termination

LEMMA TypeStep ==
    ASSUME TypeInv, [Next]_vars
    PROVE  TypeInv'
<1>1. ASSUME NEW t \in Tuple, NEW end \in Stream(t).ends, Segment(t, end)
      PROVE  TypeInv'
    <2>1. FilterTypes'
        BY <1>1, SegmentTypes, FilterType DEF TypeInv
    <2>2. WireTypes'
        BY <1>1, SegmentTypes, SentType DEF TypeInv, Segment, WireTypes
    <2> QED
        BY <1>1, <2>1, <2>2, ReaderStutters DEF TypeInv, Segment
<1>2. ASSUME NEW t \in Tuple, NEW end \in Stream(t).ends, LostSegment(t, end)
      PROVE  TypeInv'
    <2>1. end \in 0 .. Len(Stream(t).bytes) /\ Len(Stream(t).bytes) \in Nat
        BY StreamType DEF TypeInv, WireTypes
    <2>2. end \in Nat /\ end <= Len(Stream(t).bytes)
        BY <2>1
    <2>3. WireTypes'
        BY <1>2, <2>2, SentType DEF TypeInv, LostSegment, WireTypes
    <2> QED
        BY <1>2, <2>3, ReaderStutters, FilterStutters DEF TypeInv, LostSegment
<1>3. ASSUME NEW t \in Tuple, NEW base \in Stream(t).ends \cup {0},
             NEW end \in Stream(t).ends, Retransmission(t, base, end)
      PROVE  TypeInv'
    <2>1. old + 1 \in Nat /\ old' = old + 1
        BY <1>3, RetransmissionTypes
    <2>2. FilterTypes'
        BY <1>3, <2>1, RetransmissionTypes, FilterType DEF TypeInv
    <2>3. WireTypes'
        BY <1>3, <2>1, WireStutters DEF TypeInv, Retransmission
    <2> QED
        BY <1>3, <2>2, <2>3, ReaderStutters DEF TypeInv, Retransmission
<1>4. CASE UNCHANGED vars
    BY <1>4, WireStutters, FilterStutters, ReaderStutters
       DEF vars, TypeInv, filterVars, readerVars, WireTypes
<1> QED
    BY <1>1, <1>2, <1>3, <1>4, TerminationType, UpdateEventType, ReaderNextType,
       ReaderDeleteType, ReaderSendType, SendMetricType DEF Next, Reader

LEMMA TypeInit ==
    ASSUME Init
    PROVE  TypeInv
<1>1. WireTypes
    <2>1. \A t \in Tuple : Len(Stream(t).bytes) \in Nat
        BY StreamType DEF Init
    <2> QED
        BY <2>1 DEF Init, WireTypes
<1>2. FilterTypes
    BY DEF Init, FilterTypes
<1>3. ReaderTypes
    BY KafkaProbeAssumption DEF Init, ReaderTypes
<1> QED
    BY <1>1, <1>2, <1>3 DEF TypeInv

LEMMA TypeInvTypes ==
    ASSUME TypeInv
    PROVE  TypeOK
<1>1. Fetch \subseteq Transaction /\ Waiting \subseteq Context
    BY DEF Fetch, Waiting
<1>2. \A t \in Tuple : kafka_response[t] = None \/ kafka_response[t] \in Context
    BY <1>1 DEF TypeInv, FilterTypes
<1>3. kafka_in_flight \in {None} \cup Transaction
    BY <1>1 DEF TypeInv, FilterTypes
<1> QED
    BY <1>2, <1>3 DEF TypeInv, WireTypes, ReaderTypes, TypeOK

\* The maps of the kafka filter hold only transactions with a version the request
\* checks let through, and contexts the response parser (main.c of the kafka
\* plugin) can go on with: whatever bytes the peers send and however they are cut
\* into segments, lost or sent again, no context is left with a negative carry
\* over offset or more than three bytes of remainder, and p.ch keeps its capacity.
THEOREM KafkaTypes == Spec => []TypeOK
<1>1. Init => TypeInv
    BY TypeInit
<1>2. TypeInv /\ [Next]_vars => TypeInv'
    BY TypeStep
<1>3. TypeInv => TypeOK
    BY TypeInvTypes
<1> QED
    BY <1>1, <1>2, <1>3, PTL DEF Spec

-----------------------------------------------------------------------------
(* How often a transaction can still be reported.                          *)

\* Where a sequence holds members of T.
Positions(s, T) == {i \in DOMAIN s : s[i] \in T}
Count(s, T) == Cardinality(Positions(s, T))

LEMMA CountType ==
    ASSUME NEW S, NEW s \in Seq(S), NEW T
    PROVE  IsFiniteSet(Positions(s, T)) /\ Count(s, T) \in Nat
<1>1. Len(s) \in Nat /\ DOMAIN s = 1 .. Len(s)
    OBVIOUS
<1>2. IsFiniteSet(1 .. Len(s))
    <2>1. 1 \in Int /\ Len(s) \in Int
        BY <1>1
    <2> QED
        BY <2>1, FS_Interval
<1>3. Positions(s, T) \in SUBSET (1 .. Len(s))
    BY <1>1 DEF Positions
<1>4. IsFiniteSet(Positions(s, T))
    BY <1>2, <1>3, FS_Subset
<1> QED
    BY <1>4, FS_CardinalityType DEF Count

LEMMA CountEmpty ==
    ASSUME NEW T
    PROVE  Count(<< >>, T) = 0
<1>1. Positions(<< >>, T) = {}
    BY DEF Positions
<1> QED
    BY <1>1, FS_EmptySet DEF Count

LEMMA CountAppend ==
    ASSUME NEW S, NEW s \in Seq(S), NEW e \in S, NEW T
    PROVE  Count(Append(s, e), T) = Count(s, T) + IF e \in T THEN 1 ELSE 0
<1> DEFINE n == Len(s) + 1
<1>1. /\ n \in Nat /\ DOMAIN Append(s, e) = DOMAIN s \cup {n} /\ n \notin DOMAIN s
      /\ Append(s, e)[n] = e
    OBVIOUS
<1>2. \A i \in DOMAIN s : Append(s, e)[i] = s[i]
    OBVIOUS
<1> HIDE DEF n
<1>3. n \notin Positions(s, T)
    BY <1>1 DEF Positions
<1>4. Positions(Append(s, e), T) = Positions(s, T) \cup (IF e \in T THEN {n} ELSE {})
    BY <1>1, <1>2 DEF Positions
<1>5. IsFiniteSet(Positions(s, T)) /\ Count(s, T) \in Nat
    BY CountType
<1>6. CASE e \in T
    <2>1. Positions(Append(s, e), T) = Positions(s, T) \cup {n}
        BY <1>4, <1>6
    <2>2. Cardinality(Positions(s, T) \cup {n}) = Cardinality(Positions(s, T)) + 1
        BY <1>3, <1>5, FS_AddElement
    <2> QED
        BY <1>6, <2>1, <2>2 DEF Count
<1>7. CASE e \notin T
    <2>1. Positions(Append(s, e), T) = Positions(s, T)
        BY <1>4, <1>7
    <2>2. Count(Append(s, e), T) = Count(s, T)
        BY <2>1 DEF Count
    <2> QED
        BY <1>5, <1>7, <2>2
<1> QED
    BY <1>6, <1>7

LEMMA CountTail ==
    ASSUME NEW S, NEW s \in Seq(S), s # << >>, NEW T
    PROVE  Count(s, T) = Count(Tail(s), T) + IF Head(s) \in T THEN 1 ELSE 0
<1>1. /\ Len(s) \in Nat /\ Tail(s) \in Seq(S) /\ Head(s) = s[1]
      /\ DOMAIN s = 1 .. Len(s) /\ DOMAIN Tail(s) = 1 .. (Len(s) - 1) /\ Len(s) >= 1
    OBVIOUS
<1>2. \A i \in 1 .. (Len(s) - 1) : Tail(s)[i] = s[i + 1]
    OBVIOUS
<1> DEFINE A == Positions(Tail(s), T)
           B == Positions(s, T) \ {1}
           f == [i \in A |-> i + 1]
<1>3. /\ A = {i \in 1 .. (Len(s) - 1) : s[i + 1] \in T}
      /\ B = {i \in 2 .. Len(s) : s[i] \in T}
    BY <1>1, <1>2 DEF Positions
<1>4. ASSUME NEW j \in B
      PROVE  j - 1 \in A /\ j = (j - 1) + 1
    <2> DEFINE k == j - 1
    <2>1. j \in 2 .. Len(s) /\ s[j] \in T
        BY <1>3
    <2>2. k \in 1 .. (Len(s) - 1) /\ k + 1 = j
        BY <1>1, <2>1
    <2> HIDE DEF k
    <2>3. k \in A
        BY <1>3, <2>1, <2>2
    <2> QED
        BY <2>2, <2>3 DEF k
<1>5. \A i \in A : i \in Int /\ i + 1 \in B
    BY <1>1, <1>3
<1>6. IsFiniteSet(A) /\ IsFiniteSet(Positions(s, T)) /\ Count(s, T) \in Nat
    BY <1>1, CountType
<1> HIDE DEF A, B
<1>7. f \in [A -> B] /\ \A i, j \in A : f[i] = f[j] => i = j
    BY <1>5
<1>8. \A j \in B : \E i \in A : f[i] = j
    BY <1>4
<1>9. f \in Bijection(A, B)
    BY <1>7, <1>8 DEF Bijection, Injection, Surjection, IsInjective
<1>10. Cardinality(A) = Cardinality(B)
    BY <1>6, <1>9, FS_Bijection DEF ExistsBijection
<1>11. Cardinality(B) = IF 1 \in Positions(s, T) THEN Cardinality(Positions(s, T)) - 1
                                                  ELSE Cardinality(Positions(s, T))
    BY <1>6, FS_RemoveElement DEF B
<1>12. 1 \in Positions(s, T) <=> Head(s) \in T
    BY <1>1 DEF Positions
<1> QED
    BY <1>6, <1>10, <1>11, <1>12 DEF A, Count

\* Two sets that differ in t at most.
LEMMA CountDiffer ==
    ASSUME NEW A, NEW B, NEW t, IsFiniteSet(A), A \ {t} = B \ {t}
    PROVE  /\ IsFiniteSet(B) /\ Cardinality(A) \in Nat /\ Cardinality(B) \in Nat
           /\ Cardinality(B) + (IF t \in A THEN 1 ELSE 0)
                = Cardinality(A) + (IF t \in B THEN 1 ELSE 0)
<1> DEFINE C == A \ {t}
<1>1. IsFiniteSet(C) /\ t \notin C
    BY FS_RemoveElement
<1>2. A = C \/ A = C \cup {t}
    OBVIOUS
<1>3. B = C \/ B = C \cup {t}
    OBVIOUS
<1> HIDE DEF C
<1>4. Cardinality(C) \in Nat
    BY <1>1, FS_CardinalityType
<1>5. IsFiniteSet(C \cup {t}) /\ Cardinality(C \cup {t}) = Cardinality(C) + 1
    BY <1>1, FS_AddElement
<1> QED
    BY <1>1, <1>2, <1>3, <1>4, <1>5

\* A transaction without what its response adds to it, the records: its name.
Name(tx) == [tx EXCEPT !.records = 0]
Names == {tx \in Transaction : tx.records = 0}
Named(id) == {tx \in Transaction : Name(tx) = id}
UpdatesOf(id) == {w \in Update : Name(w.val) = id}

\* Where the transaction id is: in the slot and in contexts, from where two
\* updates may come; in updates to make; in kafka_event, but for the key the
\* reader is about to delete; with the reader; in p.ch; and reported.
Slot(id) == IF kafka_in_flight # None /\ kafka_in_flight = id THEN 1 ELSE 0
Contexts(id) == {t \in Tuple : kafka_response[t] # None /\ kafka_response[t].tx = id}
Stored(id) == {t \in Tuple : /\ kafka_event[t] # None /\ Name(kafka_event[t]) = id
                             /\ ~(reader.at = "delete" /\ reader.key = t)}
Held(id) == IF reader.at # "next" /\ Name(reader.val) = id THEN 1 ELSE 0
Reported(id) == IF id \in DOMAIN reported THEN reported[id] ELSE 0

InFilter(id) == Count(writes, UpdatesOf(id)) + 2 * Slot(id) + 2 * Cardinality(Contexts(id))
InReader(id) == Cardinality(Stored(id)) + Held(id) + Count(ch, Named(id)) + Reported(id)

\* No segment has made transaction id yet.
Fresh(id) == IF id.no = 0 THEN id.base >= sent[id.from] ELSE id.no > old

Allowed(id) == IF id.api = 0 THEN 1 ELSE 2

\* What is left of a transaction and what was reported of it are within its bound.
Bounded(id) ==
    /\ IsFiniteSet(Contexts(id)) /\ IsFiniteSet(Stored(id))
    /\ InFilter(id) + InReader(id) <= IF Fresh(id) THEN 0 ELSE Allowed(id)

ReportInv ==
    /\ DOMAIN reported \subseteq Names
    /\ \A id \in Names : Bounded(id)

LEMMA NameType ==
    ASSUME NEW tx \in Transaction
    PROVE  /\ Name(tx) \in Names /\ Name(tx).from = tx.from /\ Name(tx).base = tx.base
           /\ Name(tx).no = tx.no /\ Name(tx).api = tx.api
           /\ tx.records = 0 => Name(tx) = tx
<1> DEFINE zero == 0
<1>1. zero \in Nat /\ zero = 0
    OBVIOUS
<1>2. Name(tx) = [tx EXCEPT !.records = zero]
    BY DEF Name
<1> HIDE DEF zero
<1>3. /\ Name(tx) \in Transaction /\ Name(tx).records = zero
      /\ Name(tx).from = tx.from /\ Name(tx).base = tx.base
      /\ Name(tx).no = tx.no /\ Name(tx).api = tx.api
    BY <1>1, <1>2 DEF Transaction
<1>4. tx.records = zero => Name(tx) = tx
    BY <1>2 DEF Transaction
<1> QED
    BY <1>1, <1>3, <1>4 DEF Names

\* A transaction's records do not change its name.
LEMMA NameKept ==
    ASSUME NEW tx \in Fetch, NEW n \in Nat
    PROVE  Name([tx EXCEPT !.records = n]) = tx
<1> DEFINE zero == 0
           y == [tx EXCEPT !.records = n]
<1>1. zero \in Nat /\ tx \in Transaction /\ tx.records = zero
    BY DEF Fetch
<1>2. Name(y) = [y EXCEPT !.records = zero]
    BY DEF Name
<1> HIDE DEF zero
<1>3. [y EXCEPT !.records = zero] = [tx EXCEPT !.records = zero]
    BY <1>1 DEF Transaction
<1>4. [tx EXCEPT !.records = zero] = tx
    BY <1>1 DEF Transaction
<1> QED
    BY <1>2, <1>3, <1>4

LEMMA EventName ==
    ASSUME NEW t \in Tuple, NEW x \in Parsing, NEW id
    PROVE  Event(t, x) \in UpdatesOf(id) <=> x.tx = id
<1>1. Event(t, x) \in Update
    BY EventType
<1>2. Event(t, x).val = [x.tx EXCEPT !.records = x.c.records]
    BY DEF Event
<1>3. x.tx \in Fetch /\ x.c \in Running
    BY DEF Parsing
<1>4. x.c.records \in Nat
    BY <1>3 DEF Running
<1>5. Name(Event(t, x).val) = x.tx
    BY <1>2, <1>3, <1>4, NameKept
<1> QED
    BY <1>1, <1>5 DEF UpdatesOf

\* A parser that ends makes up to two updates of its transaction.
LEMMA CountEvents ==
    ASSUME NEW t \in Tuple, NEW y \in Parsing, NEW before \in Seq(Update), NEW id,
           Dropped(t, y, before)
    PROVE  /\ Count(writes', UpdatesOf(id)) \in Nat
           /\ Count(writes', UpdatesOf(id))
                <= Count(before, UpdatesOf(id)) + IF y.tx = id THEN 2 ELSE 0
<1> DEFINE e == Event(t, y)
           T == UpdatesOf(id)
           k == IF e \in T THEN 1 ELSE 0
           one == Append(before, e)
<1>1. e \in Update /\ (e \in T <=> y.tx = id)
    BY EventType, EventName
<1>2. writes' = before \/ writes' = before \o <<e>> \/ writes' = before \o <<e, e>>
    BY DEF Dropped
<1> HIDE DEF e, T
<1>3. before \o <<e>> = one /\ before \o <<e, e>> = Append(one, e)
    BY <1>1
<1>4. one \in Seq(Update)
    BY <1>1
<1>5. Count(before, T) \in Nat
    BY CountType
<1>6. Count(one, T) = Count(before, T) + k
    BY <1>1, CountAppend
<1> HIDE DEF one
<1>7. Count(Append(one, e), T) = Count(one, T) + k
    BY <1>1, <1>4, CountAppend
<1>8. k = IF y.tx = id THEN 1 ELSE 0
    BY <1>1
<1>9. Count(writes', T) \in {Count(before, T), Count(before, T) + k, Count(before, T) + k + k}
    BY <1>2, <1>3, <1>6, <1>7
<1> HIDE DEF k
<1> QED
    BY <1>5, <1>8, <1>9 DEF T

\* The context of t becomes v, and no other changes.
LEMMA ContextsChange ==
    ASSUME FilterTypes, NEW t \in Tuple, NEW v,
           kafka_response' = [kafka_response EXCEPT ![t] = v],
           NEW id, IsFiniteSet(Contexts(id))
    PROVE  /\ IsFiniteSet(Contexts(id)')
           /\ Cardinality(Contexts(id)) \in Nat /\ Cardinality(Contexts(id)') \in Nat
           /\ Cardinality(Contexts(id)') + (IF t \in Contexts(id) THEN 1 ELSE 0)
                = Cardinality(Contexts(id)) + (IF v # None /\ v.tx = id THEN 1 ELSE 0)
<1> DEFINE A == Contexts(id)
           B == Contexts(id)'
<1>1. t \in B <=> v # None /\ v.tx = id
    BY DEF Contexts, FilterTypes
<1>2. A \ {t} = B \ {t}
    BY DEF Contexts, FilterTypes
<1>3. IsFiniteSet(A)
    OBVIOUS
<1> HIDE DEF A, B
<1>4. /\ IsFiniteSet(B) /\ Cardinality(A) \in Nat /\ Cardinality(B) \in Nat
      /\ Cardinality(B) + (IF t \in A THEN 1 ELSE 0)
           = Cardinality(A) + (IF t \in B THEN 1 ELSE 0)
    BY <1>2, <1>3, CountDiffer
<1> QED
    BY <1>1, <1>4 DEF A, B

LEMMA ContextsDrop ==
    ASSUME FilterTypes, NEW t \in Tuple,
           kafka_response' = [kafka_response EXCEPT ![t] = None],
           NEW id, IsFiniteSet(Contexts(id))
    PROVE  /\ IsFiniteSet(Contexts(id)')
           /\ Cardinality(Contexts(id)) \in Nat /\ Cardinality(Contexts(id)') \in Nat
           /\ Cardinality(Contexts(id)') + (IF t \in Contexts(id) THEN 1 ELSE 0)
                = Cardinality(Contexts(id))
<1> DEFINE c == Cardinality(Contexts(id))
           d == Cardinality(Contexts(id)')
           was == IF t \in Contexts(id) THEN 1 ELSE 0
           more == IF None # None /\ None.tx = id THEN 1 ELSE 0
<1>1. IsFiniteSet(Contexts(id)') /\ c \in Nat /\ d \in Nat /\ d + was = c + more
    BY ContextsChange
<1>2. more = 0
    OBVIOUS
<1> HIDE DEF c, d, was, more
<1>3. d + was = c
    BY <1>1, <1>2
<1> QED
    BY <1>1, <1>3 DEF c, d, was

LEMMA CountFlushed ==
    ASSUME FilterTypes, NEW t \in Tuple, NEW id
    PROVE  /\ Count(Flushed(t), UpdatesOf(id)) \in Nat
           /\ Count(Flushed(t), UpdatesOf(id)) <= IF t \in Contexts(id) THEN 1 ELSE 0
<1> DEFINE x == kafka_response[t]
           e == Event(t, x)
           T == UpdatesOf(id)
<1>1. Flushed(t) = <<>> \/ (x # None /\ Flushed(t) = <<e>>)
    BY DEF Flushed
<1>2. x # None => x \in Waiting
    BY DEF FilterTypes
<1>3. x # None => (t \in Contexts(id) <=> x.tx = id)
    BY DEF Contexts
<1> HIDE DEF x
<1>4. x # None => e \in Update /\ (e \in T <=> x.tx = id)
    BY <1>2, WaitingParses, EventType, EventName
<1> HIDE DEF e, T
<1>5. Count(<< >>, T) = 0
    BY CountEmpty
<1>6. x # None => Count(<<e>>, T) = IF e \in T THEN 1 ELSE 0
    <2> DEFINE empty == << >>
    <2>1. empty \in Seq(Update) /\ <<e>> = Append(empty, e)
        OBVIOUS
    <2> HIDE DEF empty
    <2>2. ASSUME x # None
          PROVE  Count(Append(empty, e), T) = Count(empty, T) + IF e \in T THEN 1 ELSE 0
        BY <1>4, <2>1, <2>2, CountAppend
    <2> QED
        BY <1>5, <2>1, <2>2 DEF empty
<1>7. CASE Flushed(t) = <<>>
    <2>1. Count(Flushed(t), T) = 0
        BY <1>5, <1>7
    <2> QED
        BY <2>1 DEF T
<1>8. CASE x # None /\ Flushed(t) = <<e>>
    <2>1. Count(Flushed(t), T) = IF x.tx = id THEN 1 ELSE 0
        BY <1>4, <1>6, <1>8
    <2> QED
        BY <1>3, <1>8, <2>1 DEF T
<1> QED
    BY <1>1, <1>7, <1>8

LEMMA SlotType ==
    ASSUME NEW id
    PROVE  Slot(id) \in 0 .. 1 /\ Slot(id)' \in 0 .. 1
BY DEF Slot

\* Going on with a context: it stays, or two updates take its place.
LEMMA GoesOnCount ==
    ASSUME FilterTypes, NEW t \in Tuple, GoesOn(t), writes = <<>>,
           NEW id \in Names, IsFiniteSet(Contexts(id))
    PROVE  /\ IsFiniteSet(Contexts(id)')
           /\ InFilter(id)' <= InFilter(id)
<1>1. PICK x \in Waiting, y \in Parsing :
        /\ x # None /\ kafka_response[t] = x /\ y.tx = x.tx
        /\ Kept(t, y, <<>>) \/ Dropped(t, y, <<>>)
        /\ UNCHANGED kafka_in_flight
    BY DEF GoesOn
<1> DEFINE c == Cardinality(Contexts(id))
           d == Cardinality(Contexts(id)')
           w == Count(writes', UpdatesOf(id))
           one == IF x.tx = id THEN 1 ELSE 0
           was == IF t \in Contexts(id) THEN 1 ELSE 0
<1>2. Slot(id)' = Slot(id) /\ Slot(id) \in 0 .. 1
    BY <1>1, SlotType DEF Slot
<1>3. Count(<< >>, UpdatesOf(id)) = 0 /\ << >> \in Seq(Update)
    BY CountEmpty
<1>4. was = one
    BY <1>1 DEF Contexts
<1>5. ASSUME Kept(t, y, <<>>)
      PROVE  /\ IsFiniteSet(Contexts(id)') /\ c \in Nat /\ d \in Nat /\ w \in Nat
             /\ w + 2 * d <= 2 * c
    <2> DEFINE more == IF y # None /\ y.tx = id THEN 1 ELSE 0
    <2>1. kafka_response' = [kafka_response EXCEPT ![t] = y]
        BY <1>5 DEF Kept
    <2>2. IsFiniteSet(Contexts(id)') /\ c \in Nat /\ d \in Nat /\ d + was = c + more
        BY <2>1, ContextsChange
    <2>3. more <= one /\ more \in 0 .. 1 /\ one \in 0 .. 1
        BY <1>1
    <2>4. w = 0
        BY <1>3, <1>5 DEF Kept
    <2> HIDE DEF c, d, w, one, was, more
    <2>5. w \in Nat /\ w + 2 * d <= 2 * c
        BY <1>4, <2>2, <2>3, <2>4
    <2> QED
        BY <2>2, <2>5
<1>6. ASSUME Dropped(t, y, <<>>)
      PROVE  /\ IsFiniteSet(Contexts(id)') /\ c \in Nat /\ d \in Nat /\ w \in Nat
             /\ w + 2 * d <= 2 * c
    <2>1. kafka_response' = [kafka_response EXCEPT ![t] = None]
        BY <1>6 DEF Dropped
    <2>2. IsFiniteSet(Contexts(id)') /\ c \in Nat /\ d \in Nat /\ d + was = c
        BY <2>1, ContextsDrop
    <2>3. w \in Nat /\ w <= 0 + IF y.tx = id THEN 2 ELSE 0
        BY <1>3, <1>6, CountEvents
    <2>4. one \in 0 .. 1 /\ w <= 2 * one
        BY <1>1, <2>3
    <2> HIDE DEF c, d, w, one, was
    <2>5. w + 2 * d <= 2 * c
        BY <1>4, <2>2, <2>3, <2>4
    <2> QED
        BY <2>2, <2>3, <2>5
<1>7. IsFiniteSet(Contexts(id)') /\ c \in Nat /\ d \in Nat /\ w \in Nat /\ w + 2 * d <= 2 * c
    BY <1>1, <1>5, <1>6
<1>8. /\ InFilter(id)' = w + 2 * Slot(id) + 2 * d
      /\ InFilter(id) = 0 + 2 * Slot(id) + 2 * c
    BY <1>2, <1>3 DEF InFilter
<1> HIDE DEF c, d, w
<1> QED
    BY <1>2, <1>7, <1>8

\* A response that takes the slot: the slot's transaction gets a context, or two
\* updates; the context that was there is flushed, once at most.
LEMMA TakesCount ==
    ASSUME FilterTypes, NEW t \in Tuple, Takes(t), writes = <<>>,
           NEW id \in Names, IsFiniteSet(Contexts(id))
    PROVE  /\ IsFiniteSet(Contexts(id)')
           /\ InFilter(id)' <= InFilter(id)
<1>1. PICK y \in Parsing :
        /\ kafka_in_flight # None /\ kafka_in_flight = y.tx
        /\ kafka_in_flight' = None
        /\ Kept(t, y, Flushed(t)) \/ Dropped(t, y, Flushed(t))
    BY DEF Takes
<1> DEFINE c == Cardinality(Contexts(id))
           d == Cardinality(Contexts(id)')
           w == Count(writes', UpdatesOf(id))
           was == IF t \in Contexts(id) THEN 1 ELSE 0
           one == IF y.tx = id THEN 1 ELSE 0
           f == Count(Flushed(t), UpdatesOf(id))
<1>2. Slot(id)' = 0 /\ Slot(id) = one /\ one \in 0 .. 1 /\ was \in 0 .. 1
    BY <1>1 DEF Slot
<1>3. Count(<< >>, UpdatesOf(id)) = 0
    BY CountEmpty
<1>4. f \in Nat /\ f <= was
    BY CountFlushed
<1>5. ASSUME Kept(t, y, Flushed(t))
      PROVE  /\ IsFiniteSet(Contexts(id)') /\ c \in Nat /\ d \in Nat /\ w \in Nat
             /\ w + 2 * d <= 2 * one + 2 * c
    <2> DEFINE more == IF y # None /\ y.tx = id THEN 1 ELSE 0
    <2>1. kafka_response' = [kafka_response EXCEPT ![t] = y] /\ w = f
        BY <1>5 DEF Kept
    <2>2. IsFiniteSet(Contexts(id)') /\ c \in Nat /\ d \in Nat /\ d + was = c + more
        BY <2>1, ContextsChange
    <2>3. more <= one /\ more \in 0 .. 1
        OBVIOUS
    <2>4. w = f
        BY <2>1
    <2> HIDE DEF c, d, w, f, one, was, more
    <2>5. w \in Nat /\ w + 2 * d <= 2 * one + 2 * c
        BY <1>2, <1>4, <2>2, <2>3, <2>4
    <2> QED
        BY <2>2, <2>5
<1>6. ASSUME Dropped(t, y, Flushed(t))
      PROVE  /\ IsFiniteSet(Contexts(id)') /\ c \in Nat /\ d \in Nat /\ w \in Nat
             /\ w + 2 * d <= 2 * one + 2 * c
    <2>1. kafka_response' = [kafka_response EXCEPT ![t] = None]
        BY <1>6 DEF Dropped
    <2>2. IsFiniteSet(Contexts(id)') /\ c \in Nat /\ d \in Nat /\ d + was = c
        BY <2>1, ContextsDrop
    <2>3. w \in Nat /\ w <= f + IF y.tx = id THEN 2 ELSE 0
        BY <1>6, FlushedType, CountEvents
    <2>4. w <= f + 2 * one
        BY <2>3
    <2> HIDE DEF c, d, w, f, one, was
    <2>5. w + 2 * d <= 2 * one + 2 * c
        BY <1>2, <1>4, <2>2, <2>3, <2>4
    <2> QED
        BY <2>2, <2>3, <2>5
<1>7. /\ IsFiniteSet(Contexts(id)') /\ c \in Nat /\ d \in Nat /\ w \in Nat
      /\ w + 2 * d <= 2 * one + 2 * c
    BY <1>1, <1>5, <1>6
<1>8. /\ InFilter(id)' = w + 2 * 0 + 2 * d
      /\ InFilter(id) = 0 + 2 * one + 2 * c
    BY <1>2, <1>3 DEF InFilter
<1> HIDE DEF c, d, w, one
<1> QED
    BY <1>2, <1>7, <1>8

\* A request adds one transaction: an update, or the slot.
LEMMA RequestCount ==
    ASSUME WireTypes, FilterTypes, NEW t \in Tuple, NEW base \in Nat, NEW end \in Nat,
           end <= Len(Stream(t).bytes), NEW no \in Nat,
           Request(t, base, end, no, Flushed(t)), writes = <<>>,
           NEW id \in Names, IsFiniteSet(Contexts(id))
    PROVE  /\ IsFiniteSet(Contexts(id)')
           /\ \/ InFilter(id)' <= InFilter(id)
              \/ /\ id.from = t /\ id.base = base /\ id.no = no
                 /\ InFilter(id)' <= InFilter(id) + Allowed(id)
<1> DEFINE tx == ParseRequest(t, base, end, no)
           e == [key |-> t, val |-> tx, begin |-> base, upto |-> end]
           c == Cardinality(Contexts(id))
           d == Cardinality(Contexts(id)')
           w == Count(writes', UpdatesOf(id))
           was == IF t \in Contexts(id) THEN 1 ELSE 0
           f == Count(Flushed(t), UpdatesOf(id))
<1>1. tx # None => /\ tx \in Transaction /\ (tx.api = 1 => tx \in Fetch)
                   /\ tx.from = t /\ tx.base = base /\ tx.no = no
    BY ParseRequestType
<1>2. /\ kafka_response' = [kafka_response EXCEPT ![t] = None]
      /\ kafka_in_flight' = IF tx # None /\ tx.api = 1 /\ kafka_in_flight = None
                            THEN tx ELSE kafka_in_flight
      /\ writes' = IF tx # None /\ tx.api = 0 THEN Append(Flushed(t), e) ELSE Flushed(t)
    BY DEF Request
<1> HIDE DEF tx
<1>3. Count(<< >>, UpdatesOf(id)) = 0
    BY CountEmpty
<1>4. f \in Nat /\ f <= was /\ was \in 0 .. 1
    BY CountFlushed
<1>5. IsFiniteSet(Contexts(id)') /\ c \in Nat /\ d \in Nat /\ d + was = c
    BY <1>2, ContextsDrop
<1>6. Slot(id) \in 0 .. 1 /\ Slot(id)' \in 0 .. 1
    BY SlotType
<1>7. /\ InFilter(id)' = w + 2 * Slot(id)' + 2 * d
      /\ InFilter(id) = 0 + 2 * Slot(id) + 2 * c
    BY <1>3 DEF InFilter
<1>8. CASE tx = None \/ (tx.api = 1 /\ kafka_in_flight # None)
    <2>1. Slot(id)' = Slot(id)
        BY <1>2, <1>8 DEF Slot
    <2>2. writes' = Flushed(t)
        BY <1>2, <1>8
    <2>3. w = f
        BY <2>2
    <2> HIDE DEF c, d, w, f, was
    <2> QED
        BY <1>4, <1>5, <1>6, <1>7, <2>1, <2>3
<1>9. CASE tx # None /\ tx.api = 1 /\ kafka_in_flight = None
    <2>1. kafka_in_flight' = tx /\ writes' = Flushed(t)
        BY <1>2, <1>9
    <2>2. w = f
        BY <2>1
    <2>3. CASE tx = id
        <3>1. Allowed(id) = 2
            BY <1>9, <2>3 DEF Allowed
        <3> HIDE DEF c, d, w, f, was
        <3>2. InFilter(id)' <= InFilter(id) + Allowed(id)
            BY <1>4, <1>5, <1>6, <1>7, <2>2, <3>1
        <3> QED
            BY <1>1, <1>5, <1>9, <2>3, <3>2
    <2>4. CASE tx # id
        <3>1. Slot(id)' = 0
            BY <2>1, <2>4 DEF Slot
        <3> HIDE DEF c, d, w, f, was
        <3> QED
            BY <1>4, <1>5, <1>6, <1>7, <2>2, <3>1
    <2> QED
        BY <2>3, <2>4
<1>10. CASE tx # None /\ tx.api = 0
    <2>1. kafka_in_flight' = kafka_in_flight /\ writes' = Append(Flushed(t), e)
        BY <1>2, <1>10
    <2>2. Slot(id)' = Slot(id)
        BY <2>1 DEF Slot
    <2>3. e \in Update /\ e.val = tx
        BY <1>1, <1>10 DEF Update
    <2> HIDE DEF e
    <2>4. w = f + IF e \in UpdatesOf(id) THEN 1 ELSE 0
        BY <2>1, <2>3, FlushedType, CountAppend
    <2>5. CASE Name(tx) = id
        <3>1. Allowed(id) = 1 /\ id.from = t /\ id.base = base /\ id.no = no
            BY <1>1, <1>10, <2>5, NameType DEF Allowed
        <3>2. w <= f + 1 /\ w \in Nat
            BY <1>4, <2>4
        <3> HIDE DEF c, d, w, f, was
        <3>3. InFilter(id)' <= InFilter(id) + Allowed(id)
            BY <1>4, <1>5, <1>6, <1>7, <2>2, <3>1, <3>2
        <3> QED
            BY <1>5, <3>1, <3>3
    <2>6. CASE Name(tx) # id
        <3>1. w = f
            BY <1>4, <2>3, <2>4, <2>6 DEF UpdatesOf
        <3> HIDE DEF c, d, w, f, was
        <3> QED
            BY <1>4, <1>5, <1>6, <1>7, <2>2, <3>1
    <2> QED
        BY <2>5, <2>6
<1> QED
    BY <1>1, <1>8, <1>9, <1>10 DEF Transaction

\* What the filter does with a segment adds to no transaction but the one the
\* segment makes.
LEMMA FilterCount ==
    ASSUME WireTypes, FilterTypes, NEW t \in Tuple, NEW base \in Nat, NEW end \in Nat,
           end <= Len(Stream(t).bytes), NEW no \in Nat, Filter(t, base, end, no),
           NEW id \in Names, IsFiniteSet(Contexts(id))
    PROVE  /\ IsFiniteSet(Contexts(id)')
           /\ \/ InFilter(id)' <= InFilter(id)
              \/ /\ id.from = t /\ id.base = base /\ id.no = no
                 /\ InFilter(id)' <= InFilter(id) + Allowed(id)
<1>1. /\ writes = <<>>
      /\ \/ GoesOn(t) \/ UNCHANGED filterVars \/ Takes(t)
         \/ Request(t, base, end, no, Flushed(t))
    BY FilterEffect
<1>2. CASE UNCHANGED filterVars
    <2>1. Contexts(id)' = Contexts(id) /\ InFilter(id)' = InFilter(id)
        BY <1>2 DEF filterVars, Contexts, InFilter, Slot
    <2>2. InFilter(id) \in Nat
        BY SlotType, FS_CardinalityType, CountType DEF InFilter, FilterTypes
    <2> QED
        BY <2>1, <2>2
<1> QED
    BY <1>1, <1>2, GoesOnCount, TakesCount, RequestCount

LEMMA InFilterType ==
    ASSUME FilterTypes, NEW id, IsFiniteSet(Contexts(id))
    PROVE  InFilter(id) \in Nat
<1>1. Cardinality(Contexts(id)) \in Nat
    BY FS_CardinalityType
<1>2. Count(writes, UpdatesOf(id)) \in Nat
    BY CountType DEF FilterTypes
<1>3. Slot(id) \in 0 .. 1
    BY SlotType
<1> QED
    BY <1>1, <1>2, <1>3 DEF InFilter

LEMMA InReaderType ==
    ASSUME ReaderTypes, NEW id, IsFiniteSet(Stored(id))
    PROVE  /\ InReader(id) \in Nat /\ Cardinality(Stored(id)) \in Nat
           /\ Held(id) \in 0 .. 1 /\ Count(ch, Named(id)) \in Nat /\ Reported(id) \in Nat
<1>1. Cardinality(Stored(id)) \in Nat
    BY FS_CardinalityType
<1>2. Count(ch, Named(id)) \in Nat
    BY CountType DEF ReaderTypes
<1>3. Held(id) \in 0 .. 1
    BY DEF Held
<1>4. Reported(id) \in Nat
    BY DEF Reported, ReaderTypes
<1> QED
    BY <1>1, <1>2, <1>3, <1>4 DEF InReader

LEMMA ReaderSame ==
    ASSUME UNCHANGED readerVars, NEW id
    PROVE  Stored(id)' = Stored(id) /\ InReader(id)' = InReader(id)
<1>1. Stored(id)' = Stored(id)
    BY DEF readerVars, Stored
<1>2. Held(id)' = Held(id) /\ Reported(id)' = Reported(id)
    BY DEF readerVars, Held, Reported
<1>3. ch' = ch
    BY DEF readerVars
<1> QED
    BY <1>1, <1>2, <1>3 DEF InReader

LEMMA FilterSame ==
    ASSUME UNCHANGED filterVars, NEW id
    PROVE  Contexts(id)' = Contexts(id) /\ InFilter(id)' = InFilter(id)
<1>1. Contexts(id)' = Contexts(id)
    BY DEF filterVars, Contexts
<1>2. Slot(id)' = Slot(id) /\ writes' = writes
    BY DEF filterVars, Slot
<1> QED
    BY <1>1, <1>2 DEF InFilter

\* A transaction that has been made stays so: segments are counted up.
LEMMA FreshBefore ==
    ASSUME WireTypes, NEW t \in Tuple, NEW n \in Nat, sent[t] <= n,
           sent' = [sent EXCEPT ![t] = n] \/ sent' = sent,
           old' = old \/ old' = old + 1, NEW id \in Names
    PROVE  Fresh(id)' => Fresh(id)
<1>1. id.from \in Tuple /\ id.base \in Nat /\ id.no \in Nat
    BY DEF Names, Transaction
<1>2. sent[id.from] \in Nat /\ sent[id.from] <= sent'[id.from] /\ sent'[id.from] \in Nat
    BY <1>1 DEF WireTypes
<1>3. old \in Nat /\ old <= old' /\ old' \in Nat
    BY DEF WireTypes
<1> QED
    BY <1>1, <1>2, <1>3 DEF Fresh

LEMMA InFilterNext ==
    ASSUME FilterTypes', NEW id, IsFiniteSet(Contexts(id)')
    PROVE  InFilter(id)' \in Nat
<1>1. Cardinality(Contexts(id)') \in Nat
    BY FS_CardinalityType
<1>2. writes' \in Seq(Update)
    BY DEF FilterTypes
<1>3. Count(writes', UpdatesOf(id)) \in Nat
    BY <1>2, CountType
<1>4. Slot(id)' \in 0 .. 1
    BY SlotType
<1> QED
    BY <1>1, <1>3, <1>4 DEF InFilter

\* A step that does not add to what there is of id keeps its bound, and so does
\* one that makes id.
LEMMA BoundKept ==
    ASSUME TypeInv, TypeInv', NEW id \in Names, Bounded(id),
           IsFiniteSet(Contexts(id)'), IsFiniteSet(Stored(id)'),
           Fresh(id)' => Fresh(id), NEW n \in Nat, n = InReader(id)',
           \/ InFilter(id)' + n <= InFilter(id) + InReader(id)
           \/ /\ Fresh(id) /\ ~Fresh(id)'
              /\ InFilter(id)' + n <= InFilter(id) + InReader(id) + Allowed(id)
    PROVE  Bounded(id)'
<1> DEFINE a == Allowed(id)
           f == InFilter(id)
           r == InReader(id)
           g == InFilter(id)'
<1>1. a \in Nat /\ Allowed(id)' = a
    BY DEF Allowed
<1>2. IsFiniteSet(Contexts(id)) /\ IsFiniteSet(Stored(id))
    BY DEF Bounded
<1>3. f \in Nat /\ r \in Nat /\ g \in Nat
    BY <1>2, InFilterType, InFilterNext, InReaderType DEF TypeInv
<1>4. f + r <= IF Fresh(id) THEN 0 ELSE a
    BY DEF Bounded
<1>5. \/ g + n <= f + r
      \/ Fresh(id) /\ ~Fresh(id)' /\ g + n <= f + r + a
    OBVIOUS
<1> HIDE DEF a, f, r, g
<1>6. g + n <= IF Fresh(id)' THEN 0 ELSE a
    <2>1. CASE Fresh(id)'
        BY <1>1, <1>3, <1>4, <1>5, <2>1
    <2>2. CASE ~Fresh(id)'
        BY <1>1, <1>3, <1>4, <1>5, <2>2
    <2> QED
        BY <2>1, <2>2
<1>7. InFilter(id)' + InReader(id)' <= IF Fresh(id)' THEN 0 ELSE Allowed(id)'
    BY <1>1, <1>6 DEF a, g
<1> QED
    BY <1>7 DEF Bounded

\* The filter runs on a segment that makes transactions with these fields only.
LEMMA FilterBound ==
    ASSUME TypeInv, TypeInv', NEW t \in Tuple, NEW base \in Nat, NEW end \in Nat,
           end <= Len(Stream(t).bytes), NEW no \in Nat, Filter(t, base, end, no),
           UNCHANGED readerVars, NEW id \in Names, Bounded(id), Fresh(id)' => Fresh(id),
           id.from = t /\ id.base = base /\ id.no = no => Fresh(id) /\ ~Fresh(id)'
    PROVE  Bounded(id)'
<1>1. IsFiniteSet(Contexts(id)) /\ IsFiniteSet(Stored(id))
    BY DEF Bounded
<1>2. /\ IsFiniteSet(Contexts(id)')
      /\ \/ InFilter(id)' <= InFilter(id)
         \/ /\ id.from = t /\ id.base = base /\ id.no = no
            /\ InFilter(id)' <= InFilter(id) + Allowed(id)
    BY <1>1, FilterCount DEF TypeInv
<1>3. Stored(id)' = Stored(id) /\ InReader(id)' = InReader(id)
    BY ReaderSame
<1>4. InFilter(id) \in Nat /\ InFilter(id)' \in Nat /\ InReader(id) \in Nat
    BY <1>1, <1>2, InFilterType, InFilterNext, InReaderType DEF TypeInv
<1>5. Allowed(id) \in Nat
    BY DEF Allowed
<1>6. \/ InFilter(id)' + InReader(id) <= InFilter(id) + InReader(id)
      \/ /\ Fresh(id) /\ ~Fresh(id)'
         /\ InFilter(id)' + InReader(id) <= InFilter(id) + InReader(id) + Allowed(id)
    BY <1>2, <1>4, <1>5
<1> QED
    BY <1>1, <1>2, <1>3, <1>4, <1>6, BoundKept

LEMMA SegmentBound ==
    ASSUME TypeInv, TypeInv', NEW t \in Tuple, NEW end \in Stream(t).ends, Segment(t, end),
           NEW id \in Names, Bounded(id)
    PROVE  Bounded(id)'
<1>1. /\ sent[t] \in Nat /\ end \in Nat /\ end <= Len(Stream(t).bytes) /\ sent[t] < end
      /\ Filter(t, sent[t], end, 0) /\ sent' = [sent EXCEPT ![t] = end]
    BY SegmentTypes
<1>2. UNCHANGED readerVars /\ old' = old
    BY DEF Segment
<1>3. Fresh(id)' => Fresh(id)
    <2>1. sent[t] <= end
        BY <1>1
    <2> QED
        BY <1>1, <1>2, <2>1, FreshBefore DEF TypeInv
<1>4. id.from = t /\ id.base = sent[t] /\ id.no = 0 => Fresh(id) /\ ~Fresh(id)'
    <2> SUFFICES ASSUME id.from = t, id.base = sent[t], id.no = 0
                 PROVE  Fresh(id) /\ ~Fresh(id)'
        OBVIOUS
    <2>1. sent'[t] = end
        BY <1>1 DEF TypeInv, WireTypes
    <2> QED
        BY <1>1, <2>1 DEF Fresh
<1> QED
    BY <1>1, <1>2, <1>3, <1>4, FilterBound

LEMMA RetransmissionBound ==
    ASSUME TypeInv, TypeInv', NEW t \in Tuple, NEW base \in Stream(t).ends \cup {0},
           NEW end \in Stream(t).ends, Retransmission(t, base, end),
           NEW id \in Names, Bounded(id)
    PROVE  Bounded(id)'
<1> DEFINE no == old + 1
<1>1. /\ base \in Nat /\ end \in Nat /\ end <= Len(Stream(t).bytes)
      /\ old \in Nat /\ old' = no /\ Filter(t, base, end, no)
    BY RetransmissionTypes
<1>2. UNCHANGED readerVars /\ sent' = sent
    BY DEF Retransmission
<1>3. Fresh(id)' => Fresh(id)
    <2>1. sent[t] \in Nat /\ sent[t] <= sent[t]
        BY DEF TypeInv, WireTypes
    <2> QED
        BY <1>1, <1>2, <2>1, FreshBefore DEF TypeInv
<1>4. id.no = no => Fresh(id) /\ ~Fresh(id)'
    BY <1>1 DEF Fresh
<1>5. no \in Nat
    BY <1>1
<1> HIDE DEF no
<1> QED
    BY <1>1, <1>2, <1>3, <1>4, <1>5, FilterBound

\* A step that changes neither what the filter nor what the reader holds.
LEMMA WireBound ==
    ASSUME TypeInv, TypeInv', NEW id \in Names, Bounded(id), Fresh(id)' => Fresh(id),
           UNCHANGED filterVars, UNCHANGED readerVars
    PROVE  Bounded(id)'
<1>1. Contexts(id)' = Contexts(id) /\ InFilter(id)' = InFilter(id)
    BY FilterSame
<1>2. Stored(id)' = Stored(id) /\ InReader(id)' = InReader(id)
    BY ReaderSame
<1>3. IsFiniteSet(Contexts(id)) /\ IsFiniteSet(Stored(id))
    BY DEF Bounded
<1>4. InFilter(id) \in Nat /\ InReader(id) \in Nat
    BY <1>3, InFilterType, InReaderType DEF TypeInv
<1>5. InFilter(id)' + InReader(id) <= InFilter(id) + InReader(id)
    BY <1>1, <1>4
<1> QED
    BY <1>1, <1>2, <1>3, <1>4, <1>5, BoundKept

LEMMA LostSegmentBound ==
    ASSUME TypeInv, TypeInv', NEW t \in Tuple, NEW end \in Stream(t).ends,
           LostSegment(t, end), NEW id \in Names, Bounded(id)
    PROVE  Bounded(id)'
<1>1. end \in 0 .. Len(Stream(t).bytes) /\ Len(Stream(t).bytes) \in Nat
    BY StreamType DEF TypeInv, WireTypes
<1>2. sent[t] \in Nat /\ end \in Nat
    BY <1>1 DEF TypeInv, WireTypes
<1>3. sent[t] <= end
    BY <1>2 DEF LostSegment, MaySend
<1>4. Fresh(id)' => Fresh(id)
    BY <1>2, <1>3, FreshBefore DEF TypeInv, LostSegment
<1> QED
    BY <1>4, WireBound DEF LostSegment

LEMMA TerminationBound ==
    ASSUME TypeInv, TypeInv', NEW t \in Tuple, Termination(t), NEW id \in Names, Bounded(id)
    PROVE  Bounded(id)'
<1> DEFINE n == Len(Stream(t).bytes)
           c == Cardinality(Contexts(id))
           d == Cardinality(Contexts(id)')
<1>1. n \in Nat
    BY StreamType DEF TypeInv, WireTypes
<1>2. sent[t] <= n /\ sent' = [sent EXCEPT ![t] = n]
    BY DEF TypeInv, WireTypes, Termination
<1> HIDE DEF n
<1>3. Fresh(id)' => Fresh(id)
    BY <1>1, <1>2, FreshBefore DEF TypeInv, Termination
<1>4. Stored(id)' = Stored(id) /\ InReader(id)' = InReader(id)
    BY ReaderSame DEF Termination
<1>5. Contexts(id)' \in SUBSET Contexts(id)
    BY FlipType DEF Contexts, Termination, TypeInv, FilterTypes
<1>6. IsFiniteSet(Contexts(id)) /\ IsFiniteSet(Stored(id))
    BY DEF Bounded
<1>7. IsFiniteSet(Contexts(id)') /\ d <= c
    BY <1>5, <1>6, FS_Subset
<1>8. c \in Nat /\ d \in Nat
    BY <1>6, <1>7, FS_CardinalityType
<1>9. Slot(id)' = Slot(id) /\ writes' = writes /\ Slot(id) \in 0 .. 1
    BY SlotType DEF Termination, Slot
<1>10. /\ InFilter(id) = Count(writes, UpdatesOf(id)) + 2 * Slot(id) + 2 * c
       /\ InFilter(id)' = Count(writes, UpdatesOf(id)) + 2 * Slot(id) + 2 * d
    BY <1>9 DEF InFilter
<1>11. Count(writes, UpdatesOf(id)) \in Nat /\ InReader(id) \in Nat
    BY <1>6, CountType, InReaderType DEF TypeInv, FilterTypes
<1> HIDE DEF c, d
<1>12. InFilter(id)' + InReader(id) <= InFilter(id) + InReader(id)
    BY <1>7, <1>8, <1>9, <1>10, <1>11
<1> QED
    BY <1>3, <1>4, <1>6, <1>7, <1>11, <1>12, BoundKept

LEMMA FreshSame ==
    ASSUME UNCHANGED <<sent, old>>, NEW id
    PROVE  Fresh(id)' => Fresh(id)
BY DEF Fresh

\* The filter's update goes where the reader finds it, or where it is about to
\* delete.
LEMMA UpdateEventBound ==
    ASSUME TypeInv, TypeInv', UpdateEvent, NEW id \in Names, Bounded(id)
    PROVE  Bounded(id)'
<1> DEFINE e == Head(writes)
           A == Stored(id)
           B == Stored(id)'
           w == Count(writes, UpdatesOf(id))
           v == Count(writes', UpdatesOf(id))
           one == IF e \in UpdatesOf(id) THEN 1 ELSE 0
<1>1. writes \in Seq(Update) /\ writes # <<>> /\ writes' = Tail(writes)
    BY DEF TypeInv, FilterTypes, UpdateEvent
<1>2. e \in Update /\ Tail(writes) \in Seq(Update)
    BY <1>1
<1>3. w = v + one /\ v \in Nat
    BY <1>1, <1>2, CountTail, CountType
<1>4. e.key \in Tuple /\ kafka_event' = [kafka_event EXCEPT ![e.key] = e.val]
    BY <1>2 DEF Update, UpdateEvent
<1>5. kafka_event'[e.key] = e.val /\ \A t \in Tuple \ {e.key} : kafka_event'[t] = kafka_event[t]
    BY <1>4 DEF TypeInv, ReaderTypes
<1> HIDE DEF e
<1>6. A \ {e.key} = B \ {e.key}
    BY <1>5 DEF Stored, UpdateEvent
<1>7. e.key \in B => e \in UpdatesOf(id)
    BY <1>2, <1>5 DEF Stored, UpdatesOf
<1>8. IsFiniteSet(Contexts(id)) /\ IsFiniteSet(A)
    BY DEF Bounded
<1>9. /\ Cardinality(A) \in Nat /\ Cardinality(B) \in Nat /\ IsFiniteSet(B)
      /\ Cardinality(B) + (IF e.key \in A THEN 1 ELSE 0)
           = Cardinality(A) + (IF e.key \in B THEN 1 ELSE 0)
    BY <1>6, <1>8, CountDiffer
<1>10. v + Cardinality(B) <= w + Cardinality(A)
    BY <1>3, <1>7, <1>9
<1>11. Contexts(id)' = Contexts(id) /\ Slot(id)' = Slot(id)
    BY DEF UpdateEvent, Contexts, Slot
<1>12. Held(id)' = Held(id) /\ Reported(id)' = Reported(id) /\ ch' = ch
    BY DEF UpdateEvent, Held, Reported
<1>13. /\ InFilter(id) = w + 2 * Slot(id) + 2 * Cardinality(Contexts(id))
       /\ InFilter(id)' = v + 2 * Slot(id) + 2 * Cardinality(Contexts(id))
       /\ InReader(id) = Cardinality(A) + Held(id) + Count(ch, Named(id)) + Reported(id)
       /\ InReader(id)' = Cardinality(B) + Held(id) + Count(ch, Named(id)) + Reported(id)
    BY <1>11, <1>12 DEF InFilter, InReader
<1>14. /\ Slot(id) \in 0 .. 1 /\ Cardinality(Contexts(id)) \in Nat
       /\ Held(id) \in 0 .. 1 /\ Count(ch, Named(id)) \in Nat /\ Reported(id) \in Nat
    BY <1>8, SlotType, FS_CardinalityType, InReaderType DEF TypeInv
<1> HIDE DEF v, w, A, B, one
<1> DEFINE n == InReader(id)'
<1>15. /\ n \in Nat
       /\ InFilter(id)' + n <= InFilter(id) + InReader(id)
    BY <1>3, <1>9, <1>10, <1>13, <1>14
<1>16. Fresh(id)' => Fresh(id)
    BY FreshSame DEF UpdateEvent
<1> HIDE DEF n
<1>17. n = InReader(id)'
    BY DEF n
<1> QED
    BY <1>8, <1>9, <1>11, <1>15, <1>16, <1>17, BoundKept DEF A, B

\* A step of the reader or of sendMetrics that adds nothing to its side.
LEMMA ReaderBound ==
    ASSUME TypeInv, TypeInv', UNCHANGED <<sent, old, filterVars>>,
           NEW id \in Names, Bounded(id), IsFiniteSet(Stored(id)'),
           NEW n \in Nat, n = InReader(id)', n <= InReader(id)
    PROVE  Bounded(id)'
<1>1. Contexts(id)' = Contexts(id) /\ InFilter(id)' = InFilter(id)
    BY FilterSame
<1>2. IsFiniteSet(Contexts(id)) /\ IsFiniteSet(Stored(id))
    BY DEF Bounded
<1>3. InFilter(id) \in Nat /\ InReader(id) \in Nat
    BY <1>2, InFilterType, InReaderType DEF TypeInv
<1>4. InFilter(id)' + n <= InFilter(id) + InReader(id)
    BY <1>1, <1>3
<1>5. Fresh(id)' => Fresh(id)
    BY FreshSame
<1> QED
    BY <1>1, <1>2, <1>4, <1>5, BoundKept

\* The reader takes the value of a key, which does not count from then on.
LEMMA ReaderNextBound ==
    ASSUME TypeInv, TypeInv', NEW t \in Tuple, ReaderNext(t), NEW id \in Names, Bounded(id)
    PROVE  Bounded(id)'
<1> DEFINE A == Stored(id)
           B == Stored(id)'
           one == IF t \in A THEN 1 ELSE 0
<1>1. IsFiniteSet(A)
    BY DEF Bounded
<1>2. /\ reader.at = "next" /\ kafka_event[t] # None /\ kafka_event' = kafka_event
      /\ reader'.at = "delete" /\ reader'.key = t /\ reader'.val = kafka_event[t]
    BY DEF ReaderNext
<1>3. A \ {t} = B \ {t} /\ t \notin B /\ (t \in A <=> Name(kafka_event[t]) = id)
    BY <1>2 DEF Stored
<1>4. Held(id) = 0 /\ Held(id)' = one
    BY <1>2, <1>3 DEF Held
<1>5. /\ Cardinality(A) \in Nat /\ Cardinality(B) \in Nat /\ IsFiniteSet(B)
      /\ Cardinality(B) + one = Cardinality(A) + (IF t \in B THEN 1 ELSE 0)
    BY <1>1, <1>3, CountDiffer
<1>6. Reported(id)' = Reported(id) /\ ch' = ch
    BY DEF ReaderNext, Reported
<1>7. /\ InReader(id) = Cardinality(A) + 0 + Count(ch, Named(id)) + Reported(id)
      /\ InReader(id)' = Cardinality(B) + one + Count(ch, Named(id)) + Reported(id)
    BY <1>4, <1>6 DEF InReader
<1>8. Count(ch, Named(id)) \in Nat /\ Reported(id) \in Nat /\ one \in 0 .. 1
    BY <1>1, InReaderType DEF TypeInv
<1> DEFINE n == InReader(id)'
<1>9. n \in Nat /\ n <= InReader(id)
    <2>1. Cardinality(B) + one = Cardinality(A)
        BY <1>3, <1>5
    <2> HIDE DEF A, B, one
    <2> QED
        BY <1>5, <1>7, <1>8, <2>1
<1> HIDE DEF n
<1>10. n = InReader(id)'
    BY DEF n
<1> QED
    BY <1>5, <1>9, <1>10, ReaderBound DEF ReaderNext

\* Delete removes what does not count.
LEMMA ReaderDeleteBound ==
    ASSUME TypeInv, TypeInv', ReaderDelete, NEW id \in Names, Bounded(id)
    PROVE  Bounded(id)'
<1>1. IsFiniteSet(Stored(id))
    BY DEF Bounded
<1>2. /\ reader.at = "delete" /\ reader.key \in Tuple
      /\ reader' = [reader EXCEPT !.at = "send"]
      /\ kafka_event' = [kafka_event EXCEPT ![reader.key] = None]
    BY DEF ReaderDelete, EventAfterDelete, TypeInv, ReaderTypes
<1>3. reader'.at = "send" /\ reader'.val = reader.val
    BY <1>2 DEF TypeInv, ReaderTypes
<1>4. /\ kafka_event'[reader.key] = None
      /\ \A t \in Tuple \ {reader.key} : kafka_event'[t] = kafka_event[t]
    BY <1>2 DEF TypeInv, ReaderTypes
<1>5. Stored(id)' = Stored(id)
    BY <1>2, <1>3, <1>4 DEF Stored
<1>6. Held(id)' = Held(id)
    BY <1>2, <1>3 DEF Held
<1>7. Reported(id)' = Reported(id) /\ ch' = ch
    BY DEF ReaderDelete, Reported
<1>8. InReader(id)' = InReader(id)
    BY <1>5, <1>6, <1>7 DEF InReader
<1>9. InReader(id) \in Nat
    BY <1>1, InReaderType DEF TypeInv
<1>10. InReader(id) <= InReader(id)
    BY <1>9
<1> QED
    BY <1>1, <1>5, <1>8, <1>9, <1>10, ReaderBound DEF ReaderDelete

LEMMA ReaderSendBound ==
    ASSUME TypeInv, TypeInv', ReaderSend, NEW id \in Names, Bounded(id)
    PROVE  Bounded(id)'
<1> DEFINE x == reader.val
           k == Count(ch, Named(id))
           l == Count(ch', Named(id))
           one == IF x \in Named(id) THEN 1 ELSE 0
<1>1. IsFiniteSet(Stored(id))
    BY DEF Bounded
<1>2. ch \in Seq(Transaction) /\ x \in Transaction
    BY DEF TypeInv, ReaderTypes, ReaderSend
<1>3. reader.at = "send" /\ reader'.at = "next" /\ kafka_event' = kafka_event
        /\ ch' = Append(ch, x)
    BY DEF ReaderSend
<1>4. Stored(id)' = Stored(id)
    BY <1>3 DEF Stored
<1>5. x \in Named(id) <=> Name(x) = id
    BY <1>2 DEF Named
<1>6. Held(id) = one /\ Held(id)' = 0
    BY <1>3, <1>5 DEF Held
<1> HIDE DEF x
<1>7. l = k + one
    BY <1>2, <1>3, CountAppend
<1>8. Reported(id)' = Reported(id)
    BY DEF ReaderSend, Reported
<1>9. /\ InReader(id) = Cardinality(Stored(id)) + one + k + Reported(id)
      /\ InReader(id)' = Cardinality(Stored(id)) + 0 + l + Reported(id)
    BY <1>4, <1>6, <1>8 DEF InReader
<1>10. /\ Cardinality(Stored(id)) \in Nat /\ k \in Nat /\ Reported(id) \in Nat
       /\ one \in 0 .. 1 /\ InReader(id) \in Nat
    BY <1>1, InReaderType DEF TypeInv
<1> HIDE DEF k, l, one
<1>11. InReader(id)' = InReader(id) /\ InReader(id) <= InReader(id)
    BY <1>7, <1>9, <1>10
<1> QED
    BY <1>1, <1>4, <1>10, <1>11, ReaderBound DEF ReaderSend

LEMMA SendMetricBound ==
    ASSUME TypeInv, TypeInv', NEW external \in BOOLEAN, SendMetric(external),
           NEW id \in Names, Bounded(id)
    PROVE  Bounded(id)'
<1> DEFINE x == Head(ch)
           k == Count(ch, Named(id))
           l == Count(ch', Named(id))
           one == IF x \in Named(id) THEN 1 ELSE 0
<1>1. IsFiniteSet(Stored(id))
    BY DEF Bounded
<1>2. ch \in Seq(Transaction) /\ ch # <<>> /\ ch' = Tail(ch)
    BY DEF TypeInv, ReaderTypes, SendMetric
<1>3. x \in Transaction /\ Tail(ch) \in Seq(Transaction)
    BY <1>2
<1>4. k = l + one /\ l \in Nat
    BY <1>2, <1>3, CountTail, CountType
<1>5. x \in Named(id) <=> Name(x) = id
    BY <1>3 DEF Named
<1>6. reported' = IF external THEN reported ELSE Reports!BagAdd(reported, Name(x))
    BY DEF SendMetric, Name
<1> HIDE DEF x
<1>7. Name(x) \in Transaction
    BY <1>3, NameType DEF Names
<1>8. Reported(id)' = Reported(id) + (IF external THEN 0 ELSE one) /\ Reported(id) \in Nat
    <2> DEFINE e == Name(x)
    <2>0. CASE external
        <3>1. Reported(id) \in Nat
            BY <1>1, InReaderType DEF TypeInv
        <3>2. Reported(id)' = Reported(id)
            BY <1>6, <2>0 DEF Reported
        <3> QED
            BY <2>0, <3>1, <3>2
    <2> SUFFICES ASSUME ~external PROVE Reported(id)' = Reported(id) + one /\ Reported(id) \in Nat
        BY <2>0
    <2>1. /\ DOMAIN reported' = DOMAIN reported \cup {e}
          /\ \A y \in DOMAIN reported \ {e} : reported'[y] = reported[y]
          /\ reported'[e] = IF e \in DOMAIN reported THEN reported[e] + 1 ELSE 1
        BY <1>6, <1>7, ReportedAdd DEF TypeInv
    <2>2. Reported(id) \in Nat
        BY <1>1, InReaderType DEF TypeInv
    <2>3. one = IF e = id THEN 1 ELSE 0
        BY <1>5
    <2> HIDE DEF e, one
    <2>4. CASE e = id
        <3>1. Reported(id)' = reported'[id]
            BY <2>1, <2>4 DEF Reported
        <3>2. reported'[id] = IF id \in DOMAIN reported THEN reported[id] + 1 ELSE 1
            BY <2>1, <2>4
        <3> QED
            BY <2>2, <2>3, <2>4, <3>1, <3>2 DEF Reported
    <2>5. CASE e # id
        <3>1. Reported(id)' = Reported(id)
            BY <2>1, <2>5 DEF Reported
        <3> QED
            BY <2>2, <2>3, <2>5, <3>1
    <2> QED
        BY <2>4, <2>5
<1>9. Stored(id)' = Stored(id) /\ Held(id)' = Held(id)
    BY DEF SendMetric, Stored, Held
<1>10. /\ InReader(id) = Cardinality(Stored(id)) + Held(id) + k + Reported(id)
       /\ InReader(id)' = Cardinality(Stored(id)) + Held(id) + l + Reported(id)'
    BY <1>9 DEF InReader
<1>11. /\ Cardinality(Stored(id)) \in Nat /\ Held(id) \in 0 .. 1 /\ one \in 0 .. 1
       /\ InReader(id) \in Nat
    BY <1>1, InReaderType DEF TypeInv
<1> HIDE DEF k, l, one
<1>12. InReader(id)' \in Nat /\ InReader(id)' <= InReader(id)
    <2>1. CASE external
        BY <2>1, <1>4, <1>8, <1>10, <1>11
    <2>2. CASE ~external
        BY <2>2, <1>4, <1>8, <1>10, <1>11
    <2> QED
        BY <2>1, <2>2
<1> QED
    BY <1>1, <1>9, <1>11, <1>12, ReaderBound DEF SendMetric

LEMMA ReportInit ==
    ASSUME Init
    PROVE  ReportInv
<1>1. TypeInv
    BY TypeInit
<1>2. DOMAIN reported = {}
    BY DEF Init
<1>3. ASSUME NEW id \in Names
      PROVE  Bounded(id)
    <2>1. Contexts(id) = {} /\ Stored(id) = {}
        BY DEF Init, Contexts, Stored
    <2>2. Slot(id) = 0 /\ Held(id) = 0 /\ Reported(id) = 0
        BY DEF Init, Slot, Held, Reported
    <2>3. Count(writes, UpdatesOf(id)) = 0 /\ Count(ch, Named(id)) = 0
        BY CountEmpty DEF Init
    <2>4. IsFiniteSet(Contexts(id)) /\ IsFiniteSet(Stored(id))
            /\ Cardinality(Contexts(id)) = 0 /\ Cardinality(Stored(id)) = 0
        BY <2>1, FS_EmptySet
    <2>5. InFilter(id) = 0 /\ InReader(id) = 0
        BY <2>2, <2>3, <2>4 DEF InFilter, InReader
    <2> QED
        BY <2>4, <2>5 DEF Bounded, Allowed
<1> QED
    BY <1>2, <1>3 DEF ReportInv

LEMMA ReportStep ==
    ASSUME TypeInv, TypeInv', ReportInv, [Next]_vars
    PROVE  ReportInv'
<1>1. DOMAIN reported' \subseteq Names
    <2>1. ASSUME NEW external \in BOOLEAN, SendMetric(external)
          PROVE  DOMAIN reported' \subseteq Names
        <3> DEFINE x == Head(ch)
        <3>1. ch \in Seq(Transaction) /\ ch # <<>>
            BY <2>1 DEF TypeInv, ReaderTypes, SendMetric
        <3>2. x \in Transaction
            BY <3>1
        <3>3. reported' = reported \/ reported' = Reports!BagAdd(reported, Name(x))
            BY <2>1 DEF SendMetric, Name
        <3> HIDE DEF x
        <3>4. Name(x) \in Names /\ Name(x) \in Transaction
            BY <3>2, NameType DEF Names
        <3>5. DOMAIN reported' \subseteq DOMAIN reported \cup {Name(x)}
            BY <3>3, <3>4, ReportedAdd DEF TypeInv
        <3> QED
            BY <3>4, <3>5 DEF ReportInv
    <2>2. CASE ~\E external \in BOOLEAN : SendMetric(external)
        <3>1. UNCHANGED reported
            BY <2>2 DEF Next, Reader, Segment, LostSegment, Retransmission, Termination,
                        UpdateEvent, ReaderNext, ReaderDelete, ReaderSend, readerVars, vars
        <3> QED
            BY <3>1 DEF ReportInv
    <2> QED
        BY <2>1, <2>2
<1>2. ASSUME NEW id \in Names
      PROVE  Bounded(id)'
    <2>1. Bounded(id)
        BY DEF ReportInv
    <2>2. CASE UNCHANGED vars
        BY <2>1, <2>2, FreshSame, WireBound DEF vars, filterVars, readerVars
    <2> QED
        BY <2>1, <2>2, SegmentBound, RetransmissionBound, LostSegmentBound,
           TerminationBound, UpdateEventBound, ReaderNextBound, ReaderDeleteBound,
           ReaderSendBound, SendMetricBound DEF Next, Reader
<1> QED
    BY <1>1, <1>2 DEF ReportInv

LEMMA ReportInvBounds ==
    ASSUME TypeInv, ReportInv
    PROVE  BoundedReports
<1> SUFFICES ASSUME NEW tx \in DOMAIN reported
             PROVE  reported[tx] <= IF tx.api = 0 THEN 1 ELSE 2
    BY DEF BoundedReports
<1>1. tx \in Names /\ Bounded(tx)
    BY DEF ReportInv
<1>2. /\ IsFiniteSet(Contexts(tx)) /\ IsFiniteSet(Stored(tx))
      /\ InFilter(tx) + InReader(tx) <= IF Fresh(tx) THEN 0 ELSE Allowed(tx)
    BY <1>1 DEF Bounded
<1>3. /\ InFilter(tx) \in Nat /\ Cardinality(Stored(tx)) \in Nat /\ Held(tx) \in 0 .. 1
      /\ Count(ch, Named(tx)) \in Nat /\ Reported(tx) \in Nat
    BY <1>2, InFilterType, InReaderType DEF TypeInv
<1>4. InReader(tx) = Cardinality(Stored(tx)) + Held(tx) + Count(ch, Named(tx)) + Reported(tx)
    BY DEF InReader
<1>5. Reported(tx) <= Allowed(tx)
    <2>1. Allowed(tx) \in Nat
        BY DEF Allowed
    <2> QED
        BY <1>2, <1>3, <1>4, <2>1
<1>6. Reported(tx) = reported[tx]
    BY DEF Reported
<1> QED
    BY <1>5, <1>6 DEF Allowed

\* However segments are retransmitted or lost, whoever's packets take the one slot
\* of kafka_in_flight, and however the filter's updates of kafka_event meet the
\* reader's Next, Lookup and Delete: a produce request that passed the checks of
\* kafka_process is reported by sendMetrics at most once, a fetch at most twice.
THEOREM KafkaBoundedReports == Spec => []BoundedReports
<1>1. Init => TypeInv /\ ReportInv
    BY TypeInit, ReportInit
<1>2. TypeInv /\ ReportInv /\ [Next]_vars => TypeInv' /\ ReportInv'
    BY TypeStep, ReportStep
<1>3. TypeInv /\ ReportInv => BoundedReports
    BY ReportInvBounds
<1> QED
    BY <1>1, <1>2, <1>3, PTL DEF Spec
=============================================================================
