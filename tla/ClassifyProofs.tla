--------------------------- MODULE ClassifyProofs ---------------------------
(***************************************************************************)
(* Two theorems about the head of the rpc filter, for any tuples, packets, *)
(* words and limits.                                                       *)
(*                                                                         *)
(* The traces of the AMQP filter count their methods once.  What packets   *)
(* are classified as is left open there: the proof uses only which class   *)
(* and method is_amqp lets through.                                        *)
(*                                                                         *)
(* judge_rpc and scan_headers find the frames and the fields of a HEADERS  *)
(* frame where they are.  One round of the scan takes one field, whatever  *)
(* its encoding; that the cursor agrees with the fields after k rounds is  *)
(* shown for the least k for which it would not.                           *)
(***************************************************************************)
EXTENDS Classify, FiniteSetTheorems, TLAPS

History == [methods : Nat, again : Nat]

AmqpTypes ==
    /\ amqp_filter_map \in [Tuple -> Entry \cup {None}]
    /\ since \in [Tuple -> History]

\* The count c covers every method of h, and no more than its repetitions too.
Covers(c, h) == h.methods <= c /\ c <= h.methods + h.again

\* An entry has counted what came since the last trace, and without an entry
\* nothing that counts has.
EntryCounts ==
    \A t \in Tuple :
        /\ amqp_filter_map[t] = None => since[t] = Nothing
        /\ amqp_filter_map[t] # None => Covers(amqp_filter_map[t].count, since[t])

CountInv == AmqpTypes /\ EntryCounts /\ TraceCounts

-----------------------------------------------------------------------------

\* The entry that the packet makes or finds has counted what its tuple's has.
LEMMA FoundEntry ==
    ASSUME AmqpTypes, EntryCounts, NEW t \in Tuple, NEW s, NEW found,
           found = (IF ~IsAmqpMethod(s) THEN amqp_filter_map[t]
                    ELSE IF amqp_filter_map[t] = None
                    THEN [hdr |-> Hdr(s), type |-> "UNKNOWN", count |-> 0]
                    ELSE [amqp_filter_map[t] EXCEPT !.hdr = Hdr(s)]),
           found # None
    PROVE  found \in Entry /\ Covers(found.count, since[t])
<1>0. amqp_filter_map[t] # None =>
          amqp_filter_map[t] \in Entry /\ Covers(amqp_filter_map[t].count, since[t])
    BY DEF AmqpTypes, EntryCounts
<1>1. CASE ~IsAmqpMethod(s)
    BY <1>0, <1>1
<1>2. CASE IsAmqpMethod(s)
    <2>1. Hdr(s) \in [class : {10, 50, 60}, method : {11, 20, 40, 50, 51, 60}]
        <3>1. AmqpClass(s) \in {10, 50, 60} /\ AmqpMethod(s) \in {11, 20, 40, 50, 51, 60}
            BY <1>2 DEF IsAmqpMethod
        <3> QED
            BY <3>1 DEF Hdr
    <2>2. CASE amqp_filter_map[t] = None
        <3>1. found = [hdr |-> Hdr(s), type |-> "UNKNOWN", count |-> 0]
            BY <1>2, <2>2
        <3>2. found \in Entry /\ found.count = 0
            BY <2>1, <3>1 DEF Entry
        <3>3. since[t] = Nothing
            BY <2>2 DEF EntryCounts
        <3> QED
            BY <3>2, <3>3 DEF Covers, Nothing
    <2>3. CASE amqp_filter_map[t] # None
        <3>1. found = [amqp_filter_map[t] EXCEPT !.hdr = Hdr(s)]
            BY <1>2, <2>3
        <3>2. found \in Entry /\ found.count = amqp_filter_map[t].count
            BY <1>0, <2>1, <2>3, <3>1 DEF Entry
        <3> QED
            BY <1>0, <2>3, <3>2
    <2> QED
        BY <2>2, <2>3
<1> QED
    BY <1>1, <1>2

\* What socket__amqp_filter does to an entry: one more if its method counts; a
\* method that ends the entry does not.
LEMMA AfterEntry ==
    ASSUME NEW e \in Entry
    PROVE  /\ EntryAfter(e) \in Entry /\ EntryAfter(e).hdr = e.hdr
           /\ EntryAfter(e).count = IF Counted(e.hdr) THEN e.count + 1 ELSE e.count
           /\ Ends(e.hdr) => ~Counted(e.hdr)
<1>1. Ends(e.hdr) => ~Counted(e.hdr)
    BY DEF Ends, Counted
<1>2. CASE ~Counted(e.hdr)
    BY <1>1, <1>2 DEF EntryAfter
<1>3. CASE Counted(e.hdr)
    <2> DEFINE type == IF e.hdr.method = 40 THEN "PUBLISH"
                       ELSE IF e.hdr.method = 20 /\ e.type # "PUBLISH" THEN "CONSUME" ELSE e.type
    <2>1. type \in {"UNKNOWN", "PUBLISH", "CONSUME"} /\ e.count + 1 \in Nat
        BY DEF Entry
    <2>2. EntryAfter(e) = [e EXCEPT !.type = type, !.count = e.count + 1]
        BY <1>3 DEF EntryAfter
    <2> HIDE DEF type
    <2>3. EntryAfter(e) = [hdr |-> e.hdr, type |-> type, count |-> e.count + 1]
        BY <2>2 DEF Entry
    <2>4. EntryAfter(e) \in Entry
        BY <2>1, <2>3 DEF Entry
    <2> QED
        BY <1>1, <1>3, <2>3, <2>4
<1> QED
    BY <1>2, <1>3

\* Counting one more on both sides keeps the count covered.
LEMMA CountOn ==
    ASSUME NEW h \in History, NEW c \in Nat, Covers(c, h), NEW kind \in {"methods", "again"}
    PROVE  Tally(h, kind) \in History /\ Covers(c + 1, Tally(h, kind))
<1>1. CASE kind = "methods"
    <2>1. Tally(h, kind) = [h EXCEPT !["methods"] = @ + 1]
        BY <1>1, Zenon DEF Tally
    <2>2. [h EXCEPT !["methods"] = @ + 1] = [methods |-> h.methods + 1, again |-> h.again]
        <3>1. [h EXCEPT !["methods"] = @ + 1] = [h EXCEPT !.methods = h.methods + 1]
            BY DEF History
        <3>2. [h EXCEPT !.methods = h.methods + 1] = [methods |-> h.methods + 1, again |-> h.again]
            BY DEF History
        <3> QED
            BY <3>1, <3>2
    <2>3. [methods |-> h.methods + 1, again |-> h.again] \in History
        BY DEF History
    <2>4. Covers(c + 1, [methods |-> h.methods + 1, again |-> h.again])
        BY DEF History, Covers
    <2> QED
        BY <2>1, <2>2, <2>3, <2>4
<1>2. CASE kind = "again"
    <2>1. Tally(h, kind) = [h EXCEPT !["again"] = @ + 1]
        BY <1>2, Zenon DEF Tally
    <2>2. [h EXCEPT !["again"] = @ + 1] = [methods |-> h.methods, again |-> h.again + 1]
        <3>1. [h EXCEPT !["again"] = @ + 1] = [h EXCEPT !.again = h.again + 1]
            BY DEF History
        <3>2. [h EXCEPT !.again = h.again + 1] = [methods |-> h.methods, again |-> h.again + 1]
            BY DEF History
        <3> QED
            BY <3>1, <3>2
    <2>3. [methods |-> h.methods, again |-> h.again + 1] \in History
        BY DEF History
    <2>4. Covers(c + 1, [methods |-> h.methods, again |-> h.again + 1])
        BY DEF History, Covers
    <2> QED
        BY <2>1, <2>2, <2>3, <2>4
<1> QED
    BY <1>1, <1>2

\* An AMQP packet keeps the entry of its tuple in step with the history.
LEMMA StepAmqp ==
    ASSUME CountInv, NEW t \in Tuple, NEW p \in Packets[t], AmqpPacket(t, p)
    PROVE  CountInv'
<1> DEFINE s == p.bytes
           found == IF ~IsAmqpMethod(s) THEN amqp_filter_map[t]
                    ELSE IF amqp_filter_map[t] = None
                    THEN [hdr |-> Hdr(s), type |-> "UNKNOWN", count |-> 0]
                    ELSE [amqp_filter_map[t] EXCEPT !.hdr = Hdr(s)]
           e == EntryAfter(found)
           traced == Ends(e.hdr) /\ e.type # "UNKNOWN"
           kind == IF IsAmqpMethod(s) THEN "methods" ELSE "again"
           trace == IF found # None /\ traced
                    THEN [event |-> e, counted |-> since[t]] ELSE None
<1>0. /\ AmqpTypes /\ EntryCounts
      /\ amqp_filter_map \in [Tuple -> Entry \cup {None}] /\ since \in [Tuple -> History]
    BY DEF CountInv, AmqpTypes
<1>1. /\ last' = Result(p, Verdict("AMQP", "UNKNOWN"), trace)
      /\ found # None =>
             /\ amqp_filter_map' = [amqp_filter_map EXCEPT ![t] = IF traced THEN None ELSE e]
             /\ since' = [since EXCEPT ![t] = IF traced THEN Nothing
                                              ELSE IF Counted(e.hdr)
                                              THEN Tally(@, kind) ELSE @]
      /\ found = None => UNCHANGED <<amqp_filter_map, since>>
    <2>1. last' = Result(p, Verdict("AMQP", "UNKNOWN"), trace)
        BY DEF AmqpPacket
    <2>2. IF found # None
          THEN /\ since[t][kind] < MaxCount \/ ~Counted(e.hdr)
               /\ amqp_filter_map' = FilterMapAfter(t, e, traced)
               /\ since' = [since EXCEPT ![t] = IF traced THEN Nothing
                                                ELSE IF Counted(e.hdr)
                                                THEN Tally(@, kind) ELSE @]
          ELSE UNCHANGED amqpVars
        BY DEF AmqpPacket
    <2> HIDE DEF found, e, traced, kind, trace
    <2> QED
        BY <2>1, <2>2 DEF FilterMapAfter, amqpVars
<1>2. last'.trace = trace
    BY <1>1 DEF Result
<1>3. CASE found = None
    <2>1. UNCHANGED <<amqp_filter_map, since>> /\ last'.trace = None
        BY <1>1, <1>2, <1>3
    <2> QED
        BY <1>0, <2>1 DEF CountInv, AmqpTypes, EntryCounts, TraceCounts
<1>4. CASE found # None
    <2>1. found \in Entry /\ Covers(found.count, since[t])
        BY <1>0, <1>4, FoundEntry
    <2> HIDE DEF found
    <2>2. /\ e \in Entry /\ e.hdr = found.hdr
          /\ e.count = IF Counted(e.hdr) THEN found.count + 1 ELSE found.count
          /\ Ends(e.hdr) => ~Counted(e.hdr)
        BY <2>1, AfterEntry
    <2>3. found.count \in Nat /\ since[t] \in History /\ kind \in {"methods", "again"}
        BY <1>0, <2>1 DEF Entry
    <2> DEFINE h == IF Counted(e.hdr) THEN Tally(since[t], kind) ELSE since[t]
    <2>4. h \in History /\ Covers(e.count, h)
        <3> HIDE DEF e, kind
        <3>1. CASE Counted(e.hdr)
            BY <2>1, <2>2, <2>3, <3>1, CountOn
        <3>2. CASE ~Counted(e.hdr)
            BY <2>1, <2>2, <2>3, <3>2
        <3> QED
            BY <3>1, <3>2
    <2>5. traced => h = since[t]
        BY <2>2
    <2>6. /\ amqp_filter_map' = [amqp_filter_map EXCEPT ![t] = IF traced THEN None ELSE e]
          /\ since' = [since EXCEPT ![t] = IF traced THEN Nothing ELSE h]
        <3>1. amqp_filter_map' = [amqp_filter_map EXCEPT ![t] = IF traced THEN None ELSE e]
            BY <1>1, <1>4
        <3>2. since' = [since EXCEPT ![t] = IF traced THEN Nothing
                                            ELSE IF Counted(e.hdr)
                                            THEN Tally(@, kind) ELSE @]
            BY <1>1, <1>4
        <3> HIDE DEF traced, e, kind
        <3> QED
            BY <3>1, <3>2
    <2>7. Nothing \in History /\ e # None
        BY <2>2, ClassifyAssumption DEF Nothing, History
    <2>8. trace = IF traced THEN [event |-> e, counted |-> since[t]] ELSE None
        BY <1>4
    <2> HIDE DEF e, h, traced, trace
    <2>9. AmqpTypes'
        BY <1>0, <2>2, <2>4, <2>6, <2>7 DEF AmqpTypes
    <2>10. EntryCounts'
        BY <1>0, <2>4, <2>6, <2>7 DEF EntryCounts
    <2>11. TraceCounts'
        <3>1. CASE traced
            <4>1. last'.trace = [event |-> e, counted |-> h]
                BY <1>2, <2>5, <2>8, <3>1
            <4>2. last'.trace.event.count = e.count /\ last'.trace.counted = h
                BY <4>1
            <4>3. e.count \in h.methods .. h.methods + h.again
                BY <2>2, <2>4 DEF Entry, History, Covers
            <4> QED
                BY <4>2, <4>3 DEF TraceCounts
        <3>2. CASE ~traced
            BY <1>2, <2>8, <3>2 DEF TraceCounts
        <3> QED
            BY <3>1, <3>2
    <2> QED
        BY <2>9, <2>10, <2>11 DEF CountInv
<1> QED
    BY <1>3, <1>4

\* A trace counts the methods of its tuple since the trace before it, each once;
\* only a protocol header that finds an entry repeats one.
THEOREM TracesCountOnce == Spec => []TraceCounts
<1>1. Init => CountInv
    BY DEF Init, CountInv, AmqpTypes, History, Nothing, EntryCounts, TraceCounts
<1>2. CountInv /\ [Next]_vars => CountInv'
    <2> SUFFICES ASSUME CountInv, [Next]_vars PROVE CountInv'
        OBVIOUS
    <2>1. ASSUME UNCHANGED amqpVars, last' = None \/ last'.trace = None \/ last' = last
          PROVE  CountInv'
        BY <2>1 DEF CountInv, AmqpTypes, EntryCounts, TraceCounts, amqpVars
    <2>2. ASSUME NEW t \in Tuple, NEW p \in Packets[t], OtherPacket(t, p) PROVE CountInv'
        BY <2>1, <2>2 DEF OtherPacket, Result
    <2>3. ASSUME NEW t \in Tuple, NEW p \in Packets[t], Http2Packet(t, p) PROVE CountInv'
        BY <2>1, <2>3 DEF Http2Packet, Result
    <2>4. CASE Done
        BY <2>1, <2>4 DEF Done
    <2>5. CASE UNCHANGED vars
        BY <2>1, <2>5 DEF vars, amqpVars
    <2> QED
        BY <2>2, <2>3, <2>4, <2>5, StepAmqp DEF Next
<1>3. CountInv => TraceCounts
    BY DEF CountInv
<1> QED
    BY <1>1, <1>2, <1>3, PTL DEF Spec


-----------------------------------------------------------------------------
(* Header fields.  One round of scan_headers at the beginning of a field.  *)

ByteSeq == Seq(0 .. 255)

\* Bytes of a word that stands at offset p.
LEMMA HasBytes ==
    ASSUME NEW s \in ByteSeq, NEW w \in ByteSeq, NEW p \in Nat, Has(s, p, w),
           NEW i \in 1 .. Len(w)
    PROVE  p + i <= Len(s) /\ Byte(s, p + i - 1) = w[i]
<1>1. /\ Len(w) \in Nat /\ Len(s) \in Nat
      /\ p + Len(w) <= Len(s) /\ SubSeq(s, p + 1, p + Len(w)) = w
    BY DEF Has, ByteSeq
<1>2. p + i <= Len(s) /\ p + i - 1 < Len(s) /\ p + i - 1 \in Nat
    BY <1>1
<1>3. Byte(s, p + i - 1) = s[p + i]
    BY <1>2 DEF Byte
<1>4. SubSeq(s, p + 1, p + Len(w))[i] = s[p + i]
    BY <1>1 DEF ByteSeq
<1> QED
    BY <1>1, <1>2, <1>3, <1>4

\* A word inside a word.
LEMMA HasInside ==
    ASSUME NEW s \in ByteSeq, NEW w \in ByteSeq, NEW v \in ByteSeq, NEW p \in Nat,
           NEW k \in Nat, Has(s, p, w), k + Len(v) <= Len(w)
    PROVE  Has(s, p + k, v) <=> Has(w, k, v)
<1>1. /\ Len(v) \in Nat /\ Len(w) \in Nat /\ Len(s) \in Nat
      /\ p + Len(w) <= Len(s) /\ SubSeq(s, p + 1, p + Len(w)) = w
    BY DEF Has, ByteSeq
<1>2. \A j \in 1 .. Len(v) : w[k + j] = s[p + k + j]
    <2> TAKE j \in 1 .. Len(v)
    <2>1. k + j \in 1 .. Len(w)
        BY <1>1
    <2>2. SubSeq(s, p + 1, p + Len(w))[k + j] = s[p + (k + j)]
        BY <1>1, <2>1 DEF ByteSeq
    <2>3. w[k + j] = s[p + (k + j)]
        BY <1>1, <2>2, Zenon
    <2>4. p + (k + j) = p + k + j
        BY <1>1
    <2> QED
        BY <2>3, <2>4
<1> DEFINE a == SubSeq(s, p + k + 1, p + k + Len(v))
           b == SubSeq(w, k + 1, k + Len(v))
<1>3. a = [j \in 1 .. Len(v) |-> s[p + k + j]]
    BY <1>1 DEF ByteSeq
<1>4. b = [j \in 1 .. Len(v) |-> w[k + j]]
    BY <1>1 DEF ByteSeq
<1>5. a = b
    BY <1>2, <1>3, <1>4
<1> HIDE DEF a, b
<1>6. Has(s, p + k, v) <=> p + k + Len(v) <= Len(s) /\ a = v
    BY DEF Has, a
<1>7. Has(w, k, v) <=> k + Len(v) <= Len(w) /\ b = v
    BY DEF Has, b
<1>8. p + k + Len(v) <= Len(s)
    BY <1>1
<1> QED
    BY <1>5, <1>6, <1>7, <1>8

\* The parts of a field's first byte.
LEMMA IndexedByte ==
    ASSUME NEW raw \in 129 .. 190
    PROVE  raw % 64 = raw - 128 /\ (raw \div 64) % 2 = 0
OBVIOUS

LEMMA LiteralByte ==
    ASSUME NEW raw \in 64 .. 126
    PROVE  raw % 64 = raw - 64 /\ (raw \div 64) % 2 = 1
OBVIOUS

\* The cases of FieldName.
LEMMA FieldNames ==
    ASSUME NEW code, NEW raw \in Int, raw = code[1]
    PROVE  /\ raw = 130 => FieldName(code) = "GET"
           /\ raw \in {66, 67} => FieldName(code) = "method"
           /\ raw \in {69, 133} => FieldName(code) = "path"
           /\ raw \in {72, 136} => FieldName(code) = "status"
           /\ raw = 95 => FieldName(code) = IF Has(code, 2, GrpcType) THEN "grpc" ELSE "json"
           /\ raw \notin {66, 67, 69, 72, 95, 130, 133, 136} => FieldName(code) = "other"
<1> DEFINE type == IF Has(code, 2, GrpcType) THEN "grpc" ELSE "json"
<1>1. FieldName(code) = CASE raw = 130 -> "GET"
                          [] raw \in {66, 67} -> "method"
                          [] raw \in {69, 133} -> "path"
                          [] raw \in {72, 136} -> "status"
                          [] raw = 95 -> type
                          [] OTHER -> "other"
    BY DEF FieldName
<1> HIDE DEF type
<1>2. raw = 130 => FieldName(code) = "GET"
    BY <1>1
<1>3. raw \in {66, 67} => FieldName(code) = "method"
    BY <1>1
<1>4. raw \in {69, 133} => FieldName(code) = "path"
    BY <1>1
<1>5. raw \in {72, 136} => FieldName(code) = "status"
    BY <1>1
<1>6. raw = 95 => FieldName(code) = type
    BY <1>1
<1>7. raw \notin {66, 67, 69, 72, 95, 130, 133, 136} => FieldName(code) = "other"
    BY <1>1
<1> QED
    BY <1>2, <1>3, <1>4, <1>5, <1>6, <1>7 DEF type

LEMMA StringLengthType ==
    ASSUME NEW s \in ByteSeq, NEW p \in Nat
    PROVE  Byte(s, p) \in 0 .. 255 /\ StringLength(s, p) \in Nat
<1>1. Byte(s, p) \in 0 .. 255
    <2> DEFINE B == 0 .. 255
    <2>1. s \in Seq(B)
        BY DEF ByteSeq
    <2>2. 0 \in B
        OBVIOUS
    <2> HIDE DEF B
    <2>3. p < Len(s) => s[p + 1] \in B
        BY <2>1
    <2>4. Byte(s, p) \in B
        BY <2>2, <2>3 DEF Byte
    <2> QED
        BY <2>4 DEF B
<1> QED
    BY <1>1 DEF StringLength

\* What a field with this name and encoding adds to a cursor.
StatusOf(name) ==
    IF name \in {"GET", "method", "json"} THEN "NOT_GRPC"
    ELSE IF name = "grpc" THEN "GRPC" ELSE "UNDETERMINED"

PhaseOf(name, phase) ==
    IF name = "path" THEN "REQUEST" ELSE IF name = "status" THEN "RESPONSE" ELSE phase

\* A field that is an index.
LEMMA IndexedField ==
    ASSUME NEW s, NEW code, NEW at \in Nat, NEW end \in Nat,
           Byte(s, at) \in 129 .. 190, Byte(s, at) = code[1], at < end,
           NEW q, q.off = at, q.status = "UNDETERMINED"
    PROVE  LET r == ScanHeader(q, s, end)
               name == FieldName(code)
           IN  /\ r.status = StatusOf(name)
               /\ at + 1 < end => r.phase = PhaseOf(name, q.phase)
               /\ ~(at + 1 < end) => r.phase = q.phase
               /\ r.off = at + 1
<1> DEFINE raw == Byte(s, at)
           p == at + 1
           phase == IF p + 1 > end THEN q.phase
                    ELSE IF raw % 64 = 5 THEN "REQUEST"
                    ELSE IF raw % 64 = 8 THEN "RESPONSE" ELSE q.phase
           name == FieldName(code)
           r == ScanHeader(q, s, end)
<1>1. raw \in 129 .. 190 /\ raw = code[1]
    OBVIOUS
<1>2. raw % 64 = raw - 128 /\ (raw \div 64) % 2 = 0
    <2> HIDE DEF raw
    <2> QED
        BY <1>1, IndexedByte
<1>3. (raw % 64 = 5 <=> raw = 133) /\ (raw % 64 = 8 <=> raw = 136)
    <2> HIDE DEF raw
    <2> QED
        BY <1>1, <1>2
<1>4. r = IF raw = 130 THEN [off |-> p, phase |-> phase, status |-> "NOT_GRPC"]
          ELSE [off |-> p, phase |-> phase, status |-> "UNDETERMINED"]
    BY <1>2 DEF ScanHeader
<1> HIDE DEF raw
<1>5. name = IF raw = 130 THEN "GET" ELSE IF raw = 133 THEN "path"
             ELSE IF raw = 136 THEN "status" ELSE "other"
    <2>1. raw \in Int
        BY <1>1
    <2>2. /\ raw = 130 => name = "GET"
          /\ raw \in {69, 133} => name = "path"
          /\ raw \in {72, 136} => name = "status"
          /\ raw \notin {66, 67, 69, 72, 95, 130, 133, 136} => name = "other"
        BY <1>1, <2>1, FieldNames
    <2> HIDE DEF name
    <2> QED
        BY <1>1, <2>2
<1>6. phase = IF ~(at + 1 < end) THEN q.phase
              ELSE IF raw = 133 THEN "REQUEST" ELSE IF raw = 136 THEN "RESPONSE" ELSE q.phase
    BY <1>3
<1> HIDE DEF phase, name, p
<1>7. /\ r.phase = phase /\ r.off = p
      /\ r.status = IF raw = 130 THEN "NOT_GRPC" ELSE "UNDETERMINED"
    BY <1>4
<1>8. r.status = StatusOf(name)
    BY <1>5, <1>7 DEF StatusOf
<1>9. phase = IF at + 1 < end THEN PhaseOf(name, q.phase) ELSE q.phase
    BY <1>5, <1>6 DEF PhaseOf
<1> QED
    BY <1>7, <1>8, <1>9 DEF name, p

\* A field that is the index of a name and a value.
LEMMA LiteralField ==
    ASSUME NEW s \in ByteSeq, NEW code \in ByteSeq, NEW at \in Nat, NEW end \in Nat,
           Has(s, at, code), at + Len(code) <= end, end <= Len(s),
           Len(code) >= 2, code[1] \in 65 .. 126, IsString(code, 2, Len(code)),
           NEW q, q.off = at, q.status = "UNDETERMINED"
    PROVE  LET r == ScanHeader(q, s, end)
               name == FieldName(code)
           IN  /\ r.status = StatusOf(name)
               /\ r.phase = PhaseOf(name, q.phase)
               /\ StatusOf(name) = "UNDETERMINED" => r.off = at + Len(code)
<1> DEFINE raw == Byte(s, at)
           index == raw % 64
           p == at + 1
           phase == IF p + 1 > end THEN q.phase
                    ELSE IF index = 5 THEN "REQUEST"
                    ELSE IF index = 8 THEN "RESPONSE" ELSE q.phase
           name == FieldName(code)
           r == ScanHeader(q, s, end)
<1>0. Len(code) \in Nat /\ Len(s) \in Nat
    BY DEF ByteSeq
<1>1. raw = code[1] /\ Byte(s, p) = code[2]
    <2>1. 1 \in 1 .. Len(code) /\ 2 \in 1 .. Len(code)
        BY <1>0
    <2>2. Byte(s, at + 1 - 1) = code[1] /\ Byte(s, at + 2 - 1) = code[2]
        BY <2>1, HasBytes
    <2>3. at + 1 - 1 = at /\ at + 2 - 1 = at + 1
        OBVIOUS
    <2> QED
        BY <2>2, <2>3
<1>2. raw \in 65 .. 126 /\ at < end /\ p + 1 <= end
    BY <1>0, <1>1
<1>3. index = raw - 64 /\ (raw \div 64) % 2 = 1
    <2> HIDE DEF raw
    <2> QED
        BY <1>2, LiteralByte
<1>4. StringLength(s, p) = Len(code) - 2
    BY <1>0, <1>1 DEF StringLength, IsString
<1>5. SkipLiteral(s, p, end, index) = at + Len(code)
    <2>1. index # 0
        <3> HIDE DEF raw, index
        <3> QED
            BY <1>2, <1>3
    <2>2. SkipLiteral(s, p, end, index) = p + 1 + StringLength(s, p)
        BY <1>2, <2>1 DEF SkipLiteral
    <2> QED
        BY <1>0, <1>4, <2>2
<1>6. r = IF index \in {2, 3} \/ raw = 130
          THEN [off |-> p, phase |-> phase, status |-> "NOT_GRPC"]
          ELSE IF index = 31
          THEN [off |-> p, phase |-> phase, status |-> ContentType(s, p, end)]
          ELSE [off |-> SkipLiteral(s, p, end, index), phase |-> phase,
                status |-> "UNDETERMINED"]
    BY <1>2, <1>3 DEF ScanHeader
<1>7. ContentType(s, p, end) = IF Has(code, 2, GrpcType) THEN "GRPC" ELSE "NOT_GRPC"
    <2>1. GrpcType \in ByteSeq /\ Len(GrpcType) \in Nat
        BY ProtocolsAssumption DEF ByteSeq
    <2>2. CASE 2 + Len(GrpcType) <= Len(code)
        <3>1. Has(s, at + 2, GrpcType) <=> Has(code, 2, GrpcType)
            BY <2>1, <2>2, HasInside
        <3>2. at + 2 = p + 1 /\ StringLength(s, p) >= Len(GrpcType)
            BY <1>0, <1>4, <2>1, <2>2
        <3> QED
            BY <1>2, <3>1, <3>2 DEF ContentType
    <2>3. CASE ~(2 + Len(GrpcType) <= Len(code))
        <3>1. ~Has(code, 2, GrpcType)
            BY <2>3 DEF Has
        <3>2. ~(StringLength(s, p) >= Len(GrpcType))
            BY <1>0, <1>4, <2>1, <2>3
        <3> QED
            BY <3>1, <3>2 DEF ContentType
    <2> QED
        BY <2>2, <2>3
<1>8. name = IF raw \in {66, 67} THEN "method" ELSE IF raw = 69 THEN "path"
             ELSE IF raw = 72 THEN "status"
             ELSE IF raw = 95 THEN IF Has(code, 2, GrpcType) THEN "grpc" ELSE "json"
             ELSE "other"
    <2>1. raw \in Int /\ raw = code[1]
        <3>1. raw = code[1]
            BY <1>1
        <3> HIDE DEF raw
        <3> QED
            BY <1>2, <3>1
    <2> DEFINE type == IF Has(code, 2, GrpcType) THEN "grpc" ELSE "json"
    <2>2. /\ raw = 130 => name = "GET"
          /\ raw \in {66, 67} => name = "method"
          /\ raw \in {69, 133} => name = "path"
          /\ raw \in {72, 136} => name = "status"
          /\ raw = 95 => name = type
          /\ raw \notin {66, 67, 69, 72, 95, 130, 133, 136} => name = "other"
        <3> HIDE DEF raw
        <3> QED
            BY <2>1, FieldNames
    <2> HIDE DEF raw, name, type
    <2>3. name = IF raw \in {66, 67} THEN "method" ELSE IF raw = 69 THEN "path"
                 ELSE IF raw = 72 THEN "status" ELSE IF raw = 95 THEN type ELSE "other"
        BY <1>2, <2>2
    <2> QED
        BY <2>3 DEF type
<1>9. /\ index \in {2, 3} <=> raw \in {66, 67}
      /\ index = 31 <=> raw = 95
      /\ index = 5 <=> raw = 69
      /\ index = 8 <=> raw = 72
      /\ raw # 130
    <2> HIDE DEF raw, index
    <2> QED
        BY <1>2, <1>3
<1>10. phase = IF raw = 69 THEN "REQUEST" ELSE IF raw = 72 THEN "RESPONSE" ELSE q.phase
    <2> HIDE DEF raw, index
    <2> QED
        BY <1>2, <1>9
<1> DEFINE skip == SkipLiteral(s, p, end, index)
           type == ContentType(s, p, end)
<1> HIDE DEF phase, raw, name, p, skip, type, index
<1>11. r = IF raw \in {66, 67} THEN [off |-> p, phase |-> phase, status |-> "NOT_GRPC"]
           ELSE IF raw = 95 THEN [off |-> p, phase |-> phase, status |-> type]
           ELSE [off |-> skip, phase |-> phase, status |-> "UNDETERMINED"]
    BY <1>6, <1>9 DEF skip, type
<1>12. /\ r.phase = phase
       /\ r.status = IF raw \in {66, 67} THEN "NOT_GRPC" ELSE IF raw = 95 THEN type
                     ELSE "UNDETERMINED"
       /\ raw \notin {66, 67} /\ raw # 95 => r.off = skip
    BY <1>11
<1>13. r.status = StatusOf(name)
    BY <1>7, <1>8, <1>12 DEF StatusOf, type
<1>14. StatusOf(name) = "UNDETERMINED" => raw \notin {66, 67} /\ raw # 95
    BY <1>8 DEF StatusOf
<1>15. phase = PhaseOf(name, q.phase)
    BY <1>2, <1>8, <1>10 DEF PhaseOf
<1>16. StatusOf(name) = "UNDETERMINED" => r.off = at + Len(code)
    BY <1>5, <1>12, <1>14 DEF skip
<1> QED
    BY <1>12, <1>13, <1>15, <1>16 DEF name

\* A field with a new name.
LEMMA NewNameField ==
    ASSUME NEW s \in ByteSeq, NEW code \in ByteSeq, NEW at \in Nat, NEW end \in Nat,
           Has(s, at, code), at + Len(code) <= end, end <= Len(s),
           Len(code) >= 3, code[1] = 64, NEW i \in 3 .. Len(code),
           IsString(code, 2, i - 1), IsString(code, i, Len(code)),
           NEW q, q.off = at, q.status = "UNDETERMINED"
    PROVE  /\ FieldName(code) = "other"
           /\ ScanHeader(q, s, end) = [off |-> at + Len(code), phase |-> q.phase,
                                       status |-> "UNDETERMINED"]
<1> DEFINE p == at + 1
           v == at + i - 1
<1>0. Len(code) \in Nat /\ Len(s) \in Nat /\ i \in Nat
    BY DEF ByteSeq
<1>1. Byte(s, at) = 64 /\ Byte(s, p) = code[2] /\ Byte(s, v) = code[i]
    <2>1. 1 \in 1 .. Len(code) /\ 2 \in 1 .. Len(code) /\ i \in 1 .. Len(code)
        BY <1>0
    <2>2. /\ Byte(s, at + 1 - 1) = code[1] /\ Byte(s, at + 2 - 1) = code[2]
          /\ Byte(s, at + i - 1) = code[i]
        BY <2>1, HasBytes
    <2>3. at + 1 - 1 = at /\ at + 2 - 1 = at + 1
        OBVIOUS
    <2> QED
        BY <2>2, <2>3
<1>2. at < end /\ p + 1 <= end /\ v + 1 <= end
    BY <1>0
<1>3. 64 % 64 = 0 /\ (64 \div 64) % 2 = 1
    BY LiteralByte
<1>4. StringLength(s, p) = i - 3
    BY <1>0, <1>1 DEF StringLength, IsString
<1>5. StringLength(s, v) = Len(code) - i
    BY <1>0, <1>1 DEF StringLength, IsString
<1>6. p + 1 + StringLength(s, p) = v
    BY <1>0, <1>4
<1>7. SkipLiteral(s, p, end, 0) = v + 1 + StringLength(s, v)
    BY <1>2, <1>6 DEF SkipLiteral
<1>8. SkipLiteral(s, p, end, 0) = at + Len(code)
    BY <1>0, <1>5, <1>7
<1>9. FieldName(code) = "other"
    BY DEF FieldName
<1> HIDE DEF v
<1>10. ScanHeader(q, s, end) = [off |-> SkipLiteral(s, p, end, 0), phase |-> q.phase,
                                status |-> "UNDETERMINED"]
    BY <1>1, <1>2, <1>3 DEF ScanHeader
<1> QED
    BY <1>8, <1>9, <1>10

-----------------------------------------------------------------------------
(* What a list of fields says, one field after the other.                  *)

LEMMA LeastNatural ==
    ASSUME NEW S \in SUBSET Nat, S # {}
    PROVE  \E m \in S : \A k \in S : m <= k
<1> DEFINE R == {ss \in Nat \X Nat : ss[1] < ss[2]}
<1>1. IsWellFoundedOn(R, Nat)
    BY NatLessThanWellFounded, Zenon DEF OpToRel
<1>2. \E x \in S : \A y \in S : ~(<<y, x>> \in R)
    <2> HIDE DEF R
    <2> QED
        BY <1>1, WFMin
<1>3. PICK x \in S : \A y \in S : <<y, x>> \notin R
    BY <1>2
<1>4. ASSUME NEW y \in S
      PROVE  x <= y
    <2>1. x \in Nat /\ y \in Nat
        OBVIOUS
    <2>2. ~(y < x)
        BY <1>3, <2>1
    <2> QED
        BY <2>1, <2>2
<1> QED
    BY <1>4

Upto(field, j) == {k \in DOMAIN field : k <= j /\ Unsettled(field, k)}
PhasesIn(field, j) == {k \in Upto(field, j) : Phased(field, k)}
SettledIn(field, j) == {k \in Upto(field, j) : Settles(field[k])}

LastPhase(field, P) ==
    IF P = {} THEN "UNKNOWN"
    ELSE IF field[CHOOSE k \in P : \A i \in P : i <= k].name = "path"
         THEN "REQUEST" ELSE "RESPONSE"

FirstStatus(field, S) ==
    IF S = {} THEN "UNDETERMINED"
    ELSE IF \E k \in S : field[k].name = "grpc" THEN "GRPC" ELSE "NOT_GRPC"

LEMMA ReadingParts ==
    ASSUME NEW field, NEW j
    PROVE  /\ Reading(field, j).status = FirstStatus(field, SettledIn(field, j))
           /\ Reading(field, j).phase = LastPhase(field, PhasesIn(field, j))
BY DEF Reading, FirstStatus, LastPhase, SettledIn, PhasesIn, Upto

\* The question is open after j fields: none of them settles it.
LEMMA OpenMeansUnsettled ==
    ASSUME NEW field, NEW n \in Nat, DOMAIN field = 1 .. n, NEW j \in Nat
    PROVE  /\ Reading(field, j).status = "UNDETERMINED" <=> SettledIn(field, j) = {}
           /\ SettledIn(field, j) = {} /\ j < n => Unsettled(field, j + 1)
           /\ SettledIn(field, j) # {} => ~Unsettled(field, j + 1)
<1>1. Reading(field, j).status = "UNDETERMINED" <=> SettledIn(field, j) = {}
    BY ReadingParts DEF FirstStatus
<1>2. SettledIn(field, j) # {} => ~Unsettled(field, j + 1)
    BY DEF SettledIn, Upto, Unsettled
<1>3. ASSUME SettledIn(field, j) = {}, j < n, ~Unsettled(field, j + 1)
      PROVE  FALSE
    <2> DEFINE S == {i \in 1 .. j : Settles(field[i])}
    <2>1. S # {} /\ S \in SUBSET Nat
        BY <1>3 DEF Unsettled
    <2>2. PICK m \in S : \A i \in S : m <= i
        <3> HIDE DEF S
        <3> QED
            BY <2>1, LeastNatural
    <2>3. m \in 1 .. j /\ Settles(field[m])
        OBVIOUS
    <2>4. ASSUME NEW i \in 1 .. m - 1
          PROVE  ~Settles(field[i])
        <3>1. i \in 1 .. j /\ ~(m <= i)
            BY <2>3
        <3> QED
            BY <2>2, <3>1
    <2>5. Unsettled(field, m)
        BY <2>4 DEF Unsettled
    <2>6. m \in SettledIn(field, j)
        BY <1>3, <2>3, <2>5 DEF SettledIn, Upto
    <2> QED
        BY <1>3, <2>6
<1> QED
    BY <1>1, <1>2, <1>3

\* A field behind the last, or behind one that settles the question, says nothing.
LEMMA ReadingEnds ==
    ASSUME NEW field, NEW n \in Nat, DOMAIN field = 1 .. n, NEW j \in Nat,
           j >= n \/ Reading(field, j).status # "UNDETERMINED"
    PROVE  Reading(field, j + 1) = Reading(field, j)
<1>1. j < n => ~Unsettled(field, j + 1)
    BY OpenMeansUnsettled
<1>2. Upto(field, j + 1) = Upto(field, j)
    <2>1. ASSUME NEW k \in DOMAIN field, k <= j + 1, Unsettled(field, k)
          PROVE  k <= j
        <3>1. k # j + 1
            BY <1>1, <2>1
        <3> QED
            BY <2>1, <3>1
    <2>2. \A k \in DOMAIN field : k <= j => k <= j + 1
        OBVIOUS
    <2> QED
        BY <2>1, <2>2 DEF Upto
<1> QED
    BY <1>2 DEF Reading, Upto

\* The next field while the question is open.
LEMMA ReadingGoesOn ==
    ASSUME NEW field, NEW n \in Nat, DOMAIN field = 1 .. n, NEW j \in Nat, j < n,
           Reading(field, j).status = "UNDETERMINED",
           NEW name, name = field[j + 1].name
    PROVE  /\ Reading(field, j + 1).status = StatusOf(name)
           /\ Reading(field, j + 1).phase =
                IF Phased(field, j + 1) THEN PhaseOf(name, Reading(field, j).phase)
                ELSE Reading(field, j).phase
<1> DEFINE k == j + 1
           S == SettledIn(field, k)
           P == PhasesIn(field, j)
           Q == PhasesIn(field, k)
<1>1. SettledIn(field, j) = {} /\ Unsettled(field, k)
    BY OpenMeansUnsettled
<1>2. Upto(field, k) = Upto(field, j) \cup {k}
    <2>1. k \in DOMAIN field /\ k <= k
        OBVIOUS
    <2>2. \A i \in DOMAIN field : i <= k <=> i <= j \/ i = k
        OBVIOUS
    <2> HIDE DEF k
    <2> QED
        BY <1>1, <2>1, <2>2 DEF Upto
<1>3. S = IF Settles(field[k]) THEN {k} ELSE {}
    <2> HIDE DEF k
    <2> QED
        BY <1>1, <1>2 DEF SettledIn
<1>4. Q = IF Phased(field, k) THEN P \cup {k} ELSE P
    <2> HIDE DEF k
    <2> QED
        BY <1>2 DEF PhasesIn
<1>5. \A i \in P : i \in Nat /\ i <= j
    BY DEF PhasesIn, Upto
<1>6. Reading(field, k).status = StatusOf(name)
    <2>1. Reading(field, k).status = FirstStatus(field, S)
        BY ReadingParts
    <2>2. Settles(field[k]) <=> name \in {"GET", "method", "grpc", "json"}
        BY DEF Settles
    <2>3. field[k].name = name
        OBVIOUS
    <2> HIDE DEF k, S
    <2> QED
        BY <1>3, <2>1, <2>2, <2>3 DEF FirstStatus, StatusOf
<1>7. CASE Phased(field, k)
    <2> DEFINE x == CHOOSE i \in Q : \A l \in Q : l <= i
    <2>1. k \in Q /\ \A l \in Q : l <= k /\ l \in Nat
        BY <1>4, <1>5, <1>7
    <2>2. x \in Q /\ \A l \in Q : l <= x
        <3> HIDE DEF k, Q
        <3> QED
            BY <2>1
    <2>3. x = k
        <3>1. x \in Nat /\ k \in Nat /\ x <= k /\ k <= x
            BY <2>1, <2>2
        <3> HIDE DEF x, k
        <3> QED
            BY <3>1
    <2>4. Reading(field, k).phase = LastPhase(field, Q)
        BY ReadingParts
    <2>5. LastPhase(field, Q) = IF field[x].name = "path" THEN "REQUEST" ELSE "RESPONSE"
        BY <2>1 DEF LastPhase
    <2>6. field[k].name = name /\ name \in {"path", "status"}
        BY <1>7 DEF Phased
    <2> HIDE DEF x, k, Q
    <2>7. Reading(field, k).phase = IF name = "path" THEN "REQUEST" ELSE "RESPONSE"
        BY <2>3, <2>4, <2>5, <2>6
    <2>8. Reading(field, k).phase = PhaseOf(name, Reading(field, j).phase)
        BY <2>6, <2>7 DEF PhaseOf
    <2> QED
        BY <1>6, <1>7, <2>8 DEF k
<1>8. CASE ~Phased(field, k)
    <2>1. Reading(field, k).phase = Reading(field, j).phase
        BY <1>4, <1>8, ReadingParts
    <2> QED
        BY <1>6, <1>8, <2>1
<1> QED
    BY <1>7, <1>8

-----------------------------------------------------------------------------
(* scan_headers on a header block.                                         *)

FieldSet == [name : STRING, code : ByteSeq, at : Nat]

\* The fields, one behind the other, from offset p of s to end.
Block(field, s, p, end) ==
    /\ field \in Seq(FieldSet) /\ Len(field) >= 1
    /\ \A k \in 1 .. Len(field) : /\ IsEncoding(field[k].code)
                                  /\ field[k].name = FieldName(field[k].code)
                                  /\ Has(s, field[k].at, field[k].code)
    /\ field[1].at = p
    /\ \A k \in 1 .. Len(field) - 1 : field[k + 1].at = field[k].at + Len(field[k].code)
    /\ field[Len(field)].at + Len(field[Len(field)].code) = end

LEMMA FieldTypes ==
    ASSUME NEW field \in Seq(FieldSet), NEW k \in 1 .. Len(field)
    PROVE  /\ field[k].code \in ByteSeq /\ field[k].at \in Nat
           /\ Len(field[k].code) \in Nat
<1>1. field[k] \in FieldSet
    OBVIOUS
<1>2. field[k].code \in ByteSeq /\ field[k].at \in Nat
    BY <1>1 DEF FieldSet
<1> QED
    BY <1>2 DEF ByteSeq

\* Every field ends in the block, and all but the last before its end.
LEMMA FieldsFit ==
    ASSUME NEW field, NEW s \in ByteSeq, NEW p \in Nat, NEW end, Block(field, s, p, end),
           NEW k \in 1 .. Len(field)
    PROVE  /\ end \in Nat /\ end <= Len(s)
           /\ field[k].at + Len(field[k].code) <= end
           /\ k < Len(field) => field[k].at + Len(field[k].code) < end
<1> DEFINE n == Len(field)
           behind(i) == field[i].at + Len(field[i].code)
<1>1. field \in Seq(FieldSet) /\ n \in Nat /\ n >= 1
    BY DEF Block
<1>2. \A i \in 1 .. n : behind(i) \in Nat /\ field[i].at \in Nat /\ behind(i) >= field[i].at
    BY <1>1, FieldTypes
<1>3. \A i \in 1 .. n : behind(i) > field[i].at
    <2> TAKE i \in 1 .. n
    <2>1. Len(field[i].code) \in Nat
        BY <1>1, FieldTypes
    <2>2. IsEncoding(field[i].code)
        BY DEF Block
    <2>3. Len(field[i].code) >= 1
        BY <2>1, <2>2 DEF IsEncoding
    <2>4. field[i].at \in Nat
        BY <1>1, FieldTypes
    <2> QED
        BY <2>1, <2>3, <2>4
<1>4. n \in 1 .. n /\ behind(n) = end
    BY <1>1 DEF Block
<1>5. end \in Nat
    BY <1>2, <1>4
<1>6. end <= Len(s)
    <2>1. Has(s, field[n].at, field[n].code)
        BY <1>4 DEF Block
    <2> QED
        BY <1>4, <2>1 DEF Has
<1>7. \A i \in 1 .. n - 1 : field[i + 1].at = behind(i)
    BY DEF Block
<1> HIDE DEF behind
<1>8. \A i \in 1 .. n : behind(i) <= end
    <2> DEFINE S == {j \in 0 .. n - 1 : ~(behind(n - j) <= end)}
    <2> SUFFICES S = {}
        <3> SUFFICES ASSUME NEW i \in 1 .. n, ~(behind(i) <= end)
                     PROVE  n - i \in S
            OBVIOUS
        <3>1. n - i \in 0 .. n - 1 /\ n - (n - i) = i
            BY <1>1
        <3> QED
            BY <3>1
    <2> SUFFICES ASSUME S # {}
                 PROVE  FALSE
        OBVIOUS
    <2>1. S \in SUBSET Nat
        BY <1>1
    <2>2. PICK j \in S : \A l \in S : j <= l
        <3> HIDE DEF S
        <3> QED
            BY <2>1, LeastNatural
    <2>3. j \in 0 .. n - 1 /\ ~(behind(n - j) <= end)
        OBVIOUS
    <2>4. j # 0
        <3>1. behind(n) <= end
            BY <1>4, <1>5
        <3>2. j = 0 => n - j = n
            BY <1>1
        <3> QED
            BY <2>3, <3>1, <3>2
    <2> DEFINE i == n - j
    <2>5. i \in 1 .. n - 1 /\ j - 1 \in 0 .. n - 1 /\ n - (j - 1) = i + 1 /\ ~(j <= j - 1)
        BY <1>1, <2>3, <2>4
    <2>6. behind(i + 1) <= end
        <3>1. j - 1 \notin S
            BY <2>2, <2>5
        <3> QED
            BY <2>5, <3>1
    <2> HIDE DEF i
    <2>7. i \in 1 .. n /\ i + 1 \in 1 .. n
        BY <1>1, <2>5
    <2>8. behind(i) <= end
        <3>1. behind(i) = field[i + 1].at /\ field[i + 1].at <= behind(i + 1)
            BY <1>2, <1>7, <2>5, <2>7
        <3>2. behind(i) \in Nat /\ behind(i + 1) \in Nat /\ field[i + 1].at \in Nat
            BY <1>2, <2>7
        <3> QED
            BY <1>5, <2>6, <3>1, <3>2
    <2> QED
        BY <2>3, <2>8 DEF i
<1>9. k < n => behind(k) < end
    <2> SUFFICES ASSUME k < n PROVE behind(k) < end
        OBVIOUS
    <2>1. k \in 1 .. n - 1 /\ k + 1 \in 1 .. n /\ k \in 1 .. n
        BY <1>1
    <2>2. behind(k) = field[k + 1].at /\ field[k + 1].at < behind(k + 1) /\ behind(k + 1) <= end
        BY <1>3, <1>7, <1>8, <2>1
    <2> QED
        BY <1>2, <1>5, <2>1, <2>2
<1> QED
    BY <1>5, <1>6, <1>8, <1>9 DEF behind

ScanStart(p) == [off |-> p, phase |-> "UNKNOWN", status |-> "UNDETERMINED"]

\* g is the function of ScanHeaders on 0 .. m.
ScanTo(m, g, s, p, end) ==
    g = [k \in 0 .. m |-> IF k = 0 THEN ScanStart(p) ELSE ScanHeader(g[k - 1], s, end)]

\* There is such a function: the least m without one would have a predecessor.
LEMMA ScanExists ==
    ASSUME NEW s, NEW p, NEW end
    PROVE  \A m \in Nat : \E g : ScanTo(m, g, s, p, end)
<1> DEFINE S == {m \in Nat : ~(\E g : ScanTo(m, g, s, p, end))}
<1> SUFFICES ASSUME S # {}
             PROVE  FALSE
    OBVIOUS
<1>1. PICK m \in S : \A k \in S : m <= k
    <2>1. S \in SUBSET Nat
        OBVIOUS
    <2> HIDE DEF S
    <2> QED
        BY <2>1, LeastNatural
<1>2. CASE m = 0
    <2> DEFINE g == [k \in 0 .. 0 |-> ScanStart(p)]
    <2>1. ScanTo(0, g, s, p, end)
        BY DEF ScanTo
    <2> QED
        BY <1>2, <2>1
<1>3. CASE m # 0
    <2>1. m - 1 \in Nat /\ m - 1 \notin S
        BY <1>1, <1>3
    <2>2. PICK h : ScanTo(m - 1, h, s, p, end)
        BY <2>1
    <2> DEFINE g == [k \in 0 .. m |-> IF k = 0 THEN ScanStart(p)
                                      ELSE ScanHeader(h[k - 1], s, end)]
    <2>3. \A k \in 0 .. m - 1 : g[k] = h[k]
        BY <2>2, <2>1 DEF ScanTo
    <2>4. ScanTo(m, g, s, p, end)
        BY <2>2, <2>3, <2>1 DEF ScanTo
    <2> QED
        BY <2>4
<1> QED
    BY <1>2, <1>3

LEMMA ScanUnfolds ==
    ASSUME NEW s \in ByteSeq, NEW p \in Nat, NEW n \in Nat, p + n <= Len(s)
    PROVE  \E g : ScanTo(MaxHeaders, g, s, p, p + n) /\ ScanHeaders(s, p, n) = g[MaxHeaders]
<1> DEFINE end == p + n
           f[k \in 0 .. MaxHeaders] ==
             IF k = 0 THEN ScanStart(p) ELSE ScanHeader(f[k - 1], s, end)
<1>1. MaxHeaders \in Nat
    BY ProtocolsAssumption
<1>2. f = [k \in 0 .. MaxHeaders |-> IF k = 0 THEN ScanStart(p)
                                     ELSE ScanHeader(f[k - 1], s, end)]
    <2> HIDE DEF end
    <2>1. \E g : g = [k \in 0 .. MaxHeaders |-> IF k = 0 THEN ScanStart(p)
                                                ELSE ScanHeader(g[k - 1], s, end)]
        <3>1. PICK g : ScanTo(MaxHeaders, g, s, p, end)
            BY <1>1, ScanExists
        <3> QED
            BY <3>1 DEF ScanTo
    <2> QED
        BY <2>1
<1>3. end = IF p + n < Len(s) + 1 THEN p + n ELSE Len(s) + 1
    BY DEF ByteSeq
<1>4. ScanHeaders(s, p, n) = f[MaxHeaders]
    <2> DEFINE stop == IF p + n < Len(s) + 1 THEN p + n ELSE Len(s) + 1
               h[k \in 0 .. MaxHeaders] ==
                 IF k = 0 THEN ScanStart(p) ELSE ScanHeader(h[k - 1], s, stop)
    <2>1. ScanHeaders(s, p, n) = h[MaxHeaders]
        BY DEF ScanHeaders, ScanStart
    <2>2. stop = end
        BY <1>3
    <2> HIDE DEF stop, end
    <2> QED
        BY <2>1, <2>2
<1> HIDE DEF f
<1> QED
    BY <1>2, <1>4 DEF ScanTo

\* One round at the beginning of field k.
LEMMA ScanField ==
    ASSUME NEW field, NEW s \in ByteSeq, NEW p \in Nat, NEW end, Block(field, s, p, end),
           NEW k \in 1 .. Len(field),
           NEW q, q.off = field[k].at, q.status = "UNDETERMINED"
    PROVE  LET r == ScanHeader(q, s, end)
               name == field[k].name
           IN  /\ r.status = StatusOf(name)
               /\ r.phase = IF Phased(field, k) THEN PhaseOf(name, q.phase) ELSE q.phase
               /\ StatusOf(name) = "UNDETERMINED" => r.off = field[k].at + Len(field[k].code)
<1> DEFINE n == Len(field)
           code == field[k].code
           at == field[k].at
           name == field[k].name
           r == ScanHeader(q, s, end)
<1>1. field \in Seq(FieldSet) /\ n \in Nat
    BY DEF Block
<1>2. code \in ByteSeq /\ at \in Nat /\ Len(code) \in Nat
    BY <1>1, FieldTypes
<1>3. /\ end \in Nat /\ end <= Len(s) /\ at + Len(code) <= end
      /\ k < n => at + Len(code) < end
    BY FieldsFit
<1>4. IsEncoding(code) /\ name = FieldName(code) /\ Has(s, at, code)
    BY DEF Block
<1>5. k = n => at + Len(code) = end
    BY DEF Block
<1>6. /\ name \notin {"path", "status"} => PhaseOf(name, q.phase) = q.phase
      /\ Phased(field, k) <=> name \in {"path", "status"} /\ (Len(code) = 1 => k < n)
    BY DEF PhaseOf, Phased
<1>7. q.off = at
    OBVIOUS
<1>8. CASE Len(code) = 1 /\ code[1] \in 129 .. 190
    <2>1. at + 1 < end <=> k < n
        BY <1>1, <1>2, <1>3, <1>5, <1>8
    <2>2. at < end /\ 1 \in 1 .. Len(code)
        BY <1>2, <1>3, <1>8
    <2> HIDE DEF code, at, n
    <2>3. Byte(s, at + 1 - 1) = code[1]
        BY <1>2, <1>4, <2>2, HasBytes
    <2>4. at + 1 - 1 = at
        BY <1>2
    <2>5. Byte(s, at) = code[1] /\ Byte(s, at) \in 129 .. 190
        BY <1>8, <2>3, <2>4
    <2>6. /\ r.status = StatusOf(FieldName(code))
          /\ at + 1 < end => r.phase = PhaseOf(FieldName(code), q.phase)
          /\ ~(at + 1 < end) => r.phase = q.phase
          /\ r.off = at + 1
        BY <1>2, <1>3, <1>7, <2>2, <2>5, IndexedField
    <2> HIDE DEF name, r
    <2>7. r.phase = IF Phased(field, k) THEN PhaseOf(name, q.phase) ELSE q.phase
        BY <1>4, <1>6, <1>8, <2>1, <2>6
    <2> QED
        BY <1>4, <1>8, <2>6, <2>7 DEF name, r, at, code
<1>9. CASE Len(code) >= 2 /\ code[1] \in 65 .. 126 /\ IsString(code, 2, Len(code))
    <2> HIDE DEF code, at, n
    <2>1. /\ r.status = StatusOf(FieldName(code))
          /\ r.phase = PhaseOf(FieldName(code), q.phase)
          /\ StatusOf(FieldName(code)) = "UNDETERMINED" => r.off = at + Len(code)
        BY <1>2, <1>3, <1>4, <1>7, <1>9, LiteralField
    <2>2. Len(code) # 1
        <3> DEFINE l == Len(code)
        <3>1. l >= 2 /\ l \in Nat
            BY <1>2, <1>9
        <3> HIDE DEF l
        <3>2. l # 1
            BY <3>1
        <3> QED
            BY <3>2 DEF l
    <2> HIDE DEF name, r
    <2>3. r.phase = IF Phased(field, k) THEN PhaseOf(name, q.phase) ELSE q.phase
        BY <1>4, <1>6, <2>1, <2>2
    <2> QED
        BY <1>4, <2>1, <2>3 DEF name, r, at, code
<1>10. CASE /\ Len(code) >= 3 /\ code[1] = 64
            /\ \E i \in 3 .. Len(code) : IsString(code, 2, i - 1) /\ IsString(code, i, Len(code))
    <2> HIDE DEF code, at, n
    <2>1. PICK i \in 3 .. Len(code) : IsString(code, 2, i - 1) /\ IsString(code, i, Len(code))
        BY <1>10
    <2>2. /\ FieldName(code) = "other"
          /\ r = [off |-> at + Len(code), phase |-> q.phase, status |-> "UNDETERMINED"]
        BY <1>2, <1>3, <1>4, <1>7, <1>10, <2>1, NewNameField
    <2> HIDE DEF name, r
    <2>3. name = "other" /\ StatusOf(name) = "UNDETERMINED" /\ PhaseOf(name, q.phase) = q.phase
        BY <1>4, <2>2 DEF StatusOf, PhaseOf
    <2> QED
        BY <2>2, <2>3 DEF name, r, at, code
<1> QED
    BY <1>4, <1>8, <1>9, <1>10 DEF IsEncoding

\* The cursor after k rounds is what the first k fields say, and it stands behind
\* them as long as they leave the question open.
Agrees(q, field, k, end) ==
    /\ q.status = Reading(field, k).status
    /\ q.phase = Reading(field, k).phase
    /\ q.status = "UNDETERMINED" =>
         q.off = IF k < Len(field) THEN field[k + 1].at ELSE end

LEMMA AgreesFirst ==
    ASSUME NEW field, NEW s \in ByteSeq, NEW p \in Nat, NEW end, Block(field, s, p, end)
    PROVE  Agrees(ScanStart(p), field, 0, end)
<1>1. Len(field) \in Nat /\ DOMAIN field = 1 .. Len(field) /\ 0 < Len(field)
    BY DEF Block
<1>2. Upto(field, 0) = {}
    BY <1>1 DEF Upto
<1>3. SettledIn(field, 0) = {} /\ PhasesIn(field, 0) = {}
    BY <1>2 DEF SettledIn, PhasesIn
<1>4. Reading(field, 0).status = "UNDETERMINED" /\ Reading(field, 0).phase = "UNKNOWN"
    BY <1>3, ReadingParts DEF FirstStatus, LastPhase
<1>5. field[0 + 1].at = p
    BY DEF Block
<1> QED
    BY <1>1, <1>4, <1>5 DEF Agrees, ScanStart

LEMMA AgreesNext ==
    ASSUME NEW field, NEW s \in ByteSeq, NEW p \in Nat, NEW end, Block(field, s, p, end),
           NEW k \in Nat, NEW q, Agrees(q, field, k, end)
    PROVE  Agrees(ScanHeader(q, s, end), field, k + 1, end)
<1> DEFINE n == Len(field)
           r == ScanHeader(q, s, end)
<1>1. n \in Nat /\ n >= 1 /\ DOMAIN field = 1 .. n
    BY DEF Block
<1>2. end \in Nat
    <2>1. 1 \in 1 .. Len(field)
        BY <1>1
    <2> QED
        BY <2>1, FieldsFit
<1>3. CASE q.status # "UNDETERMINED"
    <2>1. r = q
        BY <1>3 DEF ScanHeader
    <2>2. Reading(field, k + 1) = Reading(field, k)
        BY <1>1, <1>3, ReadingEnds DEF Agrees
    <2> QED
        BY <1>3, <2>1, <2>2 DEF Agrees
<1>4. CASE q.status = "UNDETERMINED" /\ k >= n
    <2>1. q.off = end
        BY <1>1, <1>4 DEF Agrees
    <2>2. r = q
        BY <1>2, <2>1 DEF ScanHeader
    <2>3. Reading(field, k + 1) = Reading(field, k)
        BY <1>1, <1>4, ReadingEnds
    <2>4. ~(k + 1 < n)
        BY <1>1, <1>4
    <2> HIDE DEF n
    <2> QED
        BY <2>1, <2>2, <2>3, <2>4 DEF Agrees, n
<1>5. CASE q.status = "UNDETERMINED" /\ k < n
    <2> DEFINE j == k + 1
               name == field[j].name
    <2>1. j \in 1 .. n /\ Reading(field, k).status = "UNDETERMINED"
        BY <1>1, <1>5 DEF Agrees
    <2>2. q.off = field[j].at
        BY <1>5 DEF Agrees
    <2>3. /\ r.status = StatusOf(name)
          /\ r.phase = IF Phased(field, j) THEN PhaseOf(name, q.phase) ELSE q.phase
          /\ StatusOf(name) = "UNDETERMINED" => r.off = field[j].at + Len(field[j].code)
        <3> HIDE DEF j
        <3> QED
            BY <1>5, <2>1, <2>2, ScanField
    <2>4. /\ Reading(field, j).status = StatusOf(name)
          /\ Reading(field, j).phase =
               IF Phased(field, j) THEN PhaseOf(name, Reading(field, k).phase)
               ELSE Reading(field, k).phase
        BY <1>1, <1>5, <2>1, ReadingGoesOn
    <2>5. field[j].at + Len(field[j].code) = IF j < n THEN field[j + 1].at ELSE end
        <3> HIDE DEF j, n
        <3>1. j < n => j \in 1 .. n - 1
            BY <1>1, <2>1
        <3>2. ~(j < n) => j = n
            BY <1>1, <2>1
        <3> USE DEF n
        <3> QED
            BY <3>1, <3>2 DEF Block
    <2>6. q.phase = Reading(field, k).phase
        BY DEF Agrees
    <2> HIDE DEF j, name, r
    <2>7. Agrees(r, field, j, end)
        BY <2>3, <2>4, <2>5, <2>6 DEF Agrees
    <2> QED
        BY <2>7 DEF j, r
<1> QED
    BY <1>1, <1>3, <1>4, <1>5

\* scan_headers reads the fields of a block.
LEMMA ScanHeadersAgree ==
    ASSUME NEW field, NEW s \in ByteSeq, NEW p \in Nat, NEW len \in Nat,
           Block(field, s, p, p + len)
    PROVE  LET r == ScanHeaders(s, p, len)
           IN  [status |-> r.status, phase |-> r.phase] = Reading(field, MaxHeaders)
<1> DEFINE end == p + len
<1>1. p + len <= Len(s)
    <2>1. 1 \in 1 .. Len(field)
        BY DEF Block
    <2> QED
        BY <2>1, FieldsFit
<1>2. PICK g : ScanTo(MaxHeaders, g, s, p, end) /\ ScanHeaders(s, p, len) = g[MaxHeaders]
    BY <1>1, ScanUnfolds
<1> DEFINE S == {k \in 0 .. MaxHeaders : ~Agrees(g[k], field, k, end)}
<1>3. MaxHeaders \in Nat
    BY ProtocolsAssumption
<1>4. S = {}
    <2> SUFFICES ASSUME S # {}
                 PROVE  FALSE
        OBVIOUS
    <2>1. S \in SUBSET Nat
        BY <1>3
    <2>2. PICK k \in S : \A l \in S : k <= l
        <3> HIDE DEF S
        <3> QED
            BY <2>1, LeastNatural
    <2>3. k \in 0 .. MaxHeaders /\ ~Agrees(g[k], field, k, end)
        OBVIOUS
    <2>4. k # 0
        <3>1. g[0] = ScanStart(p)
            BY <1>2, <1>3 DEF ScanTo
        <3> QED
            BY <2>3, <3>1, AgreesFirst
    <2>5. k - 1 \in Nat /\ k - 1 \in 0 .. MaxHeaders /\ ~(k <= k - 1) /\ k - 1 + 1 = k
        BY <1>3, <2>3, <2>4
    <2>6. Agrees(g[k - 1], field, k - 1, end)
        BY <2>2, <2>5
    <2>7. g[k] = ScanHeader(g[k - 1], s, end)
        BY <1>2, <2>3, <2>4 DEF ScanTo
    <2>8. Agrees(ScanHeader(g[k - 1], s, end), field, k - 1 + 1, end)
        <3> HIDE DEF S
        <3> QED
            BY <2>5, <2>6, AgreesNext
    <2> QED
        BY <2>3, <2>5, <2>7, <2>8
<1>5. Agrees(g[MaxHeaders], field, MaxHeaders, end)
    BY <1>3, <1>4
<1>6. Reading(field, MaxHeaders) = [status |-> Reading(field, MaxHeaders).status,
                                    phase |-> Reading(field, MaxHeaders).phase]
    BY DEF Reading
<1> QED
    BY <1>2, <1>5, <1>6 DEF Agrees

-----------------------------------------------------------------------------
(* judge_rpc on the frames of a packet.                                    *)

FrameStart(s) ==
    IF Len(s) > Len(Http2Preface) /\ Has(s, 0, Http2Preface) THEN Len(Http2Preface) ELSE 0

FrameNext(s, p) ==
    IF p >= 0 /\ IsFrame(s, p) THEN p + 9 + FrameLength(s, p) ELSE -1

\* f is the function of JudgeRpc on 0 .. m.
FramesTo(m, f, s) ==
    f = [k \in 0 .. m |-> IF k = 0 THEN FrameStart(s) ELSE FrameNext(s, f[k - 1])]

\* There is such a function, as for ScanTo.
LEMMA FramesExist ==
    ASSUME NEW s
    PROVE  \A m \in Nat : \E f : FramesTo(m, f, s)
<1> DEFINE S == {m \in Nat : ~(\E f : FramesTo(m, f, s))}
<1> SUFFICES ASSUME S # {}
             PROVE  FALSE
    OBVIOUS
<1>1. PICK m \in S : \A k \in S : m <= k
    <2>1. S \in SUBSET Nat
        OBVIOUS
    <2> HIDE DEF S
    <2> QED
        BY <2>1, LeastNatural
<1>2. CASE m = 0
    <2> DEFINE g == [k \in 0 .. 0 |-> FrameStart(s)]
    <2>1. FramesTo(0, g, s)
        BY DEF FramesTo
    <2> QED
        BY <1>2, <2>1
<1>3. CASE m # 0
    <2>1. m - 1 \in Nat /\ m - 1 \notin S
        BY <1>1, <1>3
    <2>2. PICK h : FramesTo(m - 1, h, s)
        BY <2>1
    <2> DEFINE g == [k \in 0 .. m |-> IF k = 0 THEN FrameStart(s) ELSE FrameNext(s, h[k - 1])]
    <2>3. \A k \in 0 .. m - 1 : g[k] = h[k]
        BY <2>2, <2>1 DEF FramesTo
    <2>4. FramesTo(m, g, s)
        BY <2>2, <2>3, <2>1 DEF FramesTo
    <2> QED
        BY <2>4
<1> QED
    BY <1>2, <1>3

\* The HEADERS frames among the first MaxFrames.
HeadersIn(f, s) ==
    {k \in 0 .. MaxFrames - 1 : f[k] >= 0 /\ IsFrame(s, f[k]) /\ Byte(s, f[k] + 3) = 1}

LEMMA JudgeUnfolds ==
    ASSUME NEW s
    PROVE  \E f : /\ FramesTo(MaxFrames - 1, f, s)
                  /\ HeadersIn(f, s) # {} =>
                       LET first == CHOOSE k \in HeadersIn(f, s) :
                                      \A i \in HeadersIn(f, s) : k <= i
                       IN  JudgeRpc(s) = ScanHeaders(s, f[first] + 9, FrameLength(s, f[first]))
<1> DEFINE f[k \in 0 .. MaxFrames - 1] ==
             IF k = 0 THEN FrameStart(s)
             ELSE IF f[k - 1] >= 0 /\ IsFrame(s, f[k - 1])
                  THEN f[k - 1] + 9 + FrameLength(s, f[k - 1]) ELSE -1
<1>1. MaxFrames - 1 \in Nat
    BY ProtocolsAssumption
<1>2. \E g : g = [k \in 0 .. MaxFrames - 1 |->
                    IF k = 0 THEN FrameStart(s)
                    ELSE IF g[k - 1] >= 0 /\ IsFrame(s, g[k - 1])
                         THEN g[k - 1] + 9 + FrameLength(s, g[k - 1]) ELSE -1]
    <2>1. PICK g : FramesTo(MaxFrames - 1, g, s)
        BY <1>1, FramesExist
    <2> QED
        BY <2>1 DEF FramesTo, FrameNext
<1>3. f = [k \in 0 .. MaxFrames - 1 |->
             IF k = 0 THEN FrameStart(s)
             ELSE IF f[k - 1] >= 0 /\ IsFrame(s, f[k - 1])
                  THEN f[k - 1] + 9 + FrameLength(s, f[k - 1]) ELSE -1]
    BY <1>2
<1>4. HeadersIn(f, s) # {} =>
        LET first == CHOOSE k \in HeadersIn(f, s) : \A i \in HeadersIn(f, s) : k <= i
        IN  JudgeRpc(s) = ScanHeaders(s, f[first] + 9, FrameLength(s, f[first]))
    BY DEF JudgeRpc, HeadersIn, FrameStart
<1> HIDE DEF f
<1>5. FramesTo(MaxFrames - 1, f, s)
    BY <1>3 DEF FramesTo, FrameNext
<1> QED
    BY <1>4, <1>5

LEMMA FrameLengthType ==
    ASSUME NEW s \in ByteSeq, NEW p \in Nat
    PROVE  FrameLength(s, p) \in Nat
<1>1. p + 1 \in Nat /\ p + 2 \in Nat
    OBVIOUS
<1>2. Byte(s, p) \in 0 .. 255 /\ Byte(s, p + 1) \in 0 .. 255 /\ Byte(s, p + 2) \in 0 .. 255
    BY <1>1, StringLengthType
<1> DEFINE a == Byte(s, p)
           b == Byte(s, p + 1)
           c == Byte(s, p + 2)
<1>3. FrameLength(s, p) = (a * 256 + b) * 256 + c
    BY DEF FrameLength
<1> HIDE DEF a, b, c
<1>4. a \in Nat /\ b \in Nat /\ c \in Nat
    BY <1>2 DEF a, b, c
<1> QED
    BY <1>3, <1>4

\* judge_rpc finds the frames where they are, and so the fields.
LEMMA HeadersAgree ==
    ASSUME NEW p, p.bytes \in ByteSeq, IsHeaders(p)
    PROVE  LET r == JudgeRpc(p.bytes)
           IN  [status |-> r.status, phase |-> r.phase] = Reading(p.fields, MaxHeaders)
<1> DEFINE s == p.bytes
           frame == p.frames
           field == p.fields
           m == Len(frame)
<1>1. /\ frame \in Seq(Nat) /\ m \in 1 .. MaxFrames
      /\ frame[1] = IF Has(s, 0, Http2Preface) THEN Len(Http2Preface) ELSE 0
      /\ \A k \in 1 .. m : IsFrame(s, frame[k]) /\ (Byte(s, frame[k] + 3) = 1 <=> k = m)
      /\ \A k \in 1 .. m - 1 : frame[k + 1] = frame[k] + 9 + FrameLength(s, frame[k])
    BY DEF IsHeaders
<1>2. m \in Nat /\ MaxFrames \in Nat /\ m >= 1 /\ m <= MaxFrames
    BY <1>1, ProtocolsAssumption
<1>3. \A k \in 1 .. m : frame[k] \in Nat
    BY <1>1
<1>4. Block(field, s, frame[m] + 9, frame[m] + 9 + FrameLength(s, frame[m]))
    BY DEF IsHeaders, Block, FieldSet, ByteSeq
<1> HIDE DEF s, frame, field, m
<1>5. s \in ByteSeq
    BY DEF s
<1>6. FrameStart(s) = frame[1]
    <2>1. IsFrame(s, frame[1])
        BY <1>1, <1>2
    <2>2. Http2Preface \in Seq(0 .. 255) /\ Len(Http2Preface) \in Nat /\ Len(s) \in Nat
        BY <1>5, ProtocolsAssumption DEF ByteSeq
    <2>3. Has(s, 0, Http2Preface) => Len(s) > Len(Http2Preface)
        BY <1>1, <2>1, <2>2 DEF IsFrame
    <2> QED
        BY <1>1, <2>3 DEF FrameStart
<1>7. PICK f : /\ FramesTo(MaxFrames - 1, f, s)
               /\ HeadersIn(f, s) # {} =>
                    LET first == CHOOSE k \in HeadersIn(f, s) :
                                   \A i \in HeadersIn(f, s) : k <= i
                    IN  JudgeRpc(s) = ScanHeaders(s, f[first] + 9, FrameLength(s, f[first]))
    BY JudgeUnfolds
<1>8. \A k \in 0 .. m - 1 : f[k] = frame[k + 1]
    <2> DEFINE S == {k \in 0 .. m - 1 : f[k] # frame[k + 1]}
    <2> SUFFICES ASSUME S # {}
                 PROVE  FALSE
        OBVIOUS
    <2>1. S \in SUBSET Nat
        BY <1>2
    <2>2. PICK k \in S : \A l \in S : k <= l
        <3> HIDE DEF S
        <3> QED
            BY <2>1, LeastNatural
    <2>3. k \in 0 .. m - 1 /\ f[k] # frame[k + 1] /\ k \in 0 .. MaxFrames - 1
        BY <1>2
    <2>4. k # 0
        <3>1. f[0] = FrameStart(s)
            BY <1>2, <1>7 DEF FramesTo
        <3> QED
            BY <1>6, <2>3, <3>1
    <2>5. k \in 1 .. m - 1 /\ k \in 1 .. m /\ k - 1 \in 0 .. m - 1 /\ ~(k <= k - 1) /\ k - 1 + 1 = k
        BY <1>2, <2>3, <2>4
    <2>6. f[k - 1] = frame[k]
        <3>1. f[k - 1] = frame[k - 1 + 1]
            BY <2>2, <2>5
        <3> QED
            BY <2>5, <3>1
    <2>7. f[k] = FrameNext(s, f[k - 1])
        BY <1>7, <2>3, <2>4 DEF FramesTo
    <2>8. frame[k] >= 0 /\ IsFrame(s, frame[k])
        <3>1. frame[k] \in Nat
            BY <1>3, <2>5
        <3>2. IsFrame(s, frame[k])
            BY <1>1, <2>5
        <3> QED
            BY <3>1, <3>2
    <2>9. f[k] = frame[k] + 9 + FrameLength(s, frame[k])
        BY <2>6, <2>7, <2>8 DEF FrameNext
    <2>10. frame[k + 1] = frame[k] + 9 + FrameLength(s, frame[k])
        BY <1>1, <2>5
    <2> QED
        BY <2>3, <2>9, <2>10
<1> DEFINE H == HeadersIn(f, s)
           first == CHOOSE k \in H : \A i \in H : k <= i
<1>9. \A k \in 0 .. m - 1 : k \in H <=> k = m - 1
    <2> TAKE k \in 0 .. m - 1
    <2>1. k + 1 \in 1 .. m /\ k \in 0 .. MaxFrames - 1 /\ (k + 1 = m <=> k = m - 1)
        BY <1>2
    <2>2. f[k] = frame[k + 1]
        BY <1>8
    <2>3. f[k] >= 0 /\ IsFrame(s, f[k]) /\ (Byte(s, f[k] + 3) = 1 <=> k + 1 = m)
        BY <1>1, <1>3, <2>1, <2>2
    <2> QED
        BY <2>1, <2>3 DEF HeadersIn
<1>10. H \subseteq Nat
    BY DEF HeadersIn
<1>11. m - 1 \in H /\ \A i \in H : m - 1 <= i
    <2>1. m - 1 \in 0 .. m - 1
        BY <1>2
    <2>2. ASSUME NEW i \in H, ~(m - 1 <= i)
          PROVE  FALSE
        <3>1. i \in Nat
            BY <1>10
        <3>2. i \in 0 .. m - 1 /\ i # m - 1
            BY <1>2, <2>2, <3>1
        <3> QED
            BY <1>9, <3>2
    <2> QED
        BY <1>9, <2>1, <2>2
<1>12. first = m - 1
    <2> HIDE DEF H
    <2>1. first \in H /\ \A i \in H : first <= i
        BY <1>11
    <2>2. first <= m - 1 /\ m - 1 <= first /\ first \in Nat /\ m - 1 \in Nat
        BY <1>2, <1>10, <1>11, <2>1
    <2> HIDE DEF first
    <2> QED
        BY <1>2, <2>2
<1>13. f[first] = frame[m]
    <2>1. m - 1 \in 0 .. m - 1 /\ m - 1 + 1 = m
        BY <1>2
    <2> HIDE DEF first
    <2> QED
        BY <1>8, <1>12, <2>1
<1>14. JudgeRpc(s) = ScanHeaders(s, f[first] + 9, FrameLength(s, f[first]))
    BY <1>7, <1>11
<1>15. JudgeRpc(s) = ScanHeaders(s, frame[m] + 9, FrameLength(s, frame[m]))
    <2> HIDE DEF first
    <2> QED
        BY <1>13, <1>14
<1>16. frame[m] \in Nat /\ frame[m] + 9 \in Nat /\ FrameLength(s, frame[m]) \in Nat
    <2>1. frame[m] \in Nat
        BY <1>2, <1>3
    <2> QED
        BY <1>5, <2>1, FrameLengthType
<1> DEFINE at == frame[m] + 9
           len == FrameLength(s, frame[m])
           r == ScanHeaders(s, at, len)
<1>17. [status |-> r.status, phase |-> r.phase] = Reading(field, MaxHeaders)
    <2>1. Block(field, s, at, at + len)
        BY <1>4
    <2>2. at \in Nat /\ len \in Nat
        BY <1>16
    <2> HIDE DEF at, len
    <2> QED
        BY <1>5, <2>1, <2>2, ScanHeadersAgree
<1> QED
    BY <1>15, <1>17 DEF s, field

\* The packet in the filter is one that may come.
KnownPacket == last # None => \E t \in Tuple : last.packet \in Packets[t]

\* Whatever frames and fields a packet has, in whatever order and number: for a
\* HEADERS frame judge_rpc and scan_headers find the status and the phase that
\* the fields, read one by one, have.
THEOREM ScanReadsFields == Spec => []ScanAgrees
<1>1. Init => KnownPacket
    BY DEF Init, KnownPacket
<1>2. KnownPacket /\ [Next]_vars => KnownPacket'
    <2> SUFFICES ASSUME KnownPacket, [Next]_vars PROVE KnownPacket'
        OBVIOUS
    <2>1. ASSUME NEW t \in Tuple, NEW p \in Packets[t],
                 OtherPacket(t, p) \/ Http2Packet(t, p) \/ AmqpPacket(t, p)
          PROVE  KnownPacket'
        <3>1. last'.packet = p
            BY <2>1 DEF OtherPacket, Http2Packet, AmqpPacket, Result
        <3> QED
            BY <3>1 DEF KnownPacket
    <2>2. CASE Done
        BY <2>2 DEF Done, KnownPacket
    <2>3. CASE UNCHANGED vars
        BY <2>3 DEF vars, KnownPacket
    <2> QED
        BY <2>1, <2>2, <2>3 DEF Next
<1>3. KnownPacket => ScanAgrees
    <2> SUFFICES ASSUME KnownPacket, last # None, last.packet.fields # None
                 PROVE  LET r == JudgeRpc(last.packet.bytes)
                        IN  [status |-> r.status, phase |-> r.phase]
                              = Reading(last.packet.fields, MaxHeaders)
        BY DEF ScanAgrees
    <2>1. PICK t \in Tuple : last.packet \in Packets[t]
        BY DEF KnownPacket
    <2>2. last.packet.bytes \in ByteSeq /\ IsHeaders(last.packet)
        BY <2>1, PacketsAssumption DEF ByteSeq
    <2> QED
        BY <2>2, HeadersAgree
<1> QED
    BY <1>1, <1>2, <1>3, PTL DEF Spec
=============================================================================
