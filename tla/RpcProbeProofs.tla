--------------------------- MODULE RpcProbeProofs ---------------------------
(***************************************************************************)
(* Theorems about the rpc probe, for any number of connections, CPUs,      *)
(* sequence numbers, requests and traces and any capacity of the maps and  *)
(* of the channel.                                                         *)
(***************************************************************************)
EXTENDS RpcProbe, TLAPS

\* Reversing a tuple gives a tuple of the same connection.
LEMMA FlipTuple ==
    ASSUME NEW t \in Tuple
    PROVE  Flip(t) \in Tuple /\ Flip(t)[1] = t[1] /\ Flip(Flip(t)) = t
BY DEF Flip, Tuple

\* What receiving the head of a channel leaves in it.
LEMMA HeadTail ==
    ASSUME NEW S, NEW q \in Seq(S), q # <<>>
    PROVE  /\ Head(q) \in S /\ Head(q) = q[1] /\ 1 \in DOMAIN q
           /\ Tail(q) \in Seq(S)
           /\ \A n \in DOMAIN Tail(q) :
                  n + 1 \in DOMAIN q /\ n + 1 # 1 /\ Tail(q)[n] = q[n + 1]
           /\ \A n \in DOMAIN q :
                  n # 1 => n - 1 \in DOMAIN Tail(q) /\ Tail(q)[n - 1] = q[n]
OBVIOUS

\* What sending an element leaves in a channel.
LEMMA AppendSeq ==
    ASSUME NEW S, NEW q \in Seq(S), NEW e \in S
    PROVE  /\ Append(q, e) \in Seq(S)
           /\ Len(q) + 1 \notin DOMAIN q
           /\ DOMAIN Append(q, e) = DOMAIN q \cup {Len(q) + 1}
           /\ \A n \in DOMAIN q : Append(q, e)[n] = q[n]
           /\ Append(q, e)[Len(q) + 1] = e
OBVIOUS

\* The initial state satisfies the inductive invariant.
LEMMA InitIInv == Init => IInv
<1> SUFFICES ASSUME Init PROVE IInv
    OBVIOUS
<1> USE RpcProbeAssumption, NoneIsNoRecord DEF Init
<1>1. TypeOK
    <2>1. Ch \in Seq(TraceId) /\ clock \in 0 .. MaxTime
        OBVIOUS
    <2>2. reader \in [pc : {"next", "delete", "send"},
                     key : TcpSeq \cup {None}, val : TraceId \cup {None}]
        OBVIOUS
    <2> QED
        BY <2>1, <2>2 DEF TypeOK, Fates
<1>2. Conserved /\ OnePlace
    BY DEF Conserved, OnePlace, OnCpu, InMap, InHand, InCh, AtSender
<1>3. DeleteFindsKey /\ RequestOfThePod /\ OneTracePerRequest /\ LostToSameSeq
      /\ DurationExact
    BY DEF DeleteFindsKey, RequestOfThePod, OneTracePerRequest, LostToSameSeq,
           DurationExact, Made, Whole, InOrder
<1>4. Held /\ Recorded /\ InFlight /\ OneAtATime
    BY DEF Held, Recorded, InFlight, OneAtATime, Made, InOrder
<1> QED
    BY <1>1, <1>2, <1>3, <1>4 DEF IInv

\* The trace that a response builds is well typed.
LEMMA TraceOfType ==
    ASSUME TypeOK, Recorded, NEW t \in Tuple, NEW type \in RpcTypes,
           NEW s \in TcpSeq,
           grpc_request_map[Flip(t)] # None
    PROVE  TraceOf(t, type, s) \in Trace
<1> DEFINE req == grpc_request_map[Flip(t)]
<1>1. req \in RequestId /\ asked[req] \in Request
    BY FlipTuple DEF TypeOK, Recorded
<1>2. asked[req].start \in Int /\ clock \in Int /\ Word \in Int /\ Word > 0
    BY <1>1, RpcProbeAssumption DEF Request, TypeOK
<1>3. (clock - asked[req].start) % Word \in 0 .. (Word - 1)
    BY <1>2
<1> QED
    BY <1>1, <1>3, FlipTuple DEF TraceOf, Trace, TypeOK

\* Every step keeps the types.
LEMMA StepTypeOK == IInv /\ [Next]_vars => TypeOK'
<1> SUFFICES ASSUME IInv, [Next]_vars PROVE TypeOK'
    OBVIOUS
<1> USE RpcProbeAssumption DEF IInv, TypeOK
<1>1. CASE Tick
    BY <1>1 DEF Tick
<1>2. CASE PutFilter
    BY <1>2 DEF PutFilter
<1>3. ASSUME NEW r \in RequestId, NEW t \in Tuple, NEW ping \in BOOLEAN,
             RequestPacket(r, t, ping)
      PROVE  TypeOK'
    <2>1. clock % Word \in 0 .. (Word - 1)
        OBVIOUS
    <2>2. [tuple |-> t, ping |-> ping, start |-> clock % Word, at |-> clock,
           filtered |-> filter_map] \in Request
        BY <2>1 DEF Request
    <2> QED
        BY <1>3, <2>2 DEF RequestPacket, UpdateElem
<1>4. ASSUME NEW k \in CPU, NEW i \in TraceId, NEW t \in Tuple,
             NEW type \in RpcTypes, NEW s \in TcpSeq,
             ResponseLookup(k, i, t, type, s)
      PROVE  TypeOK'
    <2>1. TraceOf(t, type, s) \in Trace
        BY <1>4, TraceOfType DEF ResponseLookup
    <2> QED
        BY <1>4, <2>1 DEF ResponseLookup, Fates
<1>5. ASSUME NEW k \in CPU, ResponseStore(k) PROVE TypeOK'
    BY <1>5 DEF ResponseStore, UpdateElem, RequestsAfter, Fates
<1>6. ASSUME NEW s \in TcpSeq, ReaderNext(s) PROVE TypeOK'
    BY <1>6 DEF ReaderNext
<1>7. CASE ReaderDelete
    BY <1>7 DEF ReaderDelete, Fates
<1>8. CASE ReaderSend
    <2>1. reader.val \in TraceId
        BY <1>8 DEF ReaderSend, Held
    <2>2. Ch' \in Seq(TraceId)
        BY <1>8, <2>1, AppendSeq DEF ReaderSend
    <2> QED
        BY <1>8, <2>2 DEF ReaderSend
<1>9. CASE SenderReceive
    <2>1. Head(Ch) \in TraceId /\ Ch' \in Seq(TraceId)
        BY <1>9, HeadTail DEF SenderReceive
    <2> QED
        BY <1>9, <2>1 DEF SenderReceive, Fates
<1>10. CASE SenderForward
    BY <1>10 DEF SenderForward, Fates
<1>11. CASE UNCHANGED vars
    BY <1>11 DEF vars
<1>12. ASSUME NEW k \in CPU, CopyOvertaken(k) PROVE TypeOK'
    <2>1. cpu[k] \in TraceId /\ made[cpu[k]] \in Trace
        BY <1>12 DEF CopyOvertaken, Conserved, OnCpu, Recorded
    <2>2. [made[cpu[k]] EXCEPT !.torn = TRUE] \in Trace
        BY <2>1 DEF Trace
    <2>3. made' = [made EXCEPT ![cpu[k]] = [made[cpu[k]] EXCEPT !.torn = TRUE]]
        BY <1>12 DEF CopyOvertaken
    <2> QED
        BY <1>12, <2>1, <2>2, <2>3 DEF CopyOvertaken
<1> QED
    BY <1>1, <1>2, <1>3, <1>4, <1>5, <1>6, <1>7, <1>8, <1>9, <1>10, <1>11, <1>12
       DEF Next

-----------------------------------------------------------------------------
(* Where traces are.                                                       *)

\* A trace in a map slot or in a goroutine's hands is flying and has a
\* record; a slot holds the value the reader has taken only at its own key.
LEMMA HeldIsMade ==
    ASSUME IInv
    PROVE  /\ \A s \in TcpSeq : grpc_trace_map[s] # None =>
                  /\ grpc_trace_map[s] \in TraceId
                  /\ fate[grpc_trace_map[s]] = "flying"
           /\ \A k \in CPU : cpu[k] # None =>
                  cpu[k] \in TraceId /\ fate[cpu[k]] = "flying"
           /\ reader.pc # "next" =>
                  reader.val \in TraceId /\ fate[reader.val] = "flying"
           /\ \A s \in TcpSeq : grpc_trace_map[s] # None =>
                  (Taken(s) <=> /\ reader.pc = "delete" /\ s = reader.key
                                /\ grpc_trace_map[s] = reader.val)
           /\ \A i \in TraceId : fate[i] # "none" => made[i] \in Trace
<1> USE RpcProbeAssumption DEF IInv, TypeOK
<1>1. \A k \in CPU : cpu[k] # None =>
         cpu[k] \in TraceId /\ fate[cpu[k]] = "flying"
    BY DEF Conserved, OnCpu
<1>2. reader.pc # "next" =>
         reader.val \in TraceId /\ fate[reader.val] = "flying"
    BY DEF Held, Conserved, InHand
<1>3. \A s \in TcpSeq : grpc_trace_map[s] # None =>
         /\ grpc_trace_map[s] \in TraceId
         /\ fate[grpc_trace_map[s]] = "flying"
    BY <1>2 DEF Conserved, InMap, Taken
<1>4. \A s \in TcpSeq : grpc_trace_map[s] # None =>
         (Taken(s) <=> /\ reader.pc = "delete" /\ s = reader.key
                       /\ grpc_trace_map[s] = reader.val)
    BY <1>2, <1>3 DEF Taken, Held
<1>5. \A i \in TraceId : fate[i] # "none" => made[i] \in Trace
    BY DEF Recorded
<1> QED
    BY <1>1, <1>2, <1>3, <1>4, <1>5

\* No hand-over between filter, maps, goroutines and channels forgets a
\* trace, revives one or copies one.
LEMMA StepPlaces == IInv /\ [Next]_vars => (Conserved /\ OnePlace)'
<1> SUFFICES ASSUME IInv, [Next]_vars PROVE (Conserved /\ OnePlace)'
    OBVIOUS
<1>0. ASSUME UNCHANGED <<grpc_trace_map, cpu, reader, Ch, sender, fate>>
      PROVE  (Conserved /\ OnePlace)'
    BY <1>0 DEF IInv, Conserved, OnePlace, OnCpu, InMap, InHand, InCh,
                AtSender, Taken
<1>1. CASE Tick
    BY <1>0, <1>1 DEF Tick
<1>2. CASE PutFilter
    BY <1>0, <1>2 DEF PutFilter
<1>3. ASSUME NEW r \in RequestId, NEW t \in Tuple, NEW ping \in BOOLEAN,
             RequestPacket(r, t, ping)
      PROVE  (Conserved /\ OnePlace)'
    BY <1>0, <1>3 DEF RequestPacket
<1>4. ASSUME NEW k \in CPU, NEW i \in TraceId, NEW t \in Tuple,
             NEW type \in RpcTypes, NEW s \in TcpSeq,
             ResponseLookup(k, i, t, type, s)
      PROVE  (Conserved /\ OnePlace)'
    <2> USE <1>4, RpcProbeAssumption DEF ResponseLookup
    <2>1. \A j \in TraceId : OnCpu(j)' <=> OnCpu(j) \/ j = i
        BY DEF IInv, TypeOK, OnCpu
    <2>2. \A j \in TraceId : /\ InMap(j)' <=> InMap(j)
                             /\ InHand(j)' <=> InHand(j)
                             /\ InCh(j)' <=> InCh(j)
                             /\ AtSender(j)' <=> AtSender(j)
        BY DEF InMap, InHand, InCh, AtSender, Taken
    <2>3. ~(OnCpu(i) \/ InMap(i) \/ InHand(i) \/ InCh(i) \/ AtSender(i))
        BY DEF IInv, Conserved
    <2>4. \A j \in TraceId : fate'[j] = IF j = i THEN "flying" ELSE fate[j]
        BY DEF IInv, TypeOK
    <2>5. Conserved'
        BY <2>1, <2>2, <2>4 DEF IInv, Conserved
    <2>6. \A j \in TraceId : \A l, m \in CPU :
             cpu'[l] = j /\ cpu'[m] = j => l = m
        BY <2>3 DEF IInv, TypeOK, OnePlace, OnCpu
    <2> QED
        BY <2>1, <2>2, <2>3, <2>5, <2>6 DEF IInv, OnePlace
<1>5. ASSUME NEW k \in CPU, ResponseStore(k) PROVE (Conserved /\ OnePlace)'
    <2> DEFINE i == cpu[k]
               s == made[i].seq
               old == grpc_trace_map[s]
               fits == Fits(grpc_trace_map, s, TraceMax)
    <2>0. /\ i \in TraceId /\ OnCpu(i) /\ s \in TcpSeq /\ i # None
          /\ old \in TraceId \cup {None}
          /\ reader.pc # "next" => reader.val # i
        BY <1>5, HeldIsMade, RpcProbeAssumption
           DEF ResponseStore, IInv, TypeOK, OnCpu, OnePlace, InHand, Trace
    <2>1. \A j \in TraceId : OnCpu(j)' <=> OnCpu(j) /\ j # i
        BY <1>5, <2>0, RpcProbeAssumption
           DEF ResponseStore, IInv, TypeOK, OnePlace, OnCpu
    <2>2. \A j \in TraceId : /\ InHand(j)' <=> InHand(j)
                             /\ InCh(j)' <=> InCh(j)
                             /\ AtSender(j)' <=> AtSender(j)
        BY <1>5 DEF ResponseStore, InHand, InCh, AtSender
    <2>3. \A j \in TraceId : \A l, m \in CPU :
             cpu'[l] = j /\ cpu'[m] = j => l = m
        BY <1>5, RpcProbeAssumption DEF ResponseStore, IInv, TypeOK, OnePlace
    <2>4. \A u \in TcpSeq : grpc_trace_map[u] # i
        BY <2>0, HeldIsMade DEF IInv, OnePlace, InMap, Taken, InHand
    <2>5. CASE ~fits
        <3>1. UNCHANGED grpc_trace_map /\ UNCHANGED reader
            BY <1>5, <2>5 DEF ResponseStore, UpdateElem, KeyOf
        <3>2. \A j \in TraceId : InMap(j)' <=> InMap(j)
            BY <3>1 DEF InMap, Taken
        <3>3. \A j \in TraceId :
                 fate'[j] = IF j = i THEN "rejected" ELSE fate[j]
            BY <1>5, <2>0, <2>5 DEF ResponseStore, KeyOf, IInv, TypeOK
        <3>4. Conserved'
            BY <2>0, <2>1, <2>2, <3>2, <3>3 DEF IInv, Conserved, OnePlace
        <3>5. UNCHANGED Ch
            BY <1>5 DEF ResponseStore
        <3> QED
            BY <2>1, <2>2, <2>3, <3>1, <3>2, <3>4, <3>5 DEF IInv, OnePlace
    <2>6. CASE fits
        <3>1. /\ grpc_trace_map' = [grpc_trace_map EXCEPT ![s] = i]
              /\ UNCHANGED reader
            BY <1>5, <2>6 DEF ResponseStore, UpdateElem, KeyOf
        <3>2. \A u \in TcpSeq :
                 grpc_trace_map'[u] = IF u = s THEN i ELSE grpc_trace_map[u]
            BY <2>0, <3>1 DEF IInv, TypeOK
        <3>3. \A j \in TraceId :
                 InMap(j)' <=> j = i \/ (InMap(j) /\ j # old)
            BY <2>0, <2>4, <3>1, <3>2 DEF InMap, Taken, IInv, OnePlace
        <3>4. old # None /\ ~Taken(s) => InMap(old)
            BY <2>0 DEF InMap
        <3>5. old # None /\ Taken(s) => InHand(old) /\ ~InMap(old)
            BY <2>0 DEF InMap, InHand, Taken
        <3>6. \A j \in TraceId :
                 fate'[j] = IF j = old /\ ~Taken(s) THEN "overwritten"
                            ELSE fate[j]
            BY <1>5, <2>0, <2>6, RpcProbeAssumption
               DEF ResponseStore, KeyOf, IInv, TypeOK
        <3>7. i # old
            BY <2>0, <2>4
        <3>8. Conserved'
            <4> SUFFICES ASSUME NEW j \in TraceId
                         PROVE  fate'[j] = "flying" <=>
                                    \/ OnCpu(j)' \/ InMap(j)' \/ InHand(j)'
                                    \/ InCh(j)' \/ AtSender(j)'
                BY DEF Conserved
            <4> HIDE DEF i, s, old
            <4>1. CASE j = i
                BY <4>1, <2>0, <3>3, <3>6, <3>7 DEF IInv, Conserved
            <4>2. CASE j = old /\ ~Taken(s)
                BY <4>2, <2>0, <2>1, <2>2, <3>3, <3>4, <3>6, <3>7,
                   RpcProbeAssumption DEF IInv, OnePlace
            <4>3. CASE j # i /\ ~(j = old /\ ~Taken(s))
                <5>1. InMap(j)' <=> InMap(j)
                    BY <4>3, <3>3, <3>5, RpcProbeAssumption
                <5> QED
                    BY <4>3, <5>1, <2>1, <2>2, <3>6 DEF IInv, Conserved
            <4> QED
                BY <4>1, <4>2, <4>3
        <3>9. \A j \in TraceId : \A u, v \in TcpSeq :
                 grpc_trace_map'[u] = j /\ grpc_trace_map'[v] = j => u = v
            BY <2>4, <3>2 DEF IInv, OnePlace
        <3>10. UNCHANGED Ch
            BY <1>5 DEF ResponseStore
        <3> QED
            BY <2>0, <2>1, <2>2, <2>3, <3>3, <3>8, <3>9, <3>10
               DEF IInv, OnePlace
    <2> QED
        BY <2>5, <2>6
<1>6. ASSUME NEW s \in TcpSeq, ReaderNext(s) PROVE (Conserved /\ OnePlace)'
    <2> DEFINE v == grpc_trace_map[s]
    <2>0. v \in TraceId /\ InMap(v) /\ reader.pc = "next"
        BY <1>6, HeldIsMade, RpcProbeAssumption DEF ReaderNext, InMap, Taken
    <2>1. /\ UNCHANGED <<grpc_trace_map, cpu, Ch, sender, fate>>
          /\ reader' = [pc |-> "delete", key |-> s, val |-> v]
        BY <1>6 DEF ReaderNext
    <2>2. \A j \in TraceId : /\ OnCpu(j)' <=> OnCpu(j)
                             /\ InCh(j)' <=> InCh(j)
                             /\ AtSender(j)' <=> AtSender(j)
        BY <2>1 DEF OnCpu, InCh, AtSender
    <2>3. \A j \in TraceId : /\ InHand(j)' <=> j = v
                             /\ ~InHand(j)
        BY <2>0, <2>1 DEF InHand
    <2>4. \A j \in TraceId : InMap(j)' <=> InMap(j) /\ j # v
        BY <2>0, <2>1 DEF InMap, Taken
    <2> HIDE DEF v
    <2>5. Conserved'
        BY <2>0, <2>1, <2>2, <2>3, <2>4 DEF IInv, Conserved
    <2> QED
        BY <2>0, <2>1, <2>2, <2>3, <2>4, <2>5 DEF IInv, OnePlace
<1>7. CASE ReaderDelete
    <2> DEFINE key == reader.key
               now == grpc_trace_map[key]
    <2>0. /\ key \in TcpSeq /\ now \in TraceId /\ reader.pc = "delete"
          /\ reader.val \in TraceId
        BY <1>7, HeldIsMade, RpcProbeAssumption
           DEF ReaderDelete, IInv, TypeOK, Held
    <2>1. /\ UNCHANGED <<cpu, Ch, sender>>
          /\ reader'.pc = "send" /\ reader'.val = reader.val
        BY <1>7 DEF ReaderDelete, IInv, TypeOK
    <2>2. \A u \in TcpSeq :
             grpc_trace_map'[u] = IF u = key THEN None ELSE grpc_trace_map[u]
        BY <1>7, <2>0 DEF ReaderDelete, IInv, TypeOK
    <2>3. \A j \in TraceId : /\ OnCpu(j)' <=> OnCpu(j)
                             /\ InCh(j)' <=> InCh(j)
                             /\ AtSender(j)' <=> AtSender(j)
                             /\ InHand(j)' <=> InHand(j)
        BY <2>0, <2>1 DEF OnCpu, InCh, AtSender, InHand
    <2>4. \A u \in TcpSeq : grpc_trace_map[u] # None =>
             (Taken(u) <=> u = key /\ grpc_trace_map[u] = reader.val)
        BY <2>0, HeldIsMade
    <2>5. \A u \in TcpSeq : ~Taken(u)'
        BY <2>1 DEF Taken
    <2>6. \A j \in TraceId : InMap(j)' <=> InMap(j) /\ j # now
        <3> SUFFICES ASSUME NEW j \in TraceId
                     PROVE  InMap(j)' <=> InMap(j) /\ j # now
            OBVIOUS
        <3>1. InMap(j)' <=> \E u \in TcpSeq : u # key /\ grpc_trace_map[u] = j
            BY <2>2, <2>5, RpcProbeAssumption DEF InMap
        <3>2. \A u \in TcpSeq : grpc_trace_map[u] = now => u = key
            BY <2>0 DEF IInv, OnePlace
        <3>3. InMap(j) /\ j # now =>
                 \E u \in TcpSeq : u # key /\ grpc_trace_map[u] = j
            BY DEF InMap
        <3>4. ASSUME NEW u \in TcpSeq, u # key, grpc_trace_map[u] = j
              PROVE  InMap(j) /\ j # now
            BY <3>2, <3>4, <2>4, RpcProbeAssumption DEF InMap
        <3> QED
            BY <3>1, <3>3, <3>4
    <2>7. InMap(now) <=> now # reader.val
        BY <2>0, <2>4, RpcProbeAssumption DEF InMap, IInv, OnePlace
    <2>8. \A j \in TraceId :
             fate'[j] = IF j = now /\ now # reader.val THEN "unread"
                        ELSE fate[j]
        BY <1>7, <2>0 DEF ReaderDelete, IInv, TypeOK
    <2> HIDE DEF key, now
    <2>9. Conserved'
        <3> SUFFICES ASSUME NEW j \in TraceId
                     PROVE  fate'[j] = "flying" <=>
                                \/ OnCpu(j)' \/ InMap(j)' \/ InHand(j)'
                                \/ InCh(j)' \/ AtSender(j)'
            BY DEF Conserved
        <3>1. CASE j = now /\ now # reader.val
            <4>1. InMap(j) /\ fate'[j] = "unread" /\ ~InMap(j)'
                BY <3>1, <2>0, <2>6, <2>7, <2>8
            <4> QED
                BY <4>1, <2>3 DEF IInv, OnePlace
        <3>2. CASE ~(j = now /\ now # reader.val)
            <4>1. fate'[j] = fate[j] /\ (InMap(j)' <=> InMap(j))
                BY <3>2, <2>0, <2>6, <2>7, <2>8
            <4> QED
                BY <4>1, <2>3 DEF IInv, Conserved
        <3> QED
            BY <3>1, <3>2
    <2>10. \A j \in TraceId : \A u, w \in TcpSeq :
             grpc_trace_map'[u] = j /\ grpc_trace_map'[w] = j => u = w
        BY <2>2, RpcProbeAssumption DEF IInv, OnePlace
    <2> QED
        BY <2>1, <2>3, <2>6, <2>9, <2>10 DEF IInv, OnePlace
<1>8. CASE ReaderSend
    <2> DEFINE v == reader.val
    <2>0. v \in TraceId /\ InHand(v) /\ reader.pc = "send"
        BY <1>8, HeldIsMade, RpcProbeAssumption DEF ReaderSend, InHand
    <2>1. /\ UNCHANGED <<grpc_trace_map, cpu, sender, fate>>
          /\ Ch' = Append(Ch, v)
          /\ reader'.pc = "next"
        BY <1>8 DEF ReaderSend, IInv, TypeOK
    <2>2. /\ DOMAIN Ch' = DOMAIN Ch \cup {Len(Ch) + 1}
          /\ \A n \in DOMAIN Ch : Ch'[n] = Ch[n]
          /\ Ch'[Len(Ch) + 1] = v
          /\ Len(Ch) + 1 \notin DOMAIN Ch
        BY <2>0, <2>1, AppendSeq DEF IInv, TypeOK
    <2>3. \A j \in TraceId : /\ OnCpu(j)' <=> OnCpu(j)
                             /\ InMap(j)' <=> InMap(j)
                             /\ AtSender(j)' <=> AtSender(j)
        BY <2>0, <2>1 DEF OnCpu, InMap, AtSender, Taken
    <2>4. \A j \in TraceId : /\ ~InHand(j)'
                             /\ InHand(j) <=> j = v
        BY <2>0, <2>1 DEF InHand
    <2>5. \A j \in TraceId : InCh(j)' <=> InCh(j) \/ j = v
        BY <2>2 DEF InCh
    <2> HIDE DEF v
    <2>6. Conserved'
        BY <2>0, <2>1, <2>3, <2>4, <2>5 DEF IInv, Conserved
    <2>7. ~InCh(v) /\ ~OnCpu(v) /\ ~InMap(v) /\ ~AtSender(v)
        BY <2>0 DEF IInv, OnePlace
    <2>8. \A j \in TraceId : \A m, n \in DOMAIN Ch' :
             Ch'[m] = j /\ Ch'[n] = j => m = n
        BY <2>2, <2>7 DEF IInv, OnePlace, InCh
    <2> QED
        BY <2>0, <2>1, <2>3, <2>4, <2>5, <2>6, <2>7, <2>8 DEF IInv, OnePlace
<1>9. CASE SenderReceive
    <2> DEFINE h == Head(Ch)
    <2>0. h \in TraceId /\ h = Ch[1] /\ 1 \in DOMAIN Ch /\ sender = None
        BY <1>9, HeadTail DEF SenderReceive, IInv, TypeOK
    <2>1. UNCHANGED <<grpc_trace_map, cpu, reader>> /\ Ch' = Tail(Ch)
        BY <1>9 DEF SenderReceive
    <2>2. /\ \A n \in DOMAIN Ch' : /\ n + 1 \in DOMAIN Ch /\ n + 1 # 1
                                    /\ Ch'[n] = Ch[n + 1]
          /\ \A n \in DOMAIN Ch :
                 n # 1 => n - 1 \in DOMAIN Ch' /\ Ch'[n - 1] = Ch[n]
        BY <1>9, <2>1, HeadTail DEF SenderReceive, IInv, TypeOK
    <2>3. \A j \in TraceId : /\ OnCpu(j)' <=> OnCpu(j)
                             /\ InMap(j)' <=> InMap(j)
                             /\ InHand(j)' <=> InHand(j)
        BY <2>1 DEF OnCpu, InMap, InHand, Taken
    <2>4. \A j \in TraceId : InCh(j)' <=> InCh(j) /\ j # h
        BY <2>0, <2>2 DEF InCh, IInv, OnePlace
    <2>5. \A j \in TraceId : \A m, n \in DOMAIN Ch' :
             Ch'[m] = j /\ Ch'[n] = j => m = n
        <3> SUFFICES ASSUME NEW j \in TraceId, NEW m \in DOMAIN Ch',
                            NEW n \in DOMAIN Ch', Ch'[m] = j, Ch'[n] = j
                     PROVE  m = n
            OBVIOUS
        <3>1. m + 1 = n + 1
            BY <2>2 DEF IInv, OnePlace
        <3>2. m \in Int /\ n \in Int
            BY StepTypeOK DEF TypeOK
        <3> QED
            BY <3>1, <3>2
    <2>6. InCh(h) /\ ~OnCpu(h) /\ ~InMap(h) /\ ~InHand(h)
        BY <2>0 DEF InCh, IInv, OnePlace
    <2>7. \/ sender' = h /\ UNCHANGED fate
          \/ fate' = [fate EXCEPT ![h] = "skipped"] /\ UNCHANGED sender
        BY <1>9 DEF SenderReceive
    <2> HIDE DEF h
    <2>8. CASE sender' = h /\ UNCHANGED fate
        <3>1. \A j \in TraceId : /\ AtSender(j)' <=> j = h
                                 /\ ~AtSender(j)
            BY <2>0, <2>8, RpcProbeAssumption DEF AtSender
        <3>2. Conserved'
            BY <2>3, <2>4, <2>6, <2>8, <3>1 DEF IInv, Conserved
        <3> QED
            BY <2>1, <2>3, <2>4, <2>5, <2>6, <3>1, <3>2 DEF IInv, OnePlace
    <2>9. CASE fate' = [fate EXCEPT ![h] = "skipped"] /\ UNCHANGED sender
        <3>1. \A j \in TraceId : ~AtSender(j)' /\ ~AtSender(j)
            BY <2>0, <2>9, RpcProbeAssumption DEF AtSender
        <3>2. \A j \in TraceId :
                 fate'[j] = IF j = h THEN "skipped" ELSE fate[j]
            BY <2>9 DEF IInv, TypeOK
        <3>3. Conserved'
            BY <2>3, <2>4, <2>6, <3>1, <3>2 DEF IInv, Conserved
        <3> QED
            BY <2>1, <2>3, <2>4, <2>5, <3>1, <3>3 DEF IInv, OnePlace
    <2> QED
        BY <2>7, <2>8, <2>9
<1>10. CASE SenderForward
    <2>0. sender \in TraceId /\ AtSender(sender)
        BY <1>10 DEF SenderForward, IInv, TypeOK, AtSender
    <2>1. UNCHANGED <<grpc_trace_map, cpu, reader, Ch>> /\ sender' = None
        BY <1>10 DEF SenderForward
    <2>2. \A j \in TraceId : /\ OnCpu(j)' <=> OnCpu(j)
                             /\ InMap(j)' <=> InMap(j)
                             /\ InHand(j)' <=> InHand(j)
                             /\ InCh(j)' <=> InCh(j)
        BY <2>1 DEF OnCpu, InMap, InHand, InCh, Taken
    <2>3. \A j \in TraceId : /\ ~AtSender(j)'
                             /\ AtSender(j) <=> j = sender
        BY <2>1, RpcProbeAssumption DEF AtSender
    <2>4. \A j \in TraceId :
             fate'[j] = IF j = sender THEN "reported" ELSE fate[j]
        BY <1>10, <2>0 DEF SenderForward, IInv, TypeOK
    <2>5. Conserved'
        BY <2>0, <2>2, <2>3, <2>4 DEF IInv, Conserved, OnePlace
    <2> QED
        BY <2>1, <2>2, <2>3, <2>5 DEF IInv, OnePlace
<1>11. CASE UNCHANGED vars
    BY <1>0, <1>11 DEF vars
<1>12. ASSUME NEW k \in CPU, CopyOvertaken(k) PROVE (Conserved /\ OnePlace)'
    BY <1>0, <1>12 DEF CopyOvertaken
<1> QED
    BY <1>1, <1>2, <1>3, <1>4, <1>5, <1>6, <1>7, <1>8, <1>9, <1>10, <1>11, <1>12
       DEF Next

\* Two records agree on everything but whether the copy was overtaken, which is
\* never taken back.
SameTrace(a, b) ==
    /\ b.path = a.path /\ b.tuple = a.tuple /\ b.type = a.type /\ b.seq = a.seq
    /\ b.duration = a.duration /\ b.at = a.at
    /\ a.torn => b.torn

\* The copy of a response is overtaken: its record is marked and nothing else.
LEMMA Overtaken ==
    ASSUME IInv, NEW k \in CPU, CopyOvertaken(k)
    PROVE  /\ cpu[k] \in TraceId /\ fate[cpu[k]] = "flying"
           /\ \A j \in TraceId : j # cpu[k] => made'[j] = made[j]
           /\ SameTrace(made[cpu[k]], made'[cpu[k]])
           /\ made'[cpu[k]].torn /\ made'[cpu[k]] # None
           /\ made[cpu[k]].tuple[1] \notin Pinned
           /\ UNCHANGED <<clock, filter_map, grpc_request_map, grpc_trace_map, cpu,
                          reader, Ch, sender, asked, fate>>
           /\ Made' = Made
<1>1. cpu[k] \in TraceId /\ fate[cpu[k]] = "flying" /\ made[cpu[k]] \in Trace
    BY HeldIsMade DEF CopyOvertaken
<1>2. made' = [made EXCEPT ![cpu[k]] = [made[cpu[k]] EXCEPT !.torn = TRUE]]
    BY DEF CopyOvertaken
<1>3. made \in [TraceId -> Trace \cup {None}]
    BY DEF IInv, TypeOK
<1>4. made'[cpu[k]] = [made[cpu[k]] EXCEPT !.torn = TRUE]
    BY <1>1, <1>2, <1>3
<1>5. made'[cpu[k]] \in Trace
    BY <1>1, <1>4 DEF Trace
<1>6. SameTrace(made[cpu[k]], made'[cpu[k]]) /\ made'[cpu[k]].torn
    BY <1>1, <1>4 DEF SameTrace, Trace
<1>7. made[cpu[k]].tuple[1] \notin Pinned
    BY <1>1 DEF CopyOvertaken, IInv, OneAtATime, InOrder, Made
<1>8. \A j \in TraceId : j # cpu[k] => made'[j] = made[j]
    BY <1>1, <1>2, <1>3
<1> QED
    BY <1>1, <1>5, <1>6, <1>7, <1>8, NoneIsNoRecord DEF CopyOvertaken, Made

\* Records never change once made but for the mark of a torn copy, and none is
\* made twice.
LEMMA HistoryGrows ==
    ASSUME IInv, [Next]_vars
    PROVE  /\ \A r \in RequestId : asked[r] # None => asked'[r] = asked[r]
           /\ \A i \in TraceId :
                  fate[i] # "none" =>
                      SameTrace(made[i], made'[i]) /\ fate'[i] # "none"
           /\ (\A k \in CPU, i \in TraceId, t \in Tuple, type \in RpcTypes,
                  s \in TcpSeq :
                  ~ResponseLookup(k, i, t, type, s)) => Made' = Made
<1>a. \A i \in TraceId : made'[i] = made[i] => SameTrace(made[i], made'[i])
    BY DEF SameTrace
<1>b. ASSUME NEW k \in CPU, CopyOvertaken(k)
      PROVE  /\ UNCHANGED <<asked, fate>> /\ Made' = Made
             /\ \A i \in TraceId : SameTrace(made[i], made'[i])
    BY <1>a, <1>b, Overtaken
<1> USE RpcProbeAssumption DEF IInv, TypeOK, Made
<1>1. CASE UNCHANGED <<asked, made, fate>>
    BY <1>1, <1>a
<1>2. ASSUME NEW r \in RequestId, NEW t \in Tuple, NEW ping \in BOOLEAN,
             RequestPacket(r, t, ping)
      PROVE  UNCHANGED <<made, fate>> /\
             \A q \in RequestId : asked[q] # None => asked'[q] = asked[q]
    BY <1>2 DEF RequestPacket
<1>3. ASSUME NEW k \in CPU, NEW i \in TraceId, NEW t \in Tuple,
             NEW type \in RpcTypes, NEW s \in TcpSeq,
             ResponseLookup(k, i, t, type, s)
      PROVE  /\ UNCHANGED asked
             /\ \A j \in TraceId :
                    fate[j] # "none" =>
                        SameTrace(made[j], made'[j]) /\ fate'[j] # "none"
    BY <1>3, <1>a DEF ResponseLookup
<1>5. ASSUME NEW k \in CPU, ResponseStore(k)
      PROVE  /\ UNCHANGED <<asked, made>> /\ Made' = Made
             /\ \A j \in TraceId : fate[j] # "none" <=> fate'[j] # "none"
    <2>1. cpu[k] \in TraceId /\ fate[cpu[k]] = "flying" /\ made[cpu[k]].seq \in TcpSeq
        BY <1>5, HeldIsMade DEF ResponseStore, Trace
    <2>2. LET old == grpc_trace_map[made[cpu[k]].seq]
          IN  old # None => old \in TraceId /\ fate[old] = "flying"
        BY <2>1, HeldIsMade
    <2> QED
        BY <1>5, <2>1, <2>2 DEF ResponseStore, KeyOf
<1>6. CASE ReaderDelete
    <2>1. LET now == grpc_trace_map[reader.key]
          IN  now \in TraceId /\ fate[now] = "flying"
        BY <1>6, HeldIsMade DEF ReaderDelete, Held
    <2>2. /\ UNCHANGED <<asked, made>> /\ Made' = Made
          /\ \A j \in TraceId : fate[j] # "none" <=> fate'[j] # "none"
        BY <1>6, <2>1 DEF ReaderDelete
    <2> QED
        BY <2>2, <1>a
<1>7. CASE SenderReceive
    <2>1. Head(Ch) \in TraceId /\ InCh(Head(Ch))
        BY <1>7, HeadTail DEF SenderReceive, InCh
    <2>2. fate[Head(Ch)] = "flying"
        BY <2>1 DEF Conserved
    <2>3. /\ UNCHANGED <<asked, made>> /\ Made' = Made
          /\ \A j \in TraceId : fate[j] # "none" <=> fate'[j] # "none"
        BY <1>7, <2>1, <2>2 DEF SenderReceive
    <2> QED
        BY <2>3, <1>a
<1>8. CASE SenderForward
    <2>1. sender \in TraceId /\ fate[sender] = "flying"
        BY <1>8 DEF SenderForward, Conserved, AtSender
    <2>2. /\ UNCHANGED <<asked, made>> /\ Made' = Made
          /\ \A j \in TraceId : fate[j] # "none" <=> fate'[j] # "none"
        BY <1>8, <2>1 DEF SenderForward
    <2> QED
        BY <2>2, <1>a
<1>9. Tick \/ PutFilter \/ (\E s \in TcpSeq : ReaderNext(s)) \/ ReaderSend
        \/ UNCHANGED vars => UNCHANGED <<asked, made, fate>>
    BY DEF Tick, PutFilter, ReaderNext, ReaderSend, vars
<1>10. CASE \E r \in RequestId, t \in Tuple, ping \in BOOLEAN :
                RequestPacket(r, t, ping)
    BY <1>2, <1>10, <1>a
<1>11. CASE \E k \in CPU, i \in TraceId, t \in Tuple, type \in RpcTypes,
               s \in TcpSeq :
                ResponseLookup(k, i, t, type, s)
    <2>1. PICK k \in CPU, i \in TraceId, t \in Tuple, type \in RpcTypes,
               s \in TcpSeq :
                ResponseLookup(k, i, t, type, s)
        BY <1>11
    <2> HIDE DEF IInv, TypeOK, Made
    <2>2. /\ UNCHANGED asked
          /\ \A j \in TraceId :
                 fate[j] # "none" =>
                     SameTrace(made[j], made'[j]) /\ fate'[j] # "none"
        BY <2>1, <1>3
    <2> QED
        BY <2>2, <1>11
<1>12. CASE \E k \in CPU : ResponseStore(k)
    BY <1>5, <1>12, <1>a
<1>13. CASE \E k \in CPU : CopyOvertaken(k)
    BY <1>b, <1>13
<1> QED
    BY <1>1, <1>6, <1>7, <1>8, <1>9, <1>10, <1>11, <1>12, <1>13 DEF Next

-----------------------------------------------------------------------------
(* The keys of the trace map.                                              *)

\* The reader's Delete finds its key, slots keep the sequence number of what
\* they hold, and only an equal sequence number costs a stored trace.
LEMMA StepKeys ==
    IInv /\ [Next]_vars => (DeleteFindsKey /\ Held /\ LostToSameSeq)'
<1> SUFFICES ASSUME IInv, [Next]_vars
             PROVE  (DeleteFindsKey /\ Held /\ LostToSameSeq)'
    OBVIOUS
<1> USE RpcProbeAssumption
<1>g. /\ \A i \in TraceId :
             fate[i] # "none" => made'[i].seq = made[i].seq /\ fate'[i] # "none"
      /\ \A i \in Made : i \in Made'
    BY HistoryGrows DEF Made, SameTrace
<1>0. ASSUME UNCHANGED <<grpc_trace_map, reader>>
      PROVE  (DeleteFindsKey /\ Held)'
    BY <1>0, <1>g, HeldIsMade DEF IInv, DeleteFindsKey, Held
<1>l. ASSUME NEW i \in Made', fate'[i] \in {"overwritten", "unread"},
             fate[i] = fate'[i]
      PROVE  \E j \in Made' : j # i /\ made'[j].seq = made'[i].seq
    BY <1>l, <1>g DEF IInv, LostToSameSeq, Made
<1>m. ASSUME \A i \in TraceId : fate'[i] \in {"overwritten", "unread"}
                                   => fate[i] = fate'[i]
      PROVE  LostToSameSeq'
    BY <1>l, <1>m DEF LostToSameSeq, Made
<1>1. CASE Tick
    BY <1>1, <1>0, <1>m DEF Tick
<1>2. CASE PutFilter
    BY <1>2, <1>0, <1>m DEF PutFilter
<1>3. ASSUME NEW r \in RequestId, NEW t \in Tuple, NEW ping \in BOOLEAN,
             RequestPacket(r, t, ping)
      PROVE  (DeleteFindsKey /\ Held /\ LostToSameSeq)'
    BY <1>3, <1>0, <1>m DEF RequestPacket
<1>4. ASSUME NEW k \in CPU, NEW i \in TraceId, NEW t \in Tuple,
             NEW type \in RpcTypes, NEW s \in TcpSeq,
             ResponseLookup(k, i, t, type, s)
      PROVE  (DeleteFindsKey /\ Held /\ LostToSameSeq)'
    <2>1. \A j \in TraceId : fate'[j] = IF j = i THEN "flying" ELSE fate[j]
        BY <1>4 DEF ResponseLookup, IInv, TypeOK
    <2> QED
        BY <1>4, <2>1, <1>0, <1>m DEF ResponseLookup
<1>5. ASSUME NEW k \in CPU, ResponseStore(k)
      PROVE  (DeleteFindsKey /\ Held /\ LostToSameSeq)'
    <2> DEFINE i == cpu[k]
               s == made[i].seq
               old == grpc_trace_map[s]
               fits == Fits(grpc_trace_map, s, TraceMax)
    <2>0. /\ i \in TraceId /\ s \in TcpSeq /\ i \in Made
          /\ old \in TraceId \cup {None}
        BY <1>5, HeldIsMade DEF ResponseStore, Trace, Made, IInv, TypeOK
    <2>1. UNCHANGED <<reader, made>>
        BY <1>5 DEF ResponseStore
    <2>2. \A u \in TcpSeq :
             grpc_trace_map'[u] = IF u = s /\ fits THEN i ELSE grpc_trace_map[u]
        BY <1>5, <2>0 DEF ResponseStore, UpdateElem, KeyOf, IInv, TypeOK
    <2>3. DeleteFindsKey' /\ Held'
        <3> HIDE DEF fits
        <3> QED
            BY <2>0, <2>1, <2>2 DEF IInv, DeleteFindsKey, Held
    <2>4. old # None => old \in Made /\ made[old].seq = s /\ old # i
        <3>1. old # None => old \in Made /\ made[old].seq = s
            BY <2>0, HeldIsMade DEF IInv, Held, Made
        <3>2. OnCpu(i) /\ (old = i => InMap(i) \/ InHand(i))
            BY <2>0, HeldIsMade DEF InMap, InHand, Taken, OnCpu
        <3> QED
            BY <2>0, <3>1, <3>2 DEF IInv, OnePlace
    <2>5. \A j \in TraceId :
             /\ fate'[j] \in {"overwritten", "unread"}
             => fate[j] = fate'[j] \/ (j = old /\ old # None)
        BY <1>5, <2>0 DEF ResponseStore, KeyOf, IInv, TypeOK
    <2> HIDE DEF i, s, old, fits
    <2>6. LostToSameSeq'
        <3> SUFFICES ASSUME NEW j \in Made',
                            fate'[j] \in {"overwritten", "unread"}
                     PROVE  \E m \in Made' : m # j /\ made'[m].seq = made'[j].seq
            BY DEF LostToSameSeq
        <3>1. CASE fate[j] = fate'[j]
            BY <3>1, <1>l
        <3>2. CASE j = old /\ old # None
            <4>1. i \in Made' /\ i # j /\ made'[i].seq = made'[j].seq
                BY <2>0, <2>1, <2>4, <3>2, <1>g DEF s
            <4> QED
                BY <4>1
        <3>3. j \in TraceId
            BY DEF Made
        <3> QED
            BY <2>5, <3>1, <3>2, <3>3
    <2> QED
        BY <2>3, <2>6
<1>6. ASSUME NEW s \in TcpSeq, ReaderNext(s)
      PROVE  (DeleteFindsKey /\ Held /\ LostToSameSeq)'
    <2>1. UNCHANGED <<grpc_trace_map, made, fate>> /\ grpc_trace_map[s] # None
          /\ reader' = [pc |-> "delete", key |-> s, val |-> grpc_trace_map[s]]
        BY <1>6 DEF ReaderNext
    <2>2. DeleteFindsKey' /\ Held'
        BY <2>1, HeldIsMade DEF IInv, DeleteFindsKey, Held
    <2> QED
        BY <2>1, <2>2, <1>m
<1>7. CASE ReaderDelete
    <2> DEFINE key == reader.key
               now == grpc_trace_map[key]
    <2>0. /\ key \in TcpSeq /\ now \in Made /\ made[now].seq = key
          /\ reader.val \in Made /\ made[reader.val].seq = key
          /\ reader.pc = "delete"
        BY <1>7, HeldIsMade DEF ReaderDelete, IInv, TypeOK, Held, Made
    <2>1. /\ reader'.pc = "send" /\ reader'.val = reader.val
          /\ UNCHANGED made
        BY <1>7 DEF ReaderDelete, IInv, TypeOK
    <2>2. \A u \in TcpSeq : grpc_trace_map'[u] # None
             => grpc_trace_map'[u] = grpc_trace_map[u]
        BY <1>7 DEF ReaderDelete, IInv, TypeOK
    <2>3. DeleteFindsKey' /\ Held'
        BY <2>0, <2>1, <2>2, HeldIsMade DEF IInv, DeleteFindsKey, Held
    <2>4. \A j \in TraceId :
             \/ fate'[j] = fate[j]
             \/ j = now /\ now # reader.val
        BY <1>7 DEF ReaderDelete, IInv, TypeOK
    <2> HIDE DEF key, now
    <2>5. LostToSameSeq'
        <3> SUFFICES ASSUME NEW j \in Made',
                            fate'[j] \in {"overwritten", "unread"}
                     PROVE  \E m \in Made' : m # j /\ made'[m].seq = made'[j].seq
            BY DEF LostToSameSeq
        <3>1. CASE fate'[j] = fate[j]
            BY <3>1, <1>l
        <3>2. CASE j = now /\ now # reader.val
            BY <3>2, <2>0, <2>1, <1>g
        <3> QED
            BY <2>4, <3>1, <3>2 DEF Made
    <2> QED
        BY <2>3, <2>5
<1>8. CASE ReaderSend
    <2>1. /\ UNCHANGED <<grpc_trace_map, made, fate>>
          /\ reader'.pc = "next" /\ reader'.val = None
        BY <1>8 DEF ReaderSend, IInv, TypeOK
    <2>2. DeleteFindsKey' /\ Held'
        BY <2>1 DEF IInv, DeleteFindsKey, Held
    <2> QED
        BY <2>1, <2>2, <1>m
<1>9. CASE SenderReceive
    <2>1. \A j \in TraceId : fate'[j] \in {fate[j], "skipped"}
        BY <1>9 DEF SenderReceive, IInv, TypeOK
    <2> QED
        BY <1>9, <2>1, <1>0, <1>m DEF SenderReceive
<1>10. CASE SenderForward
    <2>1. \A j \in TraceId : fate'[j] \in {fate[j], "reported"}
        BY <1>10 DEF SenderForward, IInv, TypeOK
    <2> QED
        BY <1>10, <2>1, <1>0, <1>m DEF SenderForward
<1>11. CASE UNCHANGED vars
    BY <1>11, <1>0, <1>m DEF vars
<1>12. ASSUME NEW k \in CPU, CopyOvertaken(k)
      PROVE  (DeleteFindsKey /\ Held /\ LostToSameSeq)'
    BY <1>12, <1>0, <1>m DEF CopyOvertaken
<1> QED
    BY <1>1, <1>2, <1>3, <1>4, <1>5, <1>6, <1>7, <1>8, <1>9, <1>10, <1>11, <1>12
       DEF Next

-----------------------------------------------------------------------------
(* Requests and the traces that answer them.                               *)

\* A matched response: the trace's path is the request outstanding on the
\* reverse tuple, recorded earlier on that tuple.
LEMMA LookupFinds ==
    ASSUME IInv, NEW k \in CPU, NEW i \in TraceId, NEW t \in Tuple,
           NEW type \in RpcTypes, NEW s \in TcpSeq,
           ResponseLookup(k, i, t, type, s)
    PROVE  LET req == grpc_request_map[Flip(t)]
           IN  /\ req \in RequestId /\ asked[req] # None
               /\ asked[req] \in Request
               /\ asked[req].tuple = Flip(t)
               /\ made'[i].path = req /\ made'[i].tuple = Flip(t)
               /\ made'[i].at = clock /\ ~made'[i].torn
               /\ \A j \in TraceId : j # i => made'[j] = made[j]
               /\ \A j \in TraceId : fate'[j] # "none" <=>
                                        fate[j] # "none" \/ j = i
BY FlipTuple DEF IInv, TypeOK, Recorded, ResponseLookup, TraceOf

\* History and map agree about requests.
LEMMA StepRecorded == IInv /\ [Next]_vars => (Recorded /\ RequestOfThePod)'
<1> SUFFICES ASSUME IInv, [Next]_vars PROVE (Recorded /\ RequestOfThePod)'
    OBVIOUS
<1> USE RpcProbeAssumption
<1>t. TypeOK'
    BY StepTypeOK
<1>g. /\ \A r \in RequestId : asked[r] # None => asked'[r] = asked[r]
      /\ \A i \in TraceId : fate[i] # "none" => fate'[i] # "none"
    BY HistoryGrows
<1>o. \A i \in Made : /\ made[i] \in Trace /\ i \in TraceId
                      /\ made[i].path \in RequestId
    BY HeldIsMade DEF Made, Trace
<1>1. ASSUME Made' = Made, made' = made PROVE RequestOfThePod'
    <2>1. Whole' = Whole /\ Whole \subseteq Made
        BY <1>1 DEF Whole
    <2>2. \A i \in Whole : asked[made[i].path] # None /\ made[i].path \in RequestId
        BY <1>o, <2>1 DEF IInv, RequestOfThePod
    <2>3. \A i \in Whole : asked'[made[i].path] = asked[made[i].path]
        BY <1>g, <2>2
    <2> QED
        BY <1>1, <2>1, <2>3 DEF IInv, RequestOfThePod
<1>2. ASSUME Made' = Made, made' = made,
             UNCHANGED <<asked, grpc_request_map>>,
             clock' >= clock, filter_map => filter_map'
      PROVE  Recorded'
    <2>1. \A r \in RequestId : asked[r] # None => asked[r].at <= clock'
        BY <1>2, <1>t DEF IInv, TypeOK, Recorded, Request
    <2>2. \A i \in TraceId : fate'[i] = "none" <=> made'[i] = None
        BY <1>2 DEF IInv, Recorded, Made
    <2> QED
        BY <1>2, <2>1, <2>2 DEF IInv, Recorded
<1>3. ASSUME NEW r \in RequestId, NEW t \in Tuple, NEW ping \in BOOLEAN,
             RequestPacket(r, t, ping)
      PROVE  (Recorded /\ RequestOfThePod)'
    <2>1. Made' = Made /\ made' = made
        BY <1>3 DEF RequestPacket, Made
    <2>2. \A q \in RequestId :
             asked'[q] = IF q = r THEN [tuple |-> t, ping |-> ping,
                                        start |-> clock % Word, at |-> clock,
                                        filtered |-> filter_map]
                         ELSE asked[q]
        BY <1>3 DEF RequestPacket, IInv, TypeOK
    <2>3. \A u \in Tuple :
             \/ grpc_request_map'[u] = grpc_request_map[u]
             \/ u = t /\ grpc_request_map'[u] = r
        BY <1>3 DEF RequestPacket, UpdateElem, IInv, TypeOK
    <2>4. \A q \in RequestId :
             asked'[q] # None =>
               /\ asked'[q].at <= clock'
               /\ asked'[q].start = asked'[q].at % Word
               /\ asked'[q].filtered => asked'[q].tuple[2] = "out"
               /\ asked'[q].filtered => filter_map'
        BY <1>3, <2>2 DEF RequestPacket, PassesFilter, IInv, TypeOK, Recorded
    <2>5. asked'[r] # None /\ asked'[r].tuple = t
        <3>1. asked'[r].tuple = t
            BY <2>2
        <3>2. asked'[r] \in Request
            <4>1. clock % Word \in 0 .. (Word - 1)
                BY DEF IInv, TypeOK
            <4> QED
                BY <2>2, <4>1 DEF Request, IInv, TypeOK
        <3> QED
            BY <3>1, <3>2, NoneIsNoRecord
    <2>6. \A u \in Tuple :
             grpc_request_map'[u] # None =>
               /\ asked'[grpc_request_map'[u]] # None
               /\ asked'[grpc_request_map'[u]].tuple = u
        <3> SUFFICES ASSUME NEW u \in Tuple, grpc_request_map'[u] # None
                     PROVE  /\ asked'[grpc_request_map'[u]] # None
                            /\ asked'[grpc_request_map'[u]].tuple = u
            OBVIOUS
        <3>1. CASE u = t /\ grpc_request_map'[u] = r
            BY <3>1, <2>5
        <3>2. CASE grpc_request_map'[u] = grpc_request_map[u]
            <4>1. /\ grpc_request_map[u] \in RequestId
                  /\ asked[grpc_request_map[u]] # None
                  /\ asked[grpc_request_map[u]].tuple = u
                BY <3>2 DEF IInv, TypeOK, Recorded
            <4> QED
                BY <3>2, <4>1, <1>g
        <3> QED
            BY <2>3, <3>1, <3>2
    <2>7. \A i \in TraceId : fate'[i] = "none" <=> made'[i] = None
        BY <1>3 DEF RequestPacket, IInv, Recorded
    <2> QED
        BY <1>1, <2>1, <2>4, <2>6, <2>7 DEF Recorded
<1>4. ASSUME NEW k \in CPU, NEW i \in TraceId, NEW t \in Tuple,
             NEW type \in RpcTypes, NEW s \in TcpSeq,
             ResponseLookup(k, i, t, type, s)
      PROVE  (Recorded /\ RequestOfThePod)'
    <2> DEFINE req == grpc_request_map[Flip(t)]
    <2>1. /\ req \in RequestId /\ asked[req] # None /\ asked[req] \in Request
          /\ asked[req].tuple = Flip(t)
          /\ made'[i].path = req /\ made'[i].tuple = Flip(t)
          /\ made'[i].at = clock
          /\ \A j \in TraceId : j # i => made'[j] = made[j]
          /\ \A j \in TraceId : fate'[j] # "none" <=>
                                   fate[j] # "none" \/ j = i
        BY <1>4, LookupFinds
    <2>2. UNCHANGED <<clock, filter_map, asked, grpc_request_map>>
        BY <1>4 DEF ResponseLookup
    <2>3. TraceOf(t, type, s) \in Trace
        BY <1>4, TraceOfType DEF IInv, ResponseLookup
    <2>4. made'[i] # None
        BY <1>4, <2>3, NoneIsNoRecord DEF ResponseLookup, IInv, TypeOK
    <2>5. Recorded'
        BY <2>1, <2>2, <2>4 DEF IInv, Recorded
    <2>6. RequestOfThePod'
        <3> SUFFICES ASSUME NEW j \in Whole'
                     PROVE  LET q == asked'[made'[j].path]
                            IN  /\ q # None /\ q.tuple = made'[j].tuple
                                /\ q.at <= made'[j].at
                                /\ q.filtered => made'[j].tuple[2] = "out"
            BY DEF RequestOfThePod
        <3>1. CASE j = i
            <4> HIDE DEF req
            <4>1. /\ asked[req].at <= clock
                  /\ asked[req].filtered => asked[req].tuple[2] = "out"
                BY <2>1 DEF IInv, Recorded
            <4> QED
                BY <3>1, <4>1, <2>1, <2>2
        <3>2. CASE j # i
            BY <3>2, <2>1, <2>2 DEF IInv, RequestOfThePod, Made, Whole
        <3> QED
            BY <3>1, <3>2
    <2> QED
        BY <2>5, <2>6
<1>5. ASSUME NEW k \in CPU, ResponseStore(k)
      PROVE  (Recorded /\ RequestOfThePod)'
    <2>1. Made' = Made /\ made' = made /\ asked' = asked
          /\ UNCHANGED <<clock, filter_map>>
        <3>1. \A j \in TraceId : fate[j] = "none" => fate'[j] = "none"
            BY <1>5, HeldIsMade DEF ResponseStore, KeyOf, IInv, TypeOK, Trace
        <3> QED
            BY <1>5, <3>1, <1>g DEF ResponseStore, Made
    <2>2. \A u \in Tuple : grpc_request_map'[u] \in {grpc_request_map[u], None}
        BY <1>5 DEF ResponseStore, RequestsAfter, IInv, TypeOK
    <2>3. \A i \in TraceId : fate'[i] = "none" <=> made'[i] = None
        BY <2>1 DEF IInv, Recorded, Made
    <2>4. Recorded'
        BY <2>1, <2>2, <2>3 DEF IInv, Recorded
    <2> QED
        BY <2>1, <2>4, <1>1
<1>6. CASE ReaderDelete
    <2>1. Made' = Made /\ made' = made
        <3>1. \A j \in TraceId : fate[j] = "none" => fate'[j] = "none"
            BY <1>6, HeldIsMade DEF ReaderDelete, IInv, TypeOK, Held
        <3> QED
            BY <1>6, <3>1, <1>g DEF ReaderDelete, Made
    <2> QED
        BY <1>6, <2>1, <1>1, <1>2 DEF ReaderDelete, IInv, TypeOK
<1>7. CASE SenderReceive
    <2>1. fate[Head(Ch)] = "flying"
        BY <1>7, HeadTail DEF SenderReceive, IInv, TypeOK, Conserved, InCh
    <2>2. Made' = Made /\ made' = made
        <3>1. \A j \in TraceId : fate[j] = "none" => fate'[j] = "none"
            BY <1>7, <2>1 DEF SenderReceive, IInv, TypeOK
        <3> QED
            BY <1>7, <3>1, <1>g DEF SenderReceive, Made
    <2> QED
        BY <1>7, <2>2, <1>1, <1>2 DEF SenderReceive, IInv, TypeOK
<1>8. CASE SenderForward
    <2>1. fate[sender] = "flying"
        BY <1>8 DEF SenderForward, IInv, TypeOK, Conserved, AtSender
    <2>2. Made' = Made /\ made' = made
        <3>1. \A j \in TraceId : fate[j] = "none" => fate'[j] = "none"
            BY <1>8, <2>1 DEF SenderForward, IInv, TypeOK
        <3> QED
            BY <1>8, <3>1, <1>g DEF SenderForward, Made
    <2> QED
        BY <1>8, <2>2, <1>1, <1>2 DEF SenderForward, IInv, TypeOK
<1>9. CASE Tick \/ PutFilter \/ (\E s \in TcpSeq : ReaderNext(s))
              \/ ReaderSend \/ UNCHANGED vars
    <2>1. /\ UNCHANGED <<asked, made, fate, grpc_request_map>>
          /\ clock' >= clock /\ (filter_map => filter_map')
        BY <1>9 DEF Tick, PutFilter, ReaderNext, ReaderSend, vars, IInv, TypeOK
    <2>2. Made' = Made
        BY <2>1 DEF Made
    <2> QED
        BY <2>1, <2>2, <1>1, <1>2
<1>10. ASSUME NEW k \in CPU, CopyOvertaken(k) PROVE (Recorded /\ RequestOfThePod)'
    <2>1. /\ \A j \in TraceId : j # cpu[k] => made'[j] = made[j]
          /\ made'[cpu[k]].torn /\ made'[cpu[k]] # None /\ fate[cpu[k]] = "flying"
          /\ UNCHANGED <<clock, filter_map, grpc_request_map, asked, fate>>
          /\ Made' = Made
        BY <1>10, Overtaken
    <2>2. Recorded'
        <3>1. \A i \in TraceId : fate'[i] = "none" <=> made'[i] = None
            BY <2>1 DEF IInv, Recorded
        <3> QED
            BY <2>1, <3>1 DEF IInv, Recorded
    <2>3. \A j \in Whole' : j \in Whole /\ made'[j] = made[j]
        BY <2>1 DEF Whole, Made
    <2>4. RequestOfThePod'
        BY <2>1, <2>3 DEF IInv, RequestOfThePod
    <2> QED
        BY <2>2, <2>4
<1> QED
    BY <1>3, <1>4, <1>5, <1>6, <1>7, <1>8, <1>9, <1>10 DEF Next

\* A response in flight finds its request, nothing, or a newer request in the map.
LEMMA StepInFlight == IInv /\ [Next]_vars => InFlight'
<1> SUFFICES ASSUME IInv, [Next]_vars, NEW k \in CPU, cpu'[k] # None
             PROVE  LET i == cpu'[k]
                        q == grpc_request_map'[made'[i].tuple]
                    IN  /\ made'[i].at <= clock'
                        /\ q \notin {None, made'[i].path} => asked'[q].at >= made'[i].at
    BY DEF InFlight
<1> USE RpcProbeAssumption
<1>g. /\ \A r \in RequestId : asked[r] # None => asked'[r] = asked[r]
      /\ \A i \in TraceId : fate[i] # "none" =>
             /\ made'[i].at = made[i].at /\ made'[i].tuple = made[i].tuple
             /\ made'[i].path = made[i].path
    BY HistoryGrows DEF SameTrace
<1>t. clock \in Int /\ clock' \in Int /\ clock <= clock'
    <2>1. clock' \in Int /\ clock \in Int
        BY StepTypeOK DEF IInv, TypeOK
    <2>2. clock' = clock \/ clock' = clock + 1
        BY DEF Next, Tick, PutFilter, RequestPacket, ResponseLookup, CopyOvertaken,
               ResponseStore, ReaderNext, ReaderDelete, ReaderSend, SenderReceive,
               SenderForward, vars
    <2> QED
        BY <2>1, <2>2
<1>0. ASSUME cpu'[k] = cpu[k],
             \A u \in Tuple : grpc_request_map'[u] \in {grpc_request_map[u], None}
      PROVE  LET i == cpu'[k]
                 q == grpc_request_map'[made'[i].tuple]
             IN  /\ made'[i].at <= clock'
                 /\ q \notin {None, made'[i].path} => asked'[q].at >= made'[i].at
    <2> DEFINE i == cpu[k]
               t == made[i].tuple
               q == grpc_request_map[t]
    <2>1. /\ i \in TraceId /\ fate[i] = "flying" /\ made[i] \in Trace
        BY <1>0, HeldIsMade
    <2>2. made[i].at \in Int /\ t \in Tuple /\ made[i].at <= clock
        BY <1>0, <2>1 DEF Trace, IInv, InFlight
    <2>3. q # None => q \in RequestId /\ asked[q] # None /\ asked'[q] = asked[q]
        BY <1>g, <2>2 DEF IInv, TypeOK, Recorded
    <2>4. q \notin {None, made[i].path} => asked[q].at >= made[i].at
        BY <1>0 DEF IInv, InFlight
    <2>5. /\ made'[i].at = made[i].at /\ made'[i].tuple = t
          /\ made'[i].path = made[i].path
        BY <1>g, <2>1
    <2>6. grpc_request_map'[t] \in {q, None}
        BY <1>0, <2>2
    <2>7. made'[i].at <= clock'
        BY <1>t, <2>2, <2>5
    <2> HIDE DEF i, t, q
    <2> QED
        BY <1>0, <2>3, <2>4, <2>5, <2>6, <2>7 DEF i
<1>1. CASE \E r \in RequestId, t \in Tuple, ping \in BOOLEAN : RequestPacket(r, t, ping)
    <2>1. PICK r \in RequestId, t \in Tuple, ping \in BOOLEAN : RequestPacket(r, t, ping)
        BY <1>1
    <2>2. /\ UNCHANGED <<cpu, made, clock>> /\ asked[r] = None
          /\ asked'[r].at = clock
          /\ \A u \in Tuple :
                \/ grpc_request_map'[u] = grpc_request_map[u]
                \/ u = t /\ grpc_request_map'[u] = r
        BY <2>1 DEF RequestPacket, UpdateElem, IInv, TypeOK
    <2> DEFINE i == cpu[k]
               v == made[i].tuple
    <2>3. /\ i \in TraceId /\ made[i] \in Trace
        BY <2>2, HeldIsMade
    <2>4. made[i].at \in Int /\ v \in Tuple /\ made[i].at <= clock
        BY <2>2, <2>3 DEF Trace, IInv, InFlight
    <2>5. CASE grpc_request_map'[v] = r
        BY <2>2, <2>4, <2>5, <1>t
    <2>6. CASE grpc_request_map'[v] = grpc_request_map[v]
        <3> DEFINE q == grpc_request_map[v]
        <3>1. q # None => q \in RequestId /\ asked[q] # None /\ asked'[q] = asked[q]
            BY <1>g, <2>4 DEF IInv, TypeOK, Recorded
        <3>2. q \notin {None, made[i].path} => asked[q].at >= made[i].at
            BY <2>2 DEF IInv, InFlight
        <3> QED
            BY <2>2, <2>4, <2>6, <3>1, <3>2
    <2> QED
        BY <2>2, <2>4, <2>5, <2>6
<1>2. CASE \E l \in CPU, i \in TraceId, t \in Tuple, type \in RpcTypes,
              s \in TcpSeq :
                ResponseLookup(l, i, t, type, s)
    <2>1. PICK l \in CPU, i \in TraceId, t \in Tuple, type \in RpcTypes,
               s \in TcpSeq :
                ResponseLookup(l, i, t, type, s)
        BY <1>2
    <2>2. /\ UNCHANGED <<grpc_request_map, clock>>
          /\ cpu' = [cpu EXCEPT ![l] = i]
        BY <2>1 DEF ResponseLookup
    <2>3. CASE k = l
        <3>1. cpu'[k] = i
            BY <2>2, <2>3 DEF IInv, TypeOK
        <3>2. /\ made'[i].path = grpc_request_map[Flip(t)]
              /\ made'[i].tuple = Flip(t) /\ made'[i].at = clock
            BY <2>1, LookupFinds
        <3> QED
            BY <2>2, <3>1, <3>2, <1>t
    <2>4. CASE k # l
        BY <2>2, <2>4, <1>0 DEF IInv, TypeOK
    <2> QED
        BY <2>3, <2>4
<1>3. CASE \E l \in CPU : ResponseStore(l)
    <2>1. PICK l \in CPU : ResponseStore(l)
        BY <1>3
    <2>2. cpu'[k] = cpu[k]
        BY <2>1 DEF ResponseStore, IInv, TypeOK
    <2>3. \A u \in Tuple : grpc_request_map'[u] \in {grpc_request_map[u], None}
        BY <2>1 DEF ResponseStore, RequestsAfter, IInv, TypeOK
    <2> QED
        BY <2>2, <2>3, <1>0
<1>4. CASE UNCHANGED <<cpu, grpc_request_map>>
    BY <1>4, <1>0
<1> QED
    BY <1>1, <1>2, <1>3, <1>4 DEF Next, Tick, PutFilter, CopyOvertaken, ReaderNext,
       ReaderDelete, ReaderSend, SenderReceive, SenderForward, vars

\* On a connection whose packets are filtered one at a time, a request is traced
\* once and deleted by the response that traced it.
LEMMA StepOneAtATime == IInv /\ [Next]_vars => (OneAtATime /\ OneTracePerRequest)'
<1> SUFFICES ASSUME IInv, [Next]_vars
             PROVE  (OneAtATime /\ OneTracePerRequest)'
    OBVIOUS
<1> USE RpcProbeAssumption
<1>r. RequestOfThePod /\ (Recorded /\ RequestOfThePod)'
    BY StepRecorded DEF IInv
<1>p. /\ InOrder \subseteq Whole
      /\ \A k, l \in CPU :
             /\ cpu[k] \in InOrder /\ cpu[l] \in InOrder
             /\ made[cpu[k]].tuple[1] = made[cpu[l]].tuple[1]
             => k = l
      /\ \A k \in CPU : cpu[k] \in InOrder =>
             grpc_request_map[made[cpu[k]].tuple] = made[cpu[k]].path
      /\ \A t \in Tuple, i \in InOrder :
             grpc_request_map[t] # None /\ made[i].path = grpc_request_map[t]
             => OnCpu(i)
      /\ \A i, j \in InOrder : made[i].path = made[j].path => i = j
    BY DEF IInv, OneAtATime, OneTracePerRequest
<1>i. \A i \in InOrder : i # None /\ i \in TraceId /\ i \in Made
    BY DEF InOrder, Made
<1>o. \A k \in CPU : cpu[k] # None =>
         /\ cpu[k] \in Made /\ made[cpu[k]] \in Trace
         /\ made[cpu[k]].tuple \in Tuple
    BY HeldIsMade DEF Made, Trace
<1>0. ASSUME UNCHANGED <<grpc_request_map, cpu>>, InOrder' = InOrder,
             \A i \in InOrder : made'[i] = made[i]
      PROVE  (OneAtATime /\ OneTracePerRequest)'
    <2>1. \A i : OnCpu(i)' <=> OnCpu(i)
        BY <1>0 DEF OnCpu
    <2>2. (InOrder \subseteq Whole)'
        BY <1>0, <1>p DEF Whole, InOrder
    <2> QED
        BY <1>0, <1>p, <2>1, <2>2 DEF OneAtATime, OneTracePerRequest
<1>m. ASSUME UNCHANGED <<grpc_request_map, cpu, made>>, Made' = Made
      PROVE  (OneAtATime /\ OneTracePerRequest)'
    <2>1. InOrder' = InOrder
        BY <1>m DEF InOrder
    <2> QED
        BY <1>m, <2>1, <1>0
<1>1. ASSUME NEW r \in RequestId, NEW t \in Tuple, NEW ping \in BOOLEAN,
             RequestPacket(r, t, ping)
      PROVE  (OneAtATime /\ OneTracePerRequest)'
    <2>1. UNCHANGED <<cpu, made>> /\ Made' = Made /\ asked[r] = None
        BY <1>1 DEF RequestPacket, Made
    <2>i. InOrder' = InOrder
        BY <2>1 DEF InOrder
    <2>2. \A k \in CPU : cpu[k] \in InOrder => made[cpu[k]].tuple # t
        BY <1>1, <1>i DEF RequestPacket, MayFilter, Busy, InOrder
    <2>3. \A u \in Tuple :
             \/ grpc_request_map'[u] = grpc_request_map[u]
             \/ u = t /\ grpc_request_map'[u] = r
        BY <1>1 DEF RequestPacket, UpdateElem, IInv, TypeOK
    <2>4. \A i \in InOrder : made[i].path # r
        BY <1>p, <1>r, <2>1 DEF RequestOfThePod
    <2>5. \A i : OnCpu(i)' <=> OnCpu(i)
        BY <2>1 DEF OnCpu
    <2>6. \A u \in Tuple, i \in InOrder' :
             grpc_request_map'[u] # None /\ made'[i].path = grpc_request_map'[u]
             => OnCpu(i)'
        BY <1>p, <2>1, <2>i, <2>3, <2>4, <2>5
    <2>7. \A k \in CPU : cpu'[k] \in InOrder' =>
             grpc_request_map'[made'[cpu'[k]].tuple] = made'[cpu'[k]].path
        BY <1>p, <1>i, <1>o, <2>1, <2>i, <2>2, <2>3
    <2>8. (InOrder \subseteq Whole)'
        BY <1>p, <2>1, <2>i DEF Whole
    <2> QED
        BY <1>p, <2>1, <2>i, <2>6, <2>7, <2>8 DEF OneAtATime, OneTracePerRequest
<1>2. ASSUME NEW k \in CPU, NEW i \in TraceId, NEW t \in Tuple,
             NEW type \in RpcTypes, NEW s \in TcpSeq,
             ResponseLookup(k, i, t, type, s)
      PROVE  (OneAtATime /\ OneTracePerRequest)'
    <2> DEFINE req == grpc_request_map[Flip(t)]
    <2>1. /\ req \in RequestId /\ asked[req].tuple = Flip(t)
          /\ made'[i].path = req /\ made'[i].tuple = Flip(t)
          /\ \A j \in TraceId : j # i => made'[j] = made[j]
          /\ \A j \in TraceId : fate'[j] # "none" <=>
                                   fate[j] # "none" \/ j = i
        BY <1>2, LookupFinds
    <2>2. UNCHANGED grpc_request_map /\ fate[i] = "none" /\ cpu[k] = None
        BY <1>2 DEF ResponseLookup
    <2>3. \A l \in CPU : cpu'[l] = IF l = k THEN i ELSE cpu[l]
        BY <1>2 DEF ResponseLookup, IInv, TypeOK
    <2>4. t[1] \in Pinned =>
             \A l \in CPU : cpu[l] # None => made[cpu[l]].tuple[1] # t[1]
        BY <1>2 DEF ResponseLookup, MayFilter, Busy
    <2>5. \A l \in CPU : cpu[l] # None => cpu[l] # i /\ cpu[l] \in TraceId
        BY <2>2, <1>o DEF Made
    <2>6. /\ \A j \in InOrder' : j # i => j \in InOrder /\ made'[j] = made[j]
          /\ i \in InOrder' => t[1] \in Pinned
        BY <2>1, FlipTuple DEF InOrder, Made
    <2>7. t[1] \in Pinned => \A j \in InOrder : made[j].path # req
        <3> SUFFICES ASSUME t[1] \in Pinned, NEW j \in InOrder, made[j].path = req
                     PROVE  FALSE
            OBVIOUS
        <3>1. OnCpu(j)
            BY <1>p, <2>1, FlipTuple
        <3>2. made[j].tuple = Flip(t)
            BY <1>p, <1>r, <2>1 DEF RequestOfThePod
        <3> QED
            BY <3>1, <3>2, <2>4, <1>i, FlipTuple DEF OnCpu
    <2>8. OneTracePerRequest'
        BY <1>p, <2>1, <2>6, <2>7 DEF OneTracePerRequest
    <2>9. \A l, m \in CPU :
             /\ cpu'[l] \in InOrder' /\ cpu'[m] \in InOrder'
             /\ made'[cpu'[l]].tuple[1] = made'[cpu'[m]].tuple[1]
             => l = m
        <3>1. \A l \in CPU : l # k /\ cpu'[l] \in InOrder' =>
                 cpu[l] \in InOrder /\ made'[cpu[l]] = made[cpu[l]] /\ cpu'[l] = cpu[l]
                 /\ cpu[l] # None
            BY <1>i, <2>1, <2>2, <2>3, <2>5, <2>6
        <3>2. made'[i].tuple[1] = t[1]
            BY <2>1, FlipTuple
        <3> QED
            BY <3>1, <3>2, <1>p, <2>3, <2>4, <2>6
    <2>10. \A l \in CPU : cpu'[l] \in InOrder' =>
             grpc_request_map'[made'[cpu'[l]].tuple] = made'[cpu'[l]].path
        BY <1>p, <2>1, <2>2, <2>3, <2>6
    <2>11. \A u \in Tuple, j \in InOrder' :
             grpc_request_map'[u] # None /\ made'[j].path = grpc_request_map'[u]
             => OnCpu(j)'
        <3> SUFFICES ASSUME NEW u \in Tuple, NEW j \in InOrder',
                            grpc_request_map[u] # None,
                            made'[j].path = grpc_request_map[u]
                     PROVE  OnCpu(j)'
            BY <2>2
        <3>1. CASE j = i
            BY <3>1, <2>3 DEF OnCpu
        <3>2. CASE j # i
            <4>1. OnCpu(j) /\ j # None
                BY <3>2, <1>p, <1>i, <2>6
            <4> QED
                BY <4>1, <2>2, <2>3 DEF OnCpu
        <3> QED
            BY <3>1, <3>2
    <2>12. (InOrder \subseteq Whole)'
        <3>1. ~made'[i].torn
            BY <1>2 DEF ResponseLookup, TraceOf, IInv, TypeOK
        <3>2. \A j \in InOrder' : j \in Made'
            BY DEF InOrder
        <3>3. \A j \in InOrder : ~made[j].torn
            BY <1>p DEF Whole
        <3> QED
            BY <3>1, <3>2, <3>3, <2>6 DEF Whole
    <2> QED
        BY <2>8, <2>9, <2>10, <2>11, <2>12 DEF OneAtATime
<1>3. ASSUME NEW k \in CPU, ResponseStore(k)
      PROVE  (OneAtATime /\ OneTracePerRequest)'
    <2> DEFINE i == cpu[k]
    <2>1. i \in Made /\ made[i].tuple \in Tuple /\ i # None
        BY <1>3, <1>o DEF ResponseStore
    <2>2. UNCHANGED made /\ Made' = Made
        <3>1. \A j \in TraceId : fate[j] # "none" <=> fate'[j] # "none"
            BY <1>3, HeldIsMade DEF ResponseStore, KeyOf, IInv, TypeOK, Trace
        <3> QED
            BY <1>3, <3>1 DEF ResponseStore, Made
    <2>i. InOrder' = InOrder
        BY <2>2 DEF InOrder
    <2>3. \A l \in CPU : cpu'[l] = IF l = k THEN None ELSE cpu[l]
        BY <1>3 DEF ResponseStore, IInv, TypeOK
    <2>4. \A u \in Tuple : grpc_request_map'[u] =
             IF u = made[i].tuple THEN None ELSE grpc_request_map[u]
        BY <1>3, <2>1 DEF ResponseStore, RequestsAfter, IInv, TypeOK
    <2>5. \A l \in CPU : cpu'[l] \in InOrder =>
             l # k /\ made[cpu[l]].tuple # made[i].tuple /\ cpu'[l] = cpu[l]
        <3> SUFFICES ASSUME NEW l \in CPU, cpu'[l] \in InOrder
                     PROVE  l # k /\ made[cpu[l]].tuple # made[i].tuple /\ cpu'[l] = cpu[l]
            OBVIOUS
        <3>1. l # k /\ cpu'[l] = cpu[l]
            BY <2>3, <1>i
        <3>2. made[cpu[l]].tuple = made[i].tuple => i \in InOrder
            BY <3>1, <2>1 DEF InOrder
        <3> QED
            BY <3>1, <3>2, <1>p
    <2>6. \A l \in CPU : cpu'[l] \in InOrder' =>
             grpc_request_map'[made'[cpu'[l]].tuple] = made'[cpu'[l]].path
        BY <1>p, <1>i, <1>o, <2>2, <2>i, <2>4, <2>5
    <2>7. \A u \in Tuple, j \in InOrder' :
             grpc_request_map'[u] # None /\ made'[j].path = grpc_request_map'[u]
             => OnCpu(j)'
        <3> SUFFICES ASSUME NEW u \in Tuple, NEW j \in InOrder,
                            u # made[i].tuple, grpc_request_map[u] # None,
                            made[j].path = grpc_request_map[u]
                     PROVE  OnCpu(j)'
            BY <2>2, <2>i, <2>4
        <3>1. OnCpu(j)
            BY <1>p
        <3>2. j # i
            BY <1>p, <1>r, <2>1 DEF RequestOfThePod, IInv, Recorded
        <3> QED
            BY <3>1, <3>2, <2>3 DEF OnCpu
    <2>8. \A l, m \in CPU :
             /\ cpu'[l] \in InOrder' /\ cpu'[m] \in InOrder'
             /\ made'[cpu'[l]].tuple[1] = made'[cpu'[m]].tuple[1]
             => l = m
        BY <1>p, <2>2, <2>i, <2>5
    <2>9. OneTracePerRequest'
        BY <1>p, <2>2, <2>i DEF OneTracePerRequest
    <2>10. (InOrder \subseteq Whole)'
        BY <1>p, <2>2, <2>i DEF Whole
    <2> QED
        BY <2>6, <2>7, <2>8, <2>9, <2>10 DEF OneAtATime
<1>4. ASSUME NEW i \in TraceId, fate[i] = "flying", NEW f, f # "none",
             fate' = [fate EXCEPT ![i] = f]
      PROVE  Made' = Made
    BY <1>4 DEF IInv, TypeOK, Made
<1>5. CASE ReaderDelete
    <2>1. LET now == grpc_trace_map[reader.key]
          IN  now \in TraceId /\ fate[now] = "flying"
        BY <1>5, HeldIsMade DEF ReaderDelete, IInv, Held
    <2>2. Made' = Made
        BY <1>5, <2>1, <1>4 DEF ReaderDelete, Made
    <2> QED
        BY <1>5, <2>2, <1>m DEF ReaderDelete
<1>6. CASE SenderReceive
    <2>1. Head(Ch) \in TraceId /\ InCh(Head(Ch))
        BY <1>6, HeadTail DEF SenderReceive, IInv, TypeOK, InCh
    <2>2. fate[Head(Ch)] = "flying"
        BY <2>1 DEF IInv, Conserved
    <2>3. Made' = Made
        BY <1>6, <2>1, <2>2, <1>4 DEF SenderReceive, Made
    <2> QED
        BY <1>6, <2>3, <1>m DEF SenderReceive
<1>7. CASE SenderForward
    <2>1. sender \in TraceId /\ fate[sender] = "flying"
        BY <1>7 DEF SenderForward, IInv, TypeOK, Conserved, AtSender
    <2>2. Made' = Made
        BY <1>7, <2>1, <1>4 DEF SenderForward
    <2> QED
        BY <1>7, <2>2, <1>m DEF SenderForward
<1>8. CASE Tick \/ PutFilter \/ (\E s \in TcpSeq : ReaderNext(s))
              \/ ReaderSend \/ UNCHANGED vars
    <2>1. UNCHANGED <<grpc_request_map, cpu, made, fate>>
        BY <1>8 DEF Tick, PutFilter, ReaderNext, ReaderSend, vars
    <2>2. Made' = Made
        BY <2>1 DEF Made
    <2> QED
        BY <2>1, <2>2, <1>m
<1>9. ASSUME NEW k \in CPU, CopyOvertaken(k)
      PROVE  (OneAtATime /\ OneTracePerRequest)'
    <2>1. /\ cpu[k] \notin InOrder /\ made'[cpu[k]].tuple[1] \notin Pinned
          /\ \A j \in TraceId : j # cpu[k] => made'[j] = made[j]
          /\ UNCHANGED <<grpc_request_map, cpu>> /\ Made' = Made
        BY <1>9, Overtaken DEF SameTrace, InOrder
    <2>2. InOrder' = InOrder
        BY <2>1 DEF InOrder, Made
    <2> QED
        BY <2>1, <2>2, <1>i, <1>0
<1> QED
    BY <1>1, <1>2, <1>3, <1>5, <1>6, <1>7, <1>8, <1>9 DEF Next

-----------------------------------------------------------------------------
(* Durations in a machine word.                                            *)

\* Quotient and remainder.
LEMMA DivMod ==
    ASSUME NEW x \in Int, NEW W \in Nat \ {0}
    PROVE  /\ x = W * (x \div W) + (x % W)
           /\ x % W \in 0 .. (W - 1)
           /\ x \div W \in Int
OBVIOUS

\* The only multiple of W strictly between -W and W is 0.
LEMMA SmallMultiple ==
    ASSUME NEW k \in Int, NEW W \in Nat \ {0}, W * k < W, 0 - W < W * k
    PROVE  k = 0
<1>1. CASE k >= 1
    BY <1>1
<1>2. CASE k <= -1
    BY <1>2
<1> QED
    BY <1>1, <1>2

\* Remainders are unique.
LEMMA UniqueRemainder ==
    ASSUME NEW W \in Nat \ {0}, NEW d \in Int, NEW e \in Int,
           NEW m \in 0 .. (W - 1), NEW n \in 0 .. (W - 1),
           W * d + m = W * e + n
    PROVE  m = n
<1>1. W * (d - e) = n - m
    OBVIOUS
<1>2. d - e = 0
    BY <1>1, SmallMultiple
<1> QED
    BY <1>2

\* Subtracting a truncated start time in W-bit words gives the truncated
\* difference.
LEMMA TruncatedDifference ==
    ASSUME NEW c \in Int, NEW a \in Int, NEW W \in Nat \ {0}
    PROVE  (c - (a % W)) % W = (c - a) % W
<1> DEFINE q == a \div W
           y == c - (a % W)
           z == c - a
           d == y \div W
           m == y % W
           e == z \div W
           n == z % W
<1>1. a = W * q + (a % W) /\ q \in Int /\ a % W \in Int
    BY DivMod
<1> HIDE DEF q
<1>2. y \in Int /\ z \in Int /\ y = z + W * q
    BY <1>1
<1> HIDE DEF y, z
<1>3. y = W * d + m /\ d \in Int /\ m \in 0 .. (W - 1)
    BY <1>2, DivMod
<1>4. z = W * e + n /\ e \in Int /\ n \in 0 .. (W - 1)
    BY <1>2, DivMod
<1> HIDE DEF d, m, e, n
<1>5. e + q \in Int /\ W * (e + q) = W * e + W * q
    BY <1>1, <1>4
<1>6. W * d + m = W * (e + q) + n
    BY <1>1, <1>2, <1>3, <1>4, <1>5
<1>7. m = n
    BY <1>3, <1>4, <1>5, <1>6, UniqueRemainder
<1> QED
    BY <1>7 DEF m, n, y, z

\* The duration of a new trace is exact modulo the word, and recorded ones
\* keep theirs.
LEMMA StepDuration == IInv /\ [Next]_vars => DurationExact'
<1> SUFFICES ASSUME IInv, [Next]_vars, NEW j \in Whole'
             PROVE  made'[j].duration =
                        (made'[j].at - asked'[made'[j].path].at) % Word
    BY DEF DurationExact
<1> USE RpcProbeAssumption
<1>1. CASE j \in Made
    <2>1. SameTrace(made[j], made'[j]) /\ j \in Whole
        BY <1>1, HistoryGrows DEF Made, Whole, SameTrace
    <2>2. /\ made[j].path \in RequestId /\ asked[made[j].path] # None
          /\ asked'[made[j].path] = asked[made[j].path]
        BY <1>1, <2>1, HistoryGrows, HeldIsMade DEF Made, Trace, IInv, RequestOfThePod
    <2> QED
        BY <2>1, <2>2 DEF IInv, DurationExact, SameTrace
<1>2. CASE j \notin Made
    <2>1. PICK k \in CPU, i \in TraceId, t \in Tuple, type \in RpcTypes,
               s \in TcpSeq :
                ResponseLookup(k, i, t, type, s)
        BY <1>2, HistoryGrows DEF Whole
    <2> DEFINE req == grpc_request_map[Flip(t)]
    <2>2. /\ req \in RequestId /\ asked[req] # None /\ asked[req] \in Request
          /\ made'[i].path = req /\ made'[i].at = clock
          /\ i = j
        BY <1>2, <2>1, LookupFinds DEF Made, Whole
    <2>3. /\ made'[i].duration = (clock - asked[req].start) % Word
          /\ UNCHANGED asked
        BY <2>1 DEF ResponseLookup, TraceOf, IInv, TypeOK
    <2> HIDE DEF req
    <2>4. asked[req].start = asked[req].at % Word /\ asked[req].at \in Int
          /\ clock \in Int
        BY <2>2 DEF IInv, TypeOK, Recorded, Request
    <2>5. (clock - (asked[req].at % Word)) % Word = (clock - asked[req].at) % Word
        BY <2>4, TruncatedDifference
    <2> QED
        BY <2>2, <2>3, <2>4, <2>5
<1> QED
    BY <1>1, <1>2

-----------------------------------------------------------------------------
(* The theorems.                                                           *)

\* Every conjunct of the inductive invariant is preserved by every step.
LEMMA StepIInv == IInv /\ [Next]_vars => IInv'
BY StepTypeOK, StepPlaces, StepKeys, StepRecorded, StepInFlight, StepOneAtATime,
   StepDuration DEF IInv

\* The inductive invariant holds throughout.
LEMMA Invariance == Spec => []IInv
BY InitIInv, StepIInv, PTL DEF Spec

\* Type correctness: among others, a duration fits the 32-bit field.
THEOREM TypeCorrect == Spec => []TypeOK
<1>1. IInv => TypeOK
    BY DEF IInv
<1> QED
    BY <1>1, Invariance, PTL

\* No hand-over between filter, maps, goroutines and channels forgets a trace,
\* revives one that was settled, or lets one trace be in two places.
THEOREM NoTraceForgottenOrCopied == Spec => [](Conserved /\ OnePlace)
<1>1. IInv => Conserved /\ OnePlace
    BY DEF IInv
<1> QED
    BY <1>1, Invariance, PTL

\* The panic behind a failing m.Delete(key) in the reader is unreachable.
THEOREM DeleteNeverMisses == Spec => []DeleteFindsKey
<1>1. IInv => DeleteFindsKey
    BY DEF IInv
<1> QED
    BY <1>1, Invariance, PTL

\* Only a response with the same TCP sequence number can push a stored trace
\* out of grpc_trace_map.
THEOREM OnlySameSeqDisplaces == Spec => []LostToSameSeq
<1>1. IInv => LostToSameSeq
    BY DEF IInv
<1> QED
    BY <1>1, Invariance, PTL

\* A trace belongs to an earlier request of its own connection, which the pod
\* sent if filter_map was set when it was recorded.
THEOREM TracesMatchRequests == Spec => []RequestOfThePod
<1>1. IInv => RequestOfThePod
    BY DEF IInv
<1> QED
    BY <1>1, Invariance, PTL

\* With the packets of each connection filtered one at a time, no request is
\* traced twice.
THEOREM RequestsTracedOnce == Spec => []OneTracePerRequest
<1>1. IInv => OneTracePerRequest
    BY DEF IInv
<1> QED
    BY <1>1, Invariance, PTL

\* However the packets of a connection are spread over CPUs, a response deletes the
\* request it answers or one that came after it had looked that one up, and only
\* of its own connection; filtered one at a time, only the request it answers.
THEOREM DeletesTheRequestItAnswers == Spec => OnlyAnsweredRequestsLeave
<1> DEFINE Leave ==
        \A t \in Tuple :
            grpc_request_map[t] # None /\ grpc_request_map'[t] = None =>
                \E k \in CPU :
                    /\ cpu[k] # None
                    /\ made[cpu[k]].tuple = t
                    /\ \/ made[cpu[k]].path = grpc_request_map[t]
                       \/ /\ t[1] \notin Pinned
                          /\ asked[grpc_request_map[t]].at >= made[cpu[k]].at
<1>1. IInv /\ [Next]_vars => [Leave]_vars
    <2> SUFFICES ASSUME IInv, Next, NEW t \in Tuple,
                        grpc_request_map[t] # None, grpc_request_map'[t] = None
                 PROVE  \E k \in CPU :
                            /\ cpu[k] # None
                            /\ made[cpu[k]].tuple = t
                            /\ \/ made[cpu[k]].path = grpc_request_map[t]
                               \/ /\ t[1] \notin Pinned
                                  /\ asked[grpc_request_map[t]].at >= made[cpu[k]].at
        OBVIOUS
    <2>1. CASE \E r \in RequestId, u \in Tuple, ping \in BOOLEAN :
                   RequestPacket(r, u, ping)
        BY <2>1, RpcProbeAssumption DEF RequestPacket, UpdateElem, IInv, TypeOK
    <2>2. CASE \E k \in CPU : ResponseStore(k)
        <3>1. PICK k \in CPU : ResponseStore(k)
            BY <2>2
        <3>2. cpu[k] # None /\ t = made[cpu[k]].tuple
            BY <3>1 DEF ResponseStore, RequestsAfter, IInv, TypeOK
        <3>3. t[1] \in Pinned => made[cpu[k]].path = grpc_request_map[t]
            BY <3>2, HeldIsMade DEF IInv, OneAtATime, InOrder, Made
        <3>4. \/ made[cpu[k]].path = grpc_request_map[t]
              \/ asked[grpc_request_map[t]].at >= made[cpu[k]].at
            BY <3>2 DEF IInv, InFlight
        <3> QED
            BY <3>2, <3>3, <3>4
    <2>3. ~UNCHANGED grpc_request_map
        OBVIOUS
    <2> QED
        BY <2>1, <2>2, <2>3 DEF Next, Tick, PutFilter, ResponseLookup, CopyOvertaken,
           ReaderNext, ReaderDelete, ReaderSend, SenderReceive, SenderForward
<1> QED
    BY <1>1, Invariance, PTL DEF Spec, OnlyAnsweredRequestsLeave

\* A reported duration is the elapsed time modulo 2^32 ns, whatever the clock
\* was when the request was seen.
THEOREM DurationsAreExact == Spec => []DurationExact
<1>1. IInv => DurationExact
    BY DEF IInv
<1> QED
    BY <1>1, Invariance, PTL

-----------------------------------------------------------------------------
(* The probe implements the at-most-once stage.                            *)

\* A step that changes the fate of one flying trace is a step of Delivery.
LEMMA SettleOne ==
    ASSUME TypeOK, NEW i \in TraceId, fate[i] = "flying", NEW f \in Fates,
           fate' = [fate EXCEPT ![i] = f]
    PROVE  /\ f \in {"overwritten", "rejected", "unread", "skipped"} =>
                  D!Lose({i})
           /\ f = "reported" => D!Deliver({i})
<1>1. \A j \in TraceId : fate'[j] = IF j = i THEN f ELSE fate[j]
    BY DEF TypeOK
<1> QED
    BY <1>1 DEF D!Lose, D!Deliver, Settled

\* Every step of the probe is a step of Delivery or leaves it alone.
LEMMA StepDelivery == IInv /\ [Next]_vars => [D!Next]_D!vars
<1> SUFFICES ASSUME IInv, [Next]_vars PROVE [D!Next]_D!vars
    OBVIOUS
<1> USE RpcProbeAssumption
<1>0. ASSUME UNCHANGED fate PROVE UNCHANGED D!vars
    BY <1>0 DEF D!vars, Settled
<1>l. ASSUME NEW i \in TraceId, D!Lose({i}) \/ D!Deliver({i}) PROVE D!Next
    BY <1>l DEF D!Next
<1>1. ASSUME NEW k \in CPU, NEW i \in TraceId, NEW t \in Tuple,
             NEW type \in RpcTypes, NEW s \in TcpSeq,
             ResponseLookup(k, i, t, type, s)
      PROVE  D!Next
    <2>1. fate[i] = "none" /\
          \A j \in TraceId : fate'[j] = IF j = i THEN "flying" ELSE fate[j]
        BY <1>1 DEF ResponseLookup, IInv, TypeOK
    <2>2. D!Accept({i}, {})
        BY <2>1 DEF D!Accept, D!Known, Settled
    <2>3. {i} \in SUBSET TraceId /\ {} \in SUBSET TraceId
        OBVIOUS
    <2> QED
        BY <2>2, <2>3 DEF D!Next
<1>2. ASSUME NEW k \in CPU, ResponseStore(k) PROVE [D!Next]_D!vars
    <2> DEFINE i == cpu[k]
               s == made[i].seq
               old == grpc_trace_map[s]
    <2>1. /\ i \in TraceId /\ fate[i] = "flying"
          /\ old # None => old \in TraceId /\ fate[old] = "flying"
        BY <1>2, HeldIsMade DEF ResponseStore, Trace
    <2>2. \/ fate' = [fate EXCEPT ![i] = "rejected"]
          \/ old # None /\ fate' = [fate EXCEPT ![old] = "overwritten"]
          \/ UNCHANGED fate
        BY <1>2 DEF ResponseStore, KeyOf
    <2> HIDE DEF i, s, old
    <2>3. CASE fate' = [fate EXCEPT ![i] = "rejected"]
        BY <2>1, <2>3, <1>l, SettleOne DEF IInv, Fates
    <2>4. CASE old # None /\ fate' = [fate EXCEPT ![old] = "overwritten"]
        BY <2>1, <2>4, <1>l, SettleOne DEF IInv, Fates
    <2> QED
        BY <2>2, <2>3, <2>4, <1>0
<1>3. CASE ReaderDelete
    <2> DEFINE now == grpc_trace_map[reader.key]
    <2>1. now \in TraceId /\ fate[now] = "flying"
        BY <1>3, HeldIsMade DEF ReaderDelete, IInv, Held
    <2>2. fate' = [fate EXCEPT ![now] = "unread"] \/ UNCHANGED fate
        BY <1>3 DEF ReaderDelete
    <2> QED
        BY <2>1, <2>2, <1>0, <1>l, SettleOne DEF IInv, Fates
<1>4. CASE SenderReceive
    <2> DEFINE h == Head(Ch)
    <2>1. h \in TraceId /\ InCh(h)
        BY <1>4, HeadTail DEF SenderReceive, IInv, TypeOK, InCh
    <2>2. fate[h] = "flying"
        BY <2>1 DEF IInv, Conserved
    <2>3. fate' = [fate EXCEPT ![h] = "skipped"] \/ UNCHANGED fate
        BY <1>4 DEF SenderReceive
    <2> QED
        BY <2>1, <2>2, <2>3, <1>0, <1>l, SettleOne DEF IInv, Fates
<1>5. CASE SenderForward
    <2>1. /\ sender \in TraceId /\ fate[sender] = "flying"
          /\ fate' = [fate EXCEPT ![sender] = "reported"]
        BY <1>5 DEF SenderForward, IInv, TypeOK, Conserved, AtSender
    <2> QED
        BY <2>1, <1>l, SettleOne DEF IInv, Fates
<1>6. CASE Tick \/ PutFilter \/ ReaderSend \/ UNCHANGED vars
              \/ (\E s \in TcpSeq : ReaderNext(s))
              \/ (\E r \in RequestId, t \in Tuple, ping \in BOOLEAN :
                     RequestPacket(r, t, ping))
              \/ (\E k \in CPU : CopyOvertaken(k))
    BY <1>6, <1>0 DEF Tick, PutFilter, RequestPacket, ReaderNext, ReaderSend,
                      CopyOvertaken, vars
<1> QED
    BY <1>1, <1>2, <1>3, <1>4, <1>5, <1>6 DEF Next

\* The probe accepts each trace once and either reports it once or loses it.
THEOREM ProbeImplementsDelivery == Spec => RefinesDelivery
<1>1. Init => D!Init
    BY DEF Init, D!Init, Settled
<1> QED
    BY <1>1, StepDelivery, Invariance, PTL DEF Spec, RefinesDelivery, D!Spec

=============================================================================
