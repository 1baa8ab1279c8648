--------------------------- MODULE HttpProbeProofs ---------------------------
(***************************************************************************)
(* Theorems about the http probe, for any number of connections, CPUs and  *)
(* requests and any capacity of the maps and of the channel.               *)
(***************************************************************************)
EXTENDS HttpProbe, FiniteSetTheorems, TLAPS

-----------------------------------------------------------------------------
(* The inductive invariant.                                                *)

\* What keeps the state well typed: the reader holds an exchange except at
\* Next, and the maps hold finitely many.
ReaderHolds ==
    /\ reader.pc # "next" => reader.key \in Conn /\ reader.val \in Exchange
    /\ reader.pc = "next" => reader.val = None

FiniteMaps ==
    IsFiniteSet(Used(http_processing_map)) /\ IsFiniteSet(Used(metrics_map))

Typed == TypeOK /\ ReaderHolds /\ FiniteMaps

Answered(i) == fate[i] \notin {"none", "asked", "unanswered"}

\* Whoever holds an exchange holds it under its own connection, and all but
\* http_processing_map hold answered ones only.
HeldByConnection ==
    /\ \A i \in Exchange : fate[i] = "none" <=> conn[i] = None
    /\ \A c \in Conn : http_processing_map[c] # None =>
           /\ conn[http_processing_map[c]] = c
           /\ fate[http_processing_map[c]] \notin {"none", "unanswered"}
    /\ \A c \in Conn : metrics_map[c] # None =>
           conn[metrics_map[c]] = c /\ Answered(metrics_map[c])
    /\ \A k \in CPU : cpu[k].val # None =>
           conn[cpu[k].val] = cpu[k].conn /\ Answered(cpu[k].val)
    /\ reader.pc # "next" => conn[reader.val] = reader.key /\ Answered(reader.val)
    /\ \A n \in DOMAIN ch : Answered(ch[n])
    /\ exporter # None => Answered(exporter)

\* On a connection whose packets are filtered one at a time, one CPU at most is
\* busy, the request it matched is the one in http_processing_map until it
\* deletes it, and what it will store has not been stored before.
OneAtATime ==
    \A c \in Pinned :
        /\ \A k, l \in CPU : cpu[k].conn = c /\ cpu[l].conn = c => k = l
        /\ \A k \in CPU : cpu[k].conn = c =>
               /\ cpu[k].pc = "matched" => http_processing_map[c] = cpu[k].val
               /\ cpu[k].pc = "deleted" => http_processing_map[c] = None
               /\ metrics_map[c] # cpu[k].val
               /\ reader.val # cpu[k].val
        /\ (\A k \in CPU : cpu[k].conn # c) /\ http_processing_map[c] # None =>
               fate[http_processing_map[c]] = "asked"

\* The places of an exchange, as functions of the state's parts: a CPU, an entry
\* of metrics_map that the reader has not taken, the channel, the reader's hand.
CpuHas(cs, i) == \E k \in CPU : cs[k].val = i

MapHas(mm, rd, i) ==
    \E c \in Conn : mm[c] = i /\ ~(rd.pc # "next" /\ rd.key = c /\ rd.val = mm[c])

ChHas(q, i) == \E n \in DOMAIN q : q[n] = i

HandHas(rd, i) == rd.pc \in {"decode", "send"} /\ rd.val = i

CpuOnce(cs, i) == \A k, l \in CPU : cs[k].val = i /\ cs[l].val = i => k = l

ChOnce(q, i) == \A m, n \in DOMAIN q : q[m] = i /\ q[n] = i => m = n

\* A flying exchange is in some place, and only flying ones are.
Conserved ==
    \A i \in InOrder :
        fate[i] = "flying" <=>
            \/ CpuHas(cpu, i) \/ MapHas(metrics_map, reader, i) \/ ChHas(ch, i)
            \/ HandHas(reader, i) \/ exporter = i

\* It is in one place only.
OnePlace ==
    \A i \in InOrder :
        /\ CpuHas(cpu, i) => /\ ~MapHas(metrics_map, reader, i) /\ ~ChHas(ch, i)
                             /\ ~HandHas(reader, i) /\ exporter # i
        /\ MapHas(metrics_map, reader, i) => ~ChHas(ch, i) /\ ~HandHas(reader, i) /\ exporter # i
        /\ ChHas(ch, i) => ~HandHas(reader, i) /\ exporter # i
        /\ HandHas(reader, i) => exporter # i
        /\ CpuOnce(cpu, i) /\ ChOnce(ch, i)

IInv ==
    /\ Typed
    /\ SlotsKept => /\ HeldByConnection /\ LostToSameConnection
                    /\ OneAtATime /\ Conserved /\ OnePlace

-----------------------------------------------------------------------------
(* Channels and kernel maps.                                               *)

\* What receiving the head of a channel leaves in it.
LEMMA HeadTail ==
    ASSUME NEW S, NEW q \in Seq(S), q # <<>>
    PROVE  /\ Head(q) \in S /\ Head(q) = q[1] /\ 1 \in DOMAIN q
           /\ Tail(q) \in Seq(S) /\ Len(Tail(q)) = Len(q) - 1
           /\ \A n \in DOMAIN Tail(q) :
                  n \in Nat /\ n + 1 \in DOMAIN q /\ n + 1 # 1 /\ Tail(q)[n] = q[n + 1]
           /\ \A n \in DOMAIN q :
                  n # 1 => n - 1 \in DOMAIN Tail(q) /\ Tail(q)[n - 1] = q[n]
OBVIOUS

\* What sending an element leaves in a channel.
LEMMA AppendSeq ==
    ASSUME NEW S, NEW q \in Seq(S), NEW e \in S
    PROVE  /\ Append(q, e) \in Seq(S) /\ Len(Append(q, e)) = Len(q) + 1
           /\ Len(q) + 1 \notin DOMAIN q
           /\ DOMAIN Append(q, e) = DOMAIN q \cup {Len(q) + 1}
           /\ \A n \in DOMAIN q : Append(q, e)[n] = q[n]
           /\ Append(q, e)[Len(q) + 1] = e
OBVIOUS

\* bpf_map_update_elem keeps a map within its max_entries.
LEMMA UpdateBound ==
    ASSUME NEW K, NEW V, NEW map \in [K -> V \cup {None}], NEW key \in K, NEW val \in V,
           NEW max \in Nat, IsFiniteSet(Used(map)), Cardinality(Used(map)) <= max
    PROVE  /\ UpdateElem(map, key, val, max) \in [K -> V \cup {None}]
           /\ IsFiniteSet(Used(UpdateElem(map, key, val, max)))
           /\ Cardinality(Used(UpdateElem(map, key, val, max))) <= max
<1> DEFINE new == [map EXCEPT ![key] = val]
<1>1. new \in [K -> V \cup {None}] /\ DOMAIN new = K /\ DOMAIN map = K
    OBVIOUS
<1>2. Cardinality(Used(map)) \in Nat
    BY FS_CardinalityType
<1>3. CASE ~Fits(map, key, max)
    BY <1>3 DEF UpdateElem
<1>4. CASE Fits(map, key, max)
    <2>0. UpdateElem(map, key, val, max) = new
        BY <1>4 DEF UpdateElem
    <2>1. Used(new) \in SUBSET (Used(map) \cup {key})
        BY DEF Used
    <2>2. map[key] # None => Used(map) \cup {key} = Used(map)
        BY DEF Used
    <2>3. /\ IsFiniteSet(Used(map) \cup {key})
          /\ Cardinality(Used(map) \cup {key}) \in Nat
          /\ Cardinality(Used(map) \cup {key}) <= Cardinality(Used(map)) + 1
        <3>1. /\ IsFiniteSet(Used(map) \cup {key})
              /\ Cardinality(Used(map) \cup {key}) =
                     IF key \in Used(map) THEN Cardinality(Used(map)) ELSE Cardinality(Used(map)) + 1
            BY FS_AddElement
        <3> QED BY <1>2, <3>1
    <2>4. Cardinality(Used(map) \cup {key}) <= max
        BY <1>2, <1>4, <2>2, <2>3 DEF Fits
    <2>5. /\ IsFiniteSet(Used(new)) /\ Cardinality(Used(new)) \in Nat
          /\ Cardinality(Used(new)) <= Cardinality(Used(map) \cup {key})
        BY <2>1, <2>3, FS_Subset, FS_CardinalityType
    <2> HIDE DEF new
    <2>6. Cardinality(Used(new)) <= max
        BY <2>3, <2>4, <2>5
    <2> QED
        BY <1>1, <2>0, <2>5, <2>6
<1> QED
    BY <1>3, <1>4

\* bpf_map_delete_elem does too.
LEMMA DeleteBound ==
    ASSUME NEW K, NEW V, NEW map \in [K -> V \cup {None}], NEW key,
           NEW max \in Nat, IsFiniteSet(Used(map)), Cardinality(Used(map)) <= max
    PROVE  /\ DeleteElem(map, key) \in [K -> V \cup {None}]
           /\ IsFiniteSet(Used(DeleteElem(map, key)))
           /\ Cardinality(Used(DeleteElem(map, key))) <= max
<1> DEFINE new == DeleteElem(map, key)
<1>1. new \in [K -> V \cup {None}]
    BY DEF DeleteElem
<1>2. Used(new) \in SUBSET Used(map)
    BY DEF DeleteElem, Used
<1> HIDE DEF new
<1>3. /\ IsFiniteSet(Used(new)) /\ Cardinality(Used(new)) <= Cardinality(Used(map))
      /\ Cardinality(Used(new)) \in Nat /\ Cardinality(Used(map)) \in Nat
    BY <1>2, FS_Subset, FS_CardinalityType
<1>4. Cardinality(Used(new)) <= max
    BY <1>3
<1> QED
    BY <1>1, <1>3, <1>4 DEF new

-----------------------------------------------------------------------------
(* Type correctness.                                                       *)

\* The probe starts with empty maps of the right types and no reader at work.
LEMMA InitTyped == Init => Typed
<1> SUFFICES ASSUME Init PROVE Typed
    OBVIOUS
<1> USE HttpProbeAssumption DEF Init
<1>1. Used(http_processing_map) = {} /\ Used(metrics_map) = {}
    BY DEF Used
<1>2. FiniteMaps /\ Cardinality(Used(http_processing_map)) = 0 /\ Cardinality(Used(metrics_map)) = 0
    BY <1>1, FS_EmptySet DEF FiniteMaps
<1>3. ReaderHolds
    BY DEF ReaderHolds
<1>4. TypeOK
    <2>1. reader \in [pc : {"next", "decode", "send", "delete", "ended"},
                   key : Conn \cup {None}, val : Exchange \cup {None}]
        OBVIOUS
    <2>2. ch \in Seq(Exchange) /\ Len(ch) <= ChCap
        OBVIOUS
    <2>3. /\ Cardinality(Used(http_processing_map)) <= ProcessingMax
          /\ Cardinality(Used(metrics_map)) <= MetricsMax
        BY <1>2
    <2>4. cpu \in [CPU -> {Idle} \cup [pc : {"matched", "deleted"}, conn : Conn,
                                        val : Exchange]]
        OBVIOUS
    <2>5. /\ filter_map \in BOOLEAN
          /\ http_processing_map \in [Conn -> Exchange \cup {None}]
          /\ metrics_map \in [Conn -> Exchange \cup {None}]
          /\ exporter \in Exchange \cup {None}
          /\ conn \in [Exchange -> Conn \cup {None}]
          /\ answered \in [Conn -> Nat] /\ sent \in [Conn -> Nat]
          /\ fate \in [Exchange -> Fates]
        BY DEF Fates
    <2> QED
        BY <2>1, <2>2, <2>3, <2>4, <2>5 DEF TypeOK
<1> QED
    BY <1>2, <1>3, <1>4 DEF Typed

\* Every step keeps the state well typed.
LEMMA StepTyped == Typed /\ [Next]_vars => Typed'
<1> SUFFICES ASSUME Typed, [Next]_vars PROVE Typed'
    OBVIOUS
<1> USE HttpProbeAssumption
<1>0. TypeOK /\ ReaderHolds /\ FiniteMaps
    BY DEF Typed
<1>t. /\ cpu \in [CPU -> {Idle} \cup [pc : {"matched", "deleted"}, conn : Conn, val : Exchange]]
      /\ reader \in [pc : {"next", "decode", "send", "delete", "ended"},
                     key : Conn \cup {None}, val : Exchange \cup {None}]
      /\ fate \in [Exchange -> Fates]
    BY <1>0 DEF TypeOK
<1>c. answered' \in [Conn -> Nat] /\ sent' \in [Conn -> Nat]
    <2>1. /\ \/ answered' = answered
             \/ \E c \in Conn : answered' = [answered EXCEPT ![c] = @ + 1]
          /\ sent' = sent \/ sent' = [sent EXCEPT ![reader.key] = @ + 1]
        BY DEF Next, PutFilter, RequestPacket, ResponseMatch, ResponseDelete, ResponseStore,
               ReaderNext, ReaderDecode, ReaderSend, ReaderDelete, ExportReceive,
               ExportForward, vars
    <2>2. answered \in [Conn -> Nat] /\ sent \in [Conn -> Nat]
        BY <1>0 DEF TypeOK
    <2> QED
        BY <2>1, <2>2
<1>1. CASE PutFilter
    BY <1>0, <1>c, <1>1 DEF PutFilter, Typed, TypeOK, ReaderHolds, FiniteMaps
<1>2. ASSUME NEW i \in Exchange, NEW c \in Conn, NEW v \in Exchange \cup {None},
             RequestPacket(i, c, v)
      PROVE  Typed'
    <2>1. /\ http_processing_map' \in [Conn -> Exchange \cup {None}]
          /\ IsFiniteSet(Used(http_processing_map'))
          /\ Cardinality(Used(http_processing_map')) <= ProcessingMax
        BY <1>0, <1>2, UpdateBound DEF RequestPacket, TypeOK, FiniteMaps
    <2>2. conn' \in [Exchange -> Conn \cup {None}]
        BY <1>0, <1>2 DEF RequestPacket, TypeOK
    <2>3. fate' \in [Exchange -> Fates]
        BY <1>0, <1>2 DEF RequestPacket, TypeOK, Unanswered, Fates
    <2>4. cpu' \in [CPU -> {Idle} \cup [pc : {"matched", "deleted"}, conn : Conn,
                                        val : Exchange]]
        <3> SUFFICES ASSUME NEW k \in CPU
                     PROVE  cpu'[k] \in {Idle} \cup [pc : {"matched", "deleted"}, conn : Conn,
                                                     val : Exchange]
            BY <1>2 DEF RequestPacket
        <3>1. CASE v # None /\ cpu[k].val = v
            <4>1. cpu[k] # Idle /\ cpu'[k] = [cpu[k] EXCEPT !.val = i]
                BY <1>2, <3>1 DEF RequestPacket, Idle
            <4> QED BY <1>t, <4>1
        <3>2. CASE ~(v # None /\ cpu[k].val = v)
            BY <1>0, <1>2, <3>2 DEF RequestPacket, TypeOK
        <3> QED BY <3>1, <3>2
    <2> QED
        BY <1>0, <1>c, <1>2, <2>1, <2>2, <2>3, <2>4
           DEF RequestPacket, Typed, TypeOK, ReaderHolds, FiniteMaps
<1>3. ASSUME NEW k \in CPU, NEW c \in Conn, ResponseMatch(k, c) PROVE Typed'
    BY <1>0, <1>c, <1>3 DEF ResponseMatch, Typed, TypeOK, ReaderHolds, FiniteMaps, Fates
<1>4. ASSUME NEW k \in CPU, ResponseDelete(k) PROVE Typed'
    <2>1. /\ http_processing_map' \in [Conn -> Exchange \cup {None}]
          /\ IsFiniteSet(Used(http_processing_map'))
          /\ Cardinality(Used(http_processing_map')) <= ProcessingMax
        BY <1>0, <1>4, DeleteBound DEF ResponseDelete, TypeOK, FiniteMaps
    <2>2. fate' \in [Exchange -> Fates]
        BY <1>0, <1>4 DEF ResponseDelete, TypeOK, Unanswered, Fates
    <2>3. cpu' \in [CPU -> {Idle} \cup [pc : {"matched", "deleted"}, conn : Conn,
                                        val : Exchange]]
        BY <1>t, <1>4 DEF ResponseDelete, Idle
    <2> QED
        BY <1>0, <1>c, <1>4, <2>1, <2>2, <2>3
           DEF ResponseDelete, Typed, TypeOK, ReaderHolds, FiniteMaps
<1>5. ASSUME NEW k \in CPU, ResponseStore(k) PROVE Typed'
    <2>0. cpu[k].conn \in Conn /\ cpu[k].val \in Exchange
        BY <1>0, <1>5 DEF ResponseStore, TypeOK, Idle
    <2>1. /\ metrics_map' \in [Conn -> Exchange \cup {None}]
          /\ IsFiniteSet(Used(metrics_map'))
          /\ Cardinality(Used(metrics_map')) <= MetricsMax
        BY <1>0, <1>5, <2>0, UpdateBound DEF ResponseStore, MetricsKey, TypeOK, FiniteMaps
    <2>2. fate' \in [Exchange -> Fates]
        BY <1>0, <1>5, <2>0 DEF ResponseStore, TypeOK, Fates
    <2>3. cpu' \in [CPU -> {Idle} \cup [pc : {"matched", "deleted"}, conn : Conn,
                                        val : Exchange]]
        BY <1>0, <1>5 DEF ResponseStore, TypeOK
    <2> QED
        BY <1>0, <1>c, <1>5, <2>1, <2>2, <2>3
           DEF ResponseStore, Typed, TypeOK, ReaderHolds, FiniteMaps
<1>6. ASSUME NEW c \in Conn, ReaderNext(c) PROVE Typed'
    BY <1>0, <1>c, <1>6 DEF ReaderNext, Typed, TypeOK, ReaderHolds, FiniteMaps
<1>7. CASE ReaderDecode
    <2>1. reader' \in [pc : {"next", "decode", "send", "delete", "ended"},
                       key : Conn \cup {None}, val : Exchange \cup {None}]
        BY <1>t, <1>7 DEF ReaderDecode
    <2>2. fate' \in [Exchange -> Fates]
        BY <1>t, <1>7 DEF ReaderDecode, Fates
    <2>3. ReaderHolds'
        BY <1>0, <1>t, <1>7 DEF ReaderDecode, ReaderHolds
    <2> QED
        BY <1>0, <1>c, <1>7, <2>1, <2>2, <2>3 DEF ReaderDecode, Typed, TypeOK, FiniteMaps
<1>8. CASE ReaderSend
    <2>1. ch' \in Seq(Exchange) /\ Len(ch') <= ChCap
        BY <1>0, <1>8, AppendSeq DEF ReaderSend, TypeOK, ReaderHolds
    <2> QED
        BY <1>0, <1>c, <1>8, <2>1 DEF ReaderSend, Typed, TypeOK, ReaderHolds, FiniteMaps
<1>9. CASE ReaderDelete
    <2>1. /\ metrics_map' \in [Conn -> Exchange \cup {None}]
          /\ IsFiniteSet(Used(metrics_map'))
          /\ Cardinality(Used(metrics_map')) <= MetricsMax
        BY <1>0, <1>9, DeleteBound DEF ReaderDelete, MetricsAfterRead, TypeOK, FiniteMaps
    <2>2. fate' \in [Exchange -> Fates]
        BY <1>0, <1>9 DEF ReaderDelete, TypeOK, Fates
    <2>3. reader' \in [pc : {"next", "decode", "send", "delete", "ended"},
                       key : Conn \cup {None}, val : Exchange \cup {None}]
          /\ ReaderHolds'
        BY <1>9 DEF ReaderDelete, ReaderHolds
    <2> QED
        BY <1>0, <1>c, <1>9, <2>1, <2>2, <2>3 DEF ReaderDelete, Typed, TypeOK, FiniteMaps
<1>10. ASSUME NEW external \in BOOLEAN, ExportReceive(external) PROVE Typed'
    <2>1. ch' \in Seq(Exchange) /\ Len(ch') <= ChCap /\ Head(ch) \in Exchange
        BY <1>0, <1>10, HeadTail DEF ExportReceive, TypeOK
    <2>2. fate' \in [Exchange -> Fates] /\ exporter' \in Exchange \cup {None}
        BY <1>0, <1>10, <2>1 DEF ExportReceive, TypeOK, Fates, ExporterSkips
    <2> QED
        BY <1>0, <1>c, <1>10, <2>1, <2>2 DEF ExportReceive, Typed, TypeOK, ReaderHolds, FiniteMaps
<1>11. CASE ExportForward
    BY <1>0, <1>c, <1>11 DEF ExportForward, Typed, TypeOK, ReaderHolds, FiniteMaps, Fates
<1>12. CASE UNCHANGED vars
    BY <1>0, <1>c, <1>12 DEF vars, Typed, TypeOK, ReaderHolds, FiniteMaps
<1> QED
    BY <1>1, <1>2, <1>3, <1>4, <1>5, <1>6, <1>7, <1>8, <1>9, <1>10, <1>11, <1>12 DEF Next

\* The probe keeps its state well typed: the maps never hold more than their
\* max_entries and the channel never more than its capacity.
THEOREM TypeCorrect == Spec => []TypeOK
<1>1. Typed => TypeOK
    BY DEF Typed
<1> QED
    BY <1>1, InitTyped, StepTyped, PTL DEF Spec

-----------------------------------------------------------------------------
(* Metrics are paid for by responses, however slots are reused.            *)

\* A response that a CPU has matched, an entry the reader has not taken and the
\* entry it is about to send are each worth one metric of their connection.  No
\* step makes a metric of a connection worth another one's.
BusyOn(c) == {k \in CPU : cpu[k].conn = c}
InHand(c) == reader.pc \in {"decode", "send"} /\ reader.key = c
Stored(c) == metrics_map[c] # None /\ ~Taken(c)
Unit(b) == IF b THEN 1 ELSE 0

Paid ==
    \A c \in Conn :
        /\ IsFiniteSet(BusyOn(c))
        /\ sent[c] + Unit(InHand(c)) + Unit(Stored(c)) + Cardinality(BusyOn(c)) <= answered[c]

\* Every step keeps the metrics of a connection within its matched responses.
LEMMA StepPaid == Typed /\ Paid /\ [Next]_vars => Paid'
<1> SUFFICES ASSUME Typed, Paid, [Next]_vars, NEW c \in Conn
             PROVE  /\ IsFiniteSet(BusyOn(c)')
                    /\ sent'[c] + Unit(InHand(c)') + Unit(Stored(c)') + Cardinality(BusyOn(c)')
                           <= answered'[c]
    BY DEF Paid
<1> USE HttpProbeAssumption
<1> DEFINE Goal == /\ IsFiniteSet(BusyOn(c)')
                   /\ sent'[c] + Unit(InHand(c)') + Unit(Stored(c)') + Cardinality(BusyOn(c)')
                          <= answered'[c]
<1>t. /\ cpu \in [CPU -> {Idle} \cup [pc : {"matched", "deleted"}, conn : Conn, val : Exchange]]
      /\ reader \in [pc : {"next", "decode", "send", "delete", "ended"},
                     key : Conn \cup {None}, val : Exchange \cup {None}]
      /\ metrics_map \in [Conn -> Exchange \cup {None}]
      /\ answered \in [Conn -> Nat] /\ sent \in [Conn -> Nat]
      /\ reader.pc # "next" => reader.key \in Conn
    BY DEF Typed, TypeOK, ReaderHolds
<1>p. /\ IsFiniteSet(BusyOn(c))
      /\ sent[c] + Unit(InHand(c)) + Unit(Stored(c)) + Cardinality(BusyOn(c)) <= answered[c]
    BY DEF Paid
<1>n. Cardinality(BusyOn(c)) \in Nat /\ answered[c] \in Nat /\ sent[c] \in Nat
    BY <1>t, <1>p, FS_CardinalityType
<1>o. \A b : Unit(b) = 0 \/ Unit(b) = 1
    BY DEF Unit
<1>b. ASSUME \A k \in CPU : cpu'[k].conn = cpu[k].conn PROVE BusyOn(c)' = BusyOn(c)
    BY <1>b DEF BusyOn
\* A step that changes nothing of connection c.
<1>u. ASSUME BusyOn(c)' = BusyOn(c), InHand(c)' = InHand(c), Stored(c)' = Stored(c),
             sent'[c] = sent[c], answered'[c] = answered[c]
      PROVE  Goal
    BY <1>u, <1>p
<1>1. CASE PutFilter \/ UNCHANGED vars
    <2>1. UNCHANGED <<cpu, reader, metrics_map, sent, answered>>
        BY <1>1 DEF PutFilter, vars
    <2> QED
        BY <2>1, <1>u DEF BusyOn, InHand, Stored, Taken
<1>2. ASSUME NEW i \in Exchange, NEW d \in Conn, NEW v \in Exchange \cup {None},
             RequestPacket(i, d, v)
      PROVE  Goal
    <2>1. \A k \in CPU : cpu'[k].conn = cpu[k].conn
        BY <1>t, <1>2 DEF RequestPacket, Idle
    <2>2. UNCHANGED <<reader, metrics_map, sent, answered>>
        BY <1>2 DEF RequestPacket
    <2> QED
        BY <2>1, <2>2, <1>b, <1>u DEF InHand, Stored, Taken
<1>3. ASSUME NEW k \in CPU, NEW d \in Conn, ResponseMatch(k, d) PROVE Goal
    <2>1. UNCHANGED <<reader, metrics_map, sent>> /\ cpu[k] = Idle
        BY <1>3 DEF ResponseMatch
    <2>2. \A l \in CPU : cpu'[l].conn = IF l = k THEN d ELSE cpu[l].conn
        BY <1>t, <1>3 DEF ResponseMatch
    <2>3. InHand(c)' = InHand(c) /\ Stored(c)' = Stored(c) /\ sent'[c] = sent[c]
        BY <2>1 DEF InHand, Stored, Taken
    <2>4. k \notin BusyOn(c)
        BY <2>1 DEF BusyOn, Idle
    <2>5. CASE d # c
        <3>1. BusyOn(c)' = BusyOn(c) /\ answered'[c] = answered[c]
            BY <1>t, <1>3, <2>2, <2>4, <2>5 DEF BusyOn, ResponseMatch
        <3> QED
            BY <3>1, <2>3, <1>u
    <2>6. CASE d = c
        <3>1. BusyOn(c)' = BusyOn(c) \cup {k} /\ answered'[c] = answered[c] + 1
            BY <1>t, <1>3, <2>2, <2>6 DEF BusyOn, ResponseMatch
        <3>2. IsFiniteSet(BusyOn(c)') /\ Cardinality(BusyOn(c)') = Cardinality(BusyOn(c)) + 1
            BY <3>1, <2>4, <1>p, FS_AddElement
        <3> QED
            BY <3>1, <3>2, <2>3, <1>n, <1>o, <1>p
    <2> QED
        BY <2>5, <2>6
<1>4. ASSUME NEW k \in CPU, ResponseDelete(k) PROVE Goal
    <2>1. \A l \in CPU : cpu'[l].conn = cpu[l].conn
        BY <1>t, <1>4 DEF ResponseDelete, Idle
    <2>2. UNCHANGED <<reader, metrics_map, sent, answered>>
        BY <1>4 DEF ResponseDelete
    <2> QED
        BY <2>1, <2>2, <1>b, <1>u DEF InHand, Stored, Taken
<1>5. ASSUME NEW k \in CPU, ResponseStore(k) PROVE Goal
    <2> DEFINE d == cpu[k].conn
    <2>1. UNCHANGED <<reader, sent, answered>> /\ d \in Conn
        BY <1>t, <1>5 DEF ResponseStore, Idle
    <2>2. \A l \in CPU : cpu'[l].conn = IF l = k THEN None ELSE cpu[l].conn
        BY <1>t, <1>5 DEF ResponseStore, Idle
    <2>3. \A x \in Conn : x # d => metrics_map'[x] = metrics_map[x]
        BY <1>t, <1>5 DEF ResponseStore, MetricsKey, UpdateElem
    <2>4. InHand(c)' = InHand(c)
        BY <2>1 DEF InHand
    <2>5. CASE d # c
        <3>1. BusyOn(c)' = BusyOn(c)
            BY <2>2, <2>5 DEF BusyOn
        <3>2. Stored(c)' = Stored(c)
            BY <2>1, <2>3, <2>5 DEF Stored, Taken
        <3> QED
            BY <3>1, <3>2, <2>1, <2>4, <1>u
    <2>6. CASE d = c
        <3>1. BusyOn(c)' = BusyOn(c) \ {k} /\ k \in BusyOn(c)
            BY <2>2, <2>6 DEF BusyOn
        <3>2. IsFiniteSet(BusyOn(c)') /\ Cardinality(BusyOn(c)') = Cardinality(BusyOn(c)) - 1
            BY <3>1, <1>p, FS_RemoveElement
        <3> QED
            BY <3>2, <2>1, <2>4, <1>n, <1>o, <1>p
    <2> QED
        BY <2>5, <2>6
<1>6. ASSUME NEW d \in Conn, ReaderNext(d) PROVE Goal
    <2>1. UNCHANGED <<cpu, metrics_map, sent, answered>>
        BY <1>6 DEF ReaderNext
    <2>2. /\ reader.pc = "next" /\ metrics_map[d] # None
          /\ reader'.pc = "decode" /\ reader'.key = d /\ reader'.val = metrics_map[d]
        BY <1>6 DEF ReaderNext
    <2>3. BusyOn(c)' = BusyOn(c)
        BY <2>1 DEF BusyOn
    <2>4. CASE d # c
        <3>1. InHand(c)' = InHand(c) /\ Stored(c)' = Stored(c)
            BY <2>1, <2>2, <2>4 DEF InHand, Stored, Taken
        <3> QED
            BY <3>1, <2>1, <2>3, <1>u
    <2>5. CASE d = c
        <3>1. Unit(InHand(c)) = 0 /\ Unit(Stored(c)) = 1 /\ Unit(InHand(c)') = 1 /\ Unit(Stored(c)') = 0
            BY <2>1, <2>2, <2>5 DEF InHand, Stored, Taken, Unit
        <3> QED
            BY <3>1, <2>1, <2>3, <1>n, <1>p
    <2> QED
        BY <2>4, <2>5
<1>7. CASE ReaderDecode
    <2>1. UNCHANGED <<cpu, metrics_map, sent, answered>> /\ reader.pc = "decode"
        BY <1>7 DEF ReaderDecode
    <2>2. /\ reader'.key = reader.key /\ reader'.val = reader.val
          /\ reader'.pc = "send" \/ reader'.pc = "ended"
        BY <1>t, <1>7 DEF ReaderDecode
    <2>3. BusyOn(c)' = BusyOn(c) /\ Stored(c)' = Stored(c)
        BY <2>1, <2>2 DEF BusyOn, Stored, Taken
    <2>4. Unit(InHand(c)') = 1 => Unit(InHand(c)) = 1
        BY <2>1, <2>2 DEF InHand, Unit
    <2> QED
        BY <2>1, <2>3, <2>4, <1>n, <1>o, <1>p
<1>8. CASE ReaderSend
    <2>1. UNCHANGED <<cpu, metrics_map, answered>> /\ reader.pc = "send" /\ reader.key \in Conn
        BY <1>t, <1>8 DEF ReaderSend
    <2>2. reader'.key = reader.key /\ reader'.val = reader.val /\ reader'.pc = "delete"
        BY <1>t, <1>8 DEF ReaderSend
    <2>3. BusyOn(c)' = BusyOn(c) /\ Stored(c)' = Stored(c)
        BY <2>1, <2>2 DEF BusyOn, Stored, Taken
    <2>4. Unit(InHand(c)') = 0
        BY <2>2 DEF InHand, Unit
    <2>5. CASE reader.key # c
        <3>1. sent'[c] = sent[c]
            BY <1>t, <1>8, <2>5 DEF ReaderSend
        <3> QED
            BY <3>1, <2>1, <2>3, <2>4, <1>n, <1>o, <1>p
    <2>6. CASE reader.key = c
        <3>1. sent'[c] = sent[c] + 1
            BY <1>t, <1>8, <2>6 DEF ReaderSend
        <3>2. Unit(InHand(c)) = 1
            BY <2>1, <2>6 DEF InHand, Unit
        <3> QED
            BY <3>1, <3>2, <2>1, <2>3, <2>4, <1>n, <1>o, <1>p
    <2> QED
        BY <2>5, <2>6
<1>9. CASE ReaderDelete
    <2>1. UNCHANGED <<cpu, sent, answered>> /\ reader.pc = "delete"
        BY <1>9 DEF ReaderDelete
    <2>2. reader'.pc = "next"
        BY <1>9 DEF ReaderDelete
    <2>3. \A x \in Conn : metrics_map'[x] = IF x = reader.key THEN None ELSE metrics_map[x]
        BY <1>t, <1>9 DEF ReaderDelete, MetricsAfterRead, DeleteElem
    <2>4. BusyOn(c)' = BusyOn(c) /\ Unit(InHand(c)') = 0 /\ Unit(InHand(c)) = 0
        BY <2>1, <2>2 DEF BusyOn, InHand, Unit
    <2>5. Unit(Stored(c)') = 1 => Unit(Stored(c)) = 1
        BY <2>3 DEF Stored, Taken, Unit
    <2> QED
        BY <2>1, <2>4, <2>5, <1>n, <1>o, <1>p
<1>10. CASE ExportForward \/ (\E external \in BOOLEAN : ExportReceive(external))
    <2>1. UNCHANGED <<cpu, reader, metrics_map, sent, answered>>
        BY <1>10 DEF ExportForward, ExportReceive
    <2> QED
        BY <2>1, <1>u DEF BusyOn, InHand, Stored, Taken
<1> QED
    BY <1>1, <1>2, <1>3, <1>4, <1>5, <1>6, <1>7, <1>8, <1>9, <1>10 DEF Next

\* The metrics sent of a connection never outnumber the responses of it that
\* read_http_info has matched: without any assumption on which CPU filters a packet
\* or which slot a request gets, and for any number of CPUs.
THEOREM ReportsArePaidFor == Spec => []NoReportWithoutResponse
<1>1. Init => Typed /\ Paid
    <2> SUFFICES ASSUME Init PROVE Paid
        BY InitTyped
    <2>1. \A c \in Conn : BusyOn(c) = {} /\ ~InHand(c) /\ ~Stored(c) /\ sent[c] = 0 /\ answered[c] = 0
        BY HttpProbeAssumption DEF Init, Idle, BusyOn, InHand, Stored
    <2>2. \A c \in Conn : Unit(InHand(c)) = 0 /\ Unit(Stored(c)) = 0
        BY <2>1 DEF Unit
    <2> QED
        BY <2>1, <2>2, FS_EmptySet DEF Paid
<1>2. Typed /\ Paid => NoReportWithoutResponse
    <2> SUFFICES ASSUME Typed, Paid, NEW c \in Conn PROVE sent[c] <= answered[c]
        BY DEF NoReportWithoutResponse
    <2>1. /\ sent[c] \in Nat /\ answered[c] \in Nat
          /\ IsFiniteSet(BusyOn(c)) /\ Cardinality(BusyOn(c)) \in Nat
          /\ sent[c] + Unit(InHand(c)) + Unit(Stored(c)) + Cardinality(BusyOn(c)) <= answered[c]
        BY FS_CardinalityType DEF Typed, TypeOK, Paid
    <2>2. \A b : Unit(b) = 0 \/ Unit(b) = 1
        BY DEF Unit
    <2>3. (Unit(InHand(c)) = 0 \/ Unit(InHand(c)) = 1) /\ (Unit(Stored(c)) = 0 \/ Unit(Stored(c)) = 1)
        BY <2>2
    <2> QED
        BY <2>1, <2>3
<1> QED
    BY <1>1, <1>2, StepTyped, StepPaid, PTL DEF Spec

-----------------------------------------------------------------------------
(* Every holder holds exchanges of its connection.                         *)

\* The types, in the form the steps below use them.
LEMMA Types ==
    ASSUME Typed
    PROVE  /\ \A c \in Conn : /\ http_processing_map[c] # None => http_processing_map[c] \in Exchange
                              /\ metrics_map[c] # None => metrics_map[c] \in Exchange
           /\ \A k \in CPU : cpu[k] # Idle =>
                  cpu[k].conn \in Conn /\ cpu[k].val \in Exchange /\ cpu[k].val # None
           /\ \A k \in CPU : cpu[k].val # None => cpu[k] # Idle
           /\ \A k \in CPU : cpu[k].conn # None => cpu[k] # Idle
           /\ \A k \in CPU : cpu[k].pc \in {"matched", "deleted"} <=> cpu[k] # Idle
           /\ \A n \in DOMAIN ch : ch[n] \in Exchange
           /\ exporter # None => exporter \in Exchange
           /\ None \notin Conn /\ None \notin Exchange
BY HttpProbeAssumption DEF Typed, TypeOK, Idle

\* An answered exchange stays answered, the connection of a request does not
\* change, and a request has one as soon as it is seen.
LEMMA HistoryGrows ==
    ASSUME IInv, SlotsKept, [Next]_vars
    PROVE  /\ \A i \in Exchange : Answered(i) => fate'[i] \notin {"none", "asked", "unanswered"}
           /\ \A i \in Exchange : conn[i] # None => conn'[i] = conn[i]
           /\ \A i \in Exchange : fate'[i] = "none" <=> conn'[i] = None
<1> USE HttpProbeAssumption
<1>0. Typed /\ TypeOK /\ fate \in [Exchange -> Fates] /\ conn \in [Exchange -> Conn \cup {None}]
    BY DEF IInv, Typed, TypeOK
<1>h. \A i \in Exchange : fate[i] = "none" <=> conn[i] = None
    BY DEF IInv, HeldByConnection
<1> DEFINE Goal == /\ \A i \in Exchange : Answered(i) => fate'[i] \notin {"none", "asked", "unanswered"}
                   /\ \A i \in Exchange : conn[i] # None => conn'[i] = conn[i]
                   /\ \A i \in Exchange : fate'[i] = "none" <=> conn'[i] = None
<1>1. ASSUME NEW j \in Exchange, NEW c \in Conn, NEW v \in Exchange \cup {None},
             RequestPacket(j, c, v)
      PROVE  Goal
    <2>1. /\ fate[j] = "none"
          /\ \A i \in Exchange : conn'[i] = IF i = j THEN c ELSE conn[i]
          /\ fate'[j] \in {"asked", "unanswered"}
          /\ \A i \in Exchange : i # j =>
                 fate'[i] = fate[i] \/ (fate[i] = "asked" /\ fate'[i] = "unanswered")
        BY <1>0, <1>1 DEF RequestPacket, Unanswered
    <2> QED
        BY <1>h, <2>1 DEF Answered
<1>2. ASSUME NEW k \in CPU, NEW c \in Conn, ResponseMatch(k, c) PROVE Goal
    <2>1. /\ conn' = conn
          /\ \A i \in Exchange : fate'[i] = fate[i] \/ (fate[i] = "asked" /\ fate'[i] = "flying")
        BY <1>0, <1>2 DEF ResponseMatch
    <2> QED
        BY <1>h, <2>1 DEF Answered
<1>3. ASSUME NEW k \in CPU, ResponseDelete(k) PROVE Goal
    <2>1. /\ conn' = conn
          /\ \A i \in Exchange : fate'[i] = fate[i] \/ (fate[i] = "asked" /\ fate'[i] = "unanswered")
        BY <1>0, <1>3 DEF ResponseDelete, Unanswered
    <2> QED
        BY <1>h, <2>1 DEF Answered
<1>5. ASSUME NEW k \in CPU, ResponseStore(k) PROVE Goal
    <2> DEFINE c == cpu[k].conn
               old == metrics_map[c]
    <2>1. c \in Conn /\ cpu[k].val \in Exchange /\ Answered(cpu[k].val)
        BY <1>0, <1>5, Types DEF ResponseStore, IInv, HeldByConnection
    <2>2. old # None => Answered(old)
        BY <2>1 DEF IInv, HeldByConnection
    <2>3. /\ conn' = conn
          /\ \/ fate' = fate
             \/ fate' = [fate EXCEPT ![cpu[k].val] = "rejected"]
             \/ old # None /\ fate' = [fate EXCEPT ![old] = "overwritten"]
        BY <1>5 DEF ResponseStore, MetricsKey
    <2> HIDE DEF c, old
    <2> QED
        BY <1>0, <1>h, <2>1, <2>2, <2>3 DEF Answered
<1>6. CASE ReaderDecode
    <2>1. Answered(reader.val)
        BY <1>6 DEF ReaderDecode, IInv, HeldByConnection
    <2>2. conn' = conn /\ (fate' = fate \/ fate' = [fate EXCEPT ![reader.val] = "undecoded"])
        BY <1>6 DEF ReaderDecode
    <2> QED
        BY <1>0, <1>h, <2>1, <2>2 DEF Answered
<1>7. CASE ReaderDelete
    <2> DEFINE now == metrics_map[reader.key]
    <2>1. reader.key \in Conn
        BY <1>0, <1>7 DEF ReaderDelete, Typed, ReaderHolds
    <2>2. now # None => Answered(now)
        BY <2>1 DEF IInv, HeldByConnection
    <2>3. conn' = conn /\ (fate' = fate \/ (now # None /\ fate' = [fate EXCEPT ![now] = "unread"]))
        BY <1>7 DEF ReaderDelete
    <2> HIDE DEF now
    <2> QED
        BY <1>0, <1>h, <2>2, <2>3 DEF Answered
<1>8. ASSUME NEW external \in BOOLEAN, ExportReceive(external) PROVE Goal
    <2>1. Answered(Head(ch))
        BY <1>0, <1>8, HeadTail DEF ExportReceive, TypeOK, IInv, HeldByConnection
    <2>2. conn' = conn /\ (fate' = fate \/ fate' = [fate EXCEPT ![Head(ch)] = "skipped"])
        BY <1>8 DEF ExportReceive
    <2> QED
        BY <1>0, <1>h, <2>1, <2>2 DEF Answered
<1>9. CASE ExportForward
    <2>1. Answered(exporter)
        BY <1>9, Types DEF ExportForward, IInv, HeldByConnection
    <2>2. conn' = conn /\ fate' = [fate EXCEPT ![exporter] = "reported"]
        BY <1>9 DEF ExportForward
    <2> QED
        BY <1>0, <1>h, <2>1, <2>2 DEF Answered
<1>10. CASE PutFilter \/ ReaderSend \/ UNCHANGED vars \/ (\E c \in Conn : ReaderNext(c))
    BY <1>h, <1>10 DEF PutFilter, ReaderSend, vars, ReaderNext, Answered
<1> QED
    BY <1>1, <1>2, <1>3, <1>5, <1>6, <1>7, <1>8, <1>9, <1>10 DEF Next

\* Every step keeps each exchange under its own connection.
LEMMA StepHeld == IInv /\ SlotsKept /\ [Next]_vars => HeldByConnection'
<1> SUFFICES ASSUME IInv, SlotsKept, [Next]_vars PROVE HeldByConnection'
    OBVIOUS
<1> USE HttpProbeAssumption
<1>0. Typed /\ HeldByConnection /\ TypeOK
    BY DEF IInv, Typed
<1>h. /\ \A i \in Exchange : Answered(i) => fate'[i] \notin {"none", "asked", "unanswered"}
      /\ \A i \in Exchange : conn[i] # None => conn'[i] = conn[i]
      /\ \A i \in Exchange : fate'[i] = "none" <=> conn'[i] = None
    BY HistoryGrows
\* A holder that holds what it held, or takes it over from another holder.
<1> DEFINE Kept(i, c) == i \in Exchange /\ conn[i] = c /\ Answered(i)
           Good(i, c) == conn'[i] = c /\ fate'[i] \notin {"none", "asked", "unanswered"}
<1>g. \A i \in Exchange : \A c \in Conn : Kept(i, c) => Good(i, c)
    BY <1>h
<1>a. /\ \A c \in Conn : metrics_map[c] # None => Kept(metrics_map[c], c)
      /\ \A k \in CPU : cpu[k].val # None => cpu[k].conn \in Conn /\ Kept(cpu[k].val, cpu[k].conn)
      /\ reader.pc # "next" => reader.key \in Conn /\ Kept(reader.val, reader.key)
    BY <1>0, Types DEF HeldByConnection, Typed, ReaderHolds
<1>b. /\ \A n \in DOMAIN ch : ch[n] \in Exchange /\ Answered(ch[n])
      /\ exporter # None => exporter \in Exchange /\ Answered(exporter)
    BY <1>0, Types DEF HeldByConnection
<1> DEFINE Proc == \A c \in Conn : http_processing_map'[c] # None =>
                       /\ conn'[http_processing_map'[c]] = c
                       /\ fate'[http_processing_map'[c]] \notin {"none", "unanswered"}
           Metr == \A c \in Conn : metrics_map'[c] # None => Good(metrics_map'[c], c)
           Cpus == \A k \in CPU : cpu'[k].val # None => Good(cpu'[k].val, cpu'[k].conn)
           Rdr == reader'.pc # "next" => Good(reader'.val, reader'.key)
           Chan == \A n \in DOMAIN ch' : fate'[ch'[n]] \notin {"none", "asked", "unanswered"}
           Expo == exporter' # None => fate'[exporter'] \notin {"none", "asked", "unanswered"}
<1>s. SUFFICES Proc /\ Metr /\ Cpus /\ Rdr /\ Chan /\ Expo
    BY <1>h DEF HeldByConnection, Answered
<1>1. /\ metrics_map' = metrics_map => Metr
      /\ cpu' = cpu => Cpus
      /\ reader' = reader => Rdr
      /\ ch' = ch => Chan
      /\ exporter' = exporter => Expo
    BY <1>a, <1>b, <1>g, <1>h
<1>2. ASSUME http_processing_map' = http_processing_map,
             \A i \in Exchange : fate'[i] = "unanswered" => fate[i] = "unanswered"
      PROVE  Proc
    BY <1>0, <1>2, <1>h, Types DEF HeldByConnection
<1>3. ASSUME NEW j \in Exchange, NEW c \in Conn, NEW v \in Exchange \cup {None},
             RequestPacket(j, c, v)
      PROVE  Proc /\ Metr /\ Cpus /\ Rdr /\ Chan /\ Expo
    <2>1. cpu' = cpu
        BY <1>0, <1>3 DEF RequestPacket, TypeOK
    <2>2. /\ conn' = [conn EXCEPT ![j] = c] /\ fate[j] = "none"
          /\ \A x \in Conn : http_processing_map'[x] = http_processing_map[x]
                             \/ (x = c /\ http_processing_map'[x] = j)
          /\ http_processing_map'[c] # j => http_processing_map' = http_processing_map /\ http_processing_map[c] = None
          /\ http_processing_map'[c] = j => fate'[j] = "asked"
          /\ \A i \in Exchange : i # j =>
                 fate'[i] = fate[i] \/ (i = http_processing_map[c] /\ fate'[i] = "unanswered")
        BY <1>0, <1>3 DEF RequestPacket, UpdateElem, Fits, TypeOK, Unanswered
    <2>3. Proc
        <3> SUFFICES ASSUME NEW x \in Conn, http_processing_map'[x] # None
                     PROVE  /\ conn'[http_processing_map'[x]] = x
                            /\ fate'[http_processing_map'[x]] \notin {"none", "unanswered"}
            OBVIOUS
        <3>1. CASE x = c /\ http_processing_map'[x] = j
            BY <1>0, <2>2, <3>1 DEF TypeOK
        <3>2. CASE http_processing_map'[x] = http_processing_map[x] /\ http_processing_map'[c] # j
            BY <1>0, <1>h, <2>2, <3>2, Types DEF HeldByConnection
        <3>3. CASE http_processing_map'[x] = http_processing_map[x] /\ http_processing_map'[c] = j /\ x # c
            BY <1>0, <1>h, <2>2, <3>3, Types DEF HeldByConnection
        <3> QED
            BY <2>2, <3>1, <3>2, <3>3
    <2> QED
        BY <1>1, <1>3, <2>1, <2>3 DEF RequestPacket
<1>4. ASSUME NEW k \in CPU, NEW c \in Conn, ResponseMatch(k, c)
      PROVE  Proc /\ Metr /\ Cpus /\ Rdr /\ Chan /\ Expo
    <2> DEFINE i == http_processing_map[c]
    <2>1. /\ i # None /\ i \in Exchange /\ conn[i] = c /\ fate[i] \notin {"none", "unanswered"}
          /\ conn' = conn /\ cpu' = [cpu EXCEPT ![k] = [pc |-> "matched", conn |-> c, val |-> i]]
          /\ fate' = [fate EXCEPT ![i] = IF @ = "asked" THEN "flying" ELSE @]
        BY <1>0, <1>4, Types DEF ResponseMatch, HeldByConnection
    <2>2. Cpus
        BY <1>0, <1>a, <1>g, <2>1 DEF TypeOK
    <2>3. Proc
        BY <1>0, <1>2, <1>4, <2>1 DEF ResponseMatch, TypeOK
    <2> QED
        BY <1>1, <1>4, <2>2, <2>3 DEF ResponseMatch
<1>5. ASSUME NEW k \in CPU, ResponseDelete(k)
      PROVE  Proc /\ Metr /\ Cpus /\ Rdr /\ Chan /\ Expo
    <2> DEFINE c == cpu[k].conn
    <2>1. /\ c \in Conn /\ conn' = conn
          /\ http_processing_map' = [http_processing_map EXCEPT ![c] = None]
          /\ \A i \in Exchange : fate'[i] = fate[i] \/ i = http_processing_map[c]
          /\ cpu' = [cpu EXCEPT ![k].pc = "deleted"]
        BY <1>0, <1>5, Types DEF ResponseDelete, DeleteElem, Unanswered
    <2>2. Cpus
        BY <1>0, <1>a, <1>g, <2>1 DEF TypeOK
    <2>3. Proc
        BY <1>0, <2>1, Types DEF HeldByConnection, TypeOK
    <2> QED
        BY <1>1, <1>5, <2>2, <2>3 DEF ResponseDelete
<1>6. ASSUME NEW k \in CPU, ResponseStore(k)
      PROVE  Proc /\ Metr /\ Cpus /\ Rdr /\ Chan /\ Expo
    <2> DEFINE c == cpu[k].conn
               i == cpu[k].val
    <2>1. /\ c \in Conn /\ i \in Exchange /\ i # None /\ conn' = conn
          /\ metrics_map' = UpdateElem(metrics_map, c, i, MetricsMax)
          /\ \A j \in Exchange : fate'[j] = fate[j] \/ fate'[j] \in {"rejected", "overwritten"}
          /\ cpu' = [cpu EXCEPT ![k] = Idle]
        BY <1>0, <1>6, Types DEF ResponseStore, MetricsKey, TypeOK
    <2>2. Metr
        BY <1>0, <1>a, <1>g, <2>1 DEF UpdateElem, TypeOK
    <2>3. Cpus
        BY <1>0, <1>a, <1>g, <2>1 DEF TypeOK, Idle
    <2>4. Proc
        BY <1>2, <1>6, <2>1 DEF ResponseStore
    <2> QED
        BY <1>1, <1>6, <2>2, <2>3, <2>4 DEF ResponseStore
<1>7. ASSUME NEW c \in Conn, ReaderNext(c)
      PROVE  Proc /\ Metr /\ Cpus /\ Rdr /\ Chan /\ Expo
    BY <1>1, <1>2, <1>a, <1>g, <1>7 DEF ReaderNext
<1>8. CASE ReaderDecode
    <2>1. \A i \in Exchange : fate'[i] = fate[i] \/ fate'[i] = "undecoded"
        BY <1>0, <1>8 DEF ReaderDecode, TypeOK
    <2>2. Rdr
        <3>1. reader \in [pc : {"next", "decode", "send", "delete", "ended"},
                          key : Conn \cup {None}, val : Exchange \cup {None}]
            BY <1>0 DEF TypeOK
        <3>2. reader'.key = reader.key /\ reader'.val = reader.val /\ reader.pc # "next"
            BY <3>1, <1>8 DEF ReaderDecode
        <3> QED
            BY <3>2, <1>a, <1>g
    <2> QED
        BY <1>1, <1>2, <1>8, <2>1, <2>2 DEF ReaderDecode
<1>9. CASE ReaderSend
    <2>1. Rdr
        BY <1>0, <1>9, <1>a, <1>g DEF ReaderSend, TypeOK
    <2>2. Chan
        <3>1. reader.val \in Exchange /\ Answered(reader.val)
            BY <1>9, <1>a DEF ReaderSend
        <3>2. DOMAIN ch' = DOMAIN ch \cup {Len(ch) + 1} /\ ch'[Len(ch) + 1] = reader.val
              /\ \A n \in DOMAIN ch : ch'[n] = ch[n]
            BY <1>0, <1>9, <3>1, AppendSeq DEF ReaderSend, TypeOK
        <3> QED
            BY <1>b, <1>h, <3>1, <3>2
    <2> QED
        BY <1>1, <1>2, <1>9, <2>1, <2>2 DEF ReaderSend
<1>10. CASE ReaderDelete
    <2>1. \A i \in Exchange : fate'[i] = fate[i] \/ fate'[i] = "unread"
        BY <1>0, <1>10 DEF ReaderDelete, TypeOK
    <2>2. Metr
        BY <1>0, <1>10, <1>a, <1>g DEF ReaderDelete, MetricsAfterRead, DeleteElem, TypeOK
    <2>3. Rdr
        BY <1>10 DEF ReaderDelete
    <2> QED
        BY <1>1, <1>2, <1>10, <2>1, <2>2, <2>3 DEF ReaderDelete
<1>11. ASSUME NEW external \in BOOLEAN, ExportReceive(external)
       PROVE  Proc /\ Metr /\ Cpus /\ Rdr /\ Chan /\ Expo
    <2>1. \A i \in Exchange : fate'[i] = fate[i] \/ fate'[i] = "skipped"
        BY <1>0, <1>11 DEF ExportReceive, TypeOK
    <2>2. /\ Head(ch) = ch[1] /\ 1 \in DOMAIN ch
          /\ \A n \in DOMAIN ch' : n + 1 \in DOMAIN ch /\ ch'[n] = ch[n + 1]
        BY <1>0, <1>11, HeadTail DEF ExportReceive, TypeOK
    <2>3. Chan /\ Expo
        BY <1>11, <1>b, <1>h, <2>2 DEF ExportReceive, ExporterSkips
    <2> QED
        BY <1>1, <1>2, <1>11, <2>1, <2>3 DEF ExportReceive
<1>12. CASE ExportForward
    <2>1. \A i \in Exchange : fate'[i] = fate[i] \/ fate'[i] = "reported"
        BY <1>0, <1>12 DEF ExportForward, TypeOK
    <2>2. Expo
        BY <1>12 DEF ExportForward
    <2> QED
        BY <1>1, <1>2, <1>12, <2>1, <2>2 DEF ExportForward
<1>13. CASE PutFilter \/ UNCHANGED vars
    BY <1>1, <1>2, <1>13 DEF PutFilter, vars
<1> QED
    BY <1>3, <1>4, <1>5, <1>6, <1>7, <1>8, <1>9, <1>10, <1>11, <1>12, <1>13 DEF Next

\* What displaces or hides a stored exchange is another of its connection.
LEMMA StepLost == IInv /\ SlotsKept /\ [Next]_vars => LostToSameConnection'
<1> SUFFICES ASSUME IInv, SlotsKept, [Next]_vars,
                    NEW i \in Exchange, fate'[i] \in {"overwritten", "unread"}
             PROVE  \E j \in Exchange \ {i} :
                        conn'[j] = conn'[i] /\ fate'[j] \notin {"none", "asked", "unanswered"}
    BY DEF LostToSameConnection
<1> USE HttpProbeAssumption
<1>0. Typed /\ TypeOK /\ HeldByConnection /\ LostToSameConnection
    BY DEF IInv, Typed
<1>h. /\ \A j \in Exchange : Answered(j) => fate'[j] \notin {"none", "asked", "unanswered"}
      /\ \A j \in Exchange : conn[j] # None => conn'[j] = conn[j]
      /\ \A j \in Exchange : fate'[j] = "none" <=> conn'[j] = None
    BY HistoryGrows
<1>a. ASSUME NEW j \in Exchange, j # i, Answered(i), Answered(j), conn[j] = conn[i]
      PROVE  \E l \in Exchange \ {i} :
                 conn'[l] = conn'[i] /\ fate'[l] \notin {"none", "asked", "unanswered"}
    BY <1>0, <1>a, <1>h DEF HeldByConnection, Answered
<1>1. CASE fate[i] \in {"overwritten", "unread"}
    <2>1. PICK j \in Exchange \ {i} : conn[j] = conn[i] /\ Answered(j)
        BY <1>0, <1>1 DEF LostToSameConnection, Answered
    <2> QED
        BY <1>1, <1>a, <2>1 DEF Answered
<1>2. ASSUME NEW k \in CPU, ResponseStore(k), fate[i] \notin {"overwritten", "unread"}
      PROVE  \E j \in Exchange \ {i} :
                 conn'[j] = conn'[i] /\ fate'[j] \notin {"none", "asked", "unanswered"}
    <2> DEFINE c == cpu[k].conn
    <2>1. /\ i = metrics_map[c] /\ i # cpu[k].val
        BY <1>0, <1>2 DEF ResponseStore, MetricsKey, TypeOK
    <2>2. /\ c \in Conn /\ cpu[k].val \in Exchange /\ conn[cpu[k].val] = c /\ Answered(cpu[k].val)
          /\ i # None
        BY <1>0, <1>2, Types DEF ResponseStore, HeldByConnection
    <2>3. conn[i] = c /\ Answered(i)
        BY <1>0, <2>1, <2>2 DEF HeldByConnection
    <2> QED
        BY <1>a, <2>1, <2>2, <2>3
<1>3. ASSUME ReaderDelete, fate[i] \notin {"overwritten", "unread"}
      PROVE  \E j \in Exchange \ {i} :
                 conn'[j] = conn'[i] /\ fate'[j] \notin {"none", "asked", "unanswered"}
    <2>1. i = metrics_map[reader.key] /\ i # reader.val
        BY <1>0, <1>3 DEF ReaderDelete, TypeOK
    <2>2. /\ reader.key \in Conn /\ reader.val \in Exchange /\ conn[reader.val] = reader.key
          /\ Answered(reader.val) /\ i # None
        BY <1>0, <1>3, Types DEF ReaderDelete, HeldByConnection, Typed, ReaderHolds
    <2>3. conn[i] = reader.key /\ Answered(i)
        BY <1>0, <2>1, <2>2 DEF HeldByConnection
    <2> QED
        BY <1>a, <2>1, <2>2, <2>3
<1>4. ASSUME fate[i] \notin {"overwritten", "unread"}
      PROVE  (\E k \in CPU : ResponseStore(k)) \/ ReaderDelete
    <2>1. ~(PutFilter \/ ReaderSend \/ UNCHANGED vars \/ \E c \in Conn : ReaderNext(c))
        BY <1>4 DEF PutFilter, ReaderSend, vars, ReaderNext
    <2>2. ~(ReaderDecode \/ ExportForward \/ \E external \in BOOLEAN : ExportReceive(external))
        BY <1>0, <1>4 DEF ReaderDecode, ExportForward, ExportReceive, TypeOK
    <2>3. \A k \in CPU : ~ResponseDelete(k) /\ \A c \in Conn : ~ResponseMatch(k, c)
        BY <1>0, <1>4 DEF ResponseDelete, ResponseMatch, TypeOK, Unanswered
    <2>4. \A j \in Exchange, c \in Conn, v \in Exchange \cup {None} : ~RequestPacket(j, c, v)
        BY <1>0, <1>4 DEF RequestPacket, TypeOK, Unanswered
    <2> QED
        BY <2>1, <2>2, <2>3, <2>4 DEF Next
<1> QED
    BY <1>1, <1>2, <1>3, <1>4

-----------------------------------------------------------------------------
(* Connections whose packets are filtered one at a time.                   *)

\* Every step keeps the CPUs that are pinned to a connection on its own packets,
\* one at a time.
LEMMA StepOneAtATime == IInv /\ SlotsKept /\ [Next]_vars => OneAtATime'
<1> SUFFICES ASSUME IInv, SlotsKept, [Next]_vars, NEW c \in Pinned
             PROVE  /\ \A k, l \in CPU : cpu'[k].conn = c /\ cpu'[l].conn = c => k = l
                    /\ \A k \in CPU : cpu'[k].conn = c =>
                           /\ cpu'[k].pc = "matched" => http_processing_map'[c] = cpu'[k].val
                           /\ cpu'[k].pc = "deleted" => http_processing_map'[c] = None
                           /\ metrics_map'[c] # cpu'[k].val
                           /\ reader'.val # cpu'[k].val
                    /\ (\A k \in CPU : cpu'[k].conn # c) /\ http_processing_map'[c] # None =>
                           fate'[http_processing_map'[c]] = "asked"
    BY DEF OneAtATime
<1> USE HttpProbeAssumption
<1>0. Typed /\ TypeOK /\ HeldByConnection /\ c \in Conn /\ c # None
    BY DEF IInv, Typed
<1>i. /\ \A k, l \in CPU : cpu[k].conn = c /\ cpu[l].conn = c => k = l
      /\ \A k \in CPU : cpu[k].conn = c =>
             /\ cpu[k].pc = "matched" => http_processing_map[c] = cpu[k].val
             /\ cpu[k].pc = "deleted" => http_processing_map[c] = None
             /\ metrics_map[c] # cpu[k].val
             /\ reader.val # cpu[k].val
      /\ (\A k \in CPU : cpu[k].conn # c) /\ http_processing_map[c] # None =>
             fate[http_processing_map[c]] = "asked"
    BY DEF IInv, OneAtATime
<1>t. /\ http_processing_map[c] # None => http_processing_map[c] \in Exchange
      /\ \A k \in CPU : cpu[k].conn = c => cpu[k].val \in Exchange /\ cpu[k].val # None
                                         /\ cpu[k].pc \in {"matched", "deleted"}
    BY <1>0, Types
<1> DEFINE One == \A k, l \in CPU : cpu'[k].conn = c /\ cpu'[l].conn = c => k = l
           Mine == \A k \in CPU : cpu'[k].conn = c =>
                      /\ cpu'[k].pc = "matched" => http_processing_map'[c] = cpu'[k].val
                      /\ cpu'[k].pc = "deleted" => http_processing_map'[c] = None
                      /\ metrics_map'[c] # cpu'[k].val
                      /\ reader'.val # cpu'[k].val
           Free == (\A k \in CPU : cpu'[k].conn # c) /\ http_processing_map'[c] # None =>
                      fate'[http_processing_map'[c]] = "asked"
           Goal == One /\ Mine /\ Free
<1>1. ASSUME NEW j \in Exchange, NEW d \in Conn, NEW v \in Exchange \cup {None},
             RequestPacket(j, d, v)
      PROVE  Goal
    <2>1. cpu' = cpu /\ UNCHANGED <<metrics_map, reader>>
        BY <1>0, <1>1 DEF RequestPacket, TypeOK
    <2>2. CASE d # c
        <3>1. http_processing_map'[c] = http_processing_map[c]
            BY <1>0, <1>1, <2>2 DEF RequestPacket, UpdateElem, TypeOK
        <3>2. http_processing_map[c] # None => http_processing_map[c] # http_processing_map[d]
            BY <1>0, <2>2 DEF HeldByConnection
        <3>3. fate[j] = "none"
            BY <1>1 DEF RequestPacket
        <3>4. http_processing_map[c] # None =>
                  /\ http_processing_map[c] # j
                  /\ fate'[http_processing_map[c]] = fate[http_processing_map[c]]
            BY <1>0, <1>1, <1>t, <3>2, <3>3 DEF RequestPacket, Unanswered, TypeOK, HeldByConnection
        <3> QED
            BY <1>i, <2>1, <3>1, <3>4
    <2>3. CASE d = c
        <3>1. \A k \in CPU : cpu[k].conn # c
            BY <1>1, <2>3 DEF RequestPacket, MayFilter
        <3>2. /\ http_processing_map'[c] = j => fate'[j] = "asked"
              /\ http_processing_map'[c] # j => http_processing_map'[c] = None
            BY <1>0, <1>1, <2>3 DEF RequestPacket, UpdateElem, Fits, TypeOK, Unanswered
        <3> QED
            BY <2>1, <3>1, <3>2
    <2> QED
        BY <2>2, <2>3
<1>2. ASSUME NEW k \in CPU, NEW d \in Conn, ResponseMatch(k, d) PROVE Goal
    <2> DEFINE i == http_processing_map[d]
    <2>1. /\ cpu' = [cpu EXCEPT ![k] = [pc |-> "matched", conn |-> d, val |-> i]]
          /\ cpu[k] = Idle /\ i # None
          /\ fate' = [fate EXCEPT ![i] = IF @ = "asked" THEN "flying" ELSE @]
          /\ UNCHANGED <<http_processing_map, metrics_map, reader>>
        BY <1>2 DEF ResponseMatch
    <2>2. /\ cpu'[k].conn = d /\ cpu'[k].val = i /\ cpu'[k].pc = "matched"
          /\ \A l \in CPU : l # k => cpu'[l] = cpu[l]
          /\ cpu[k].conn = None
        BY <1>0, <2>1 DEF TypeOK, Idle
    <2>3. CASE d # c
        <3>1. http_processing_map[c] # None => http_processing_map[c] # i
            BY <1>0, <2>3 DEF HeldByConnection
        <3>2. http_processing_map[c] # None => fate'[http_processing_map[c]] = fate[http_processing_map[c]]
            BY <1>0, <1>t, <2>1, <3>1 DEF TypeOK
        <3>3. \A l \in CPU : cpu'[l].conn = c <=> cpu[l].conn = c
            BY <1>0, <2>2, <2>3
        <3>4. \A l \in CPU : cpu'[l].conn = c => cpu'[l] = cpu[l]
            BY <1>0, <2>2, <2>3
        <3> HIDE DEF i
        <3> QED
            BY <1>i, <2>1, <3>2, <3>3, <3>4
    <2>4. CASE d = c
        <3>1. \A l \in CPU : cpu[l].conn # c
            BY <1>2, <2>4 DEF ResponseMatch, MayFilter
        <3>2. fate[i] = "asked"
            BY <1>i, <2>1, <2>4, <3>1
        <3>3. metrics_map[c] # i
            BY <1>0, <2>1, <3>2 DEF HeldByConnection, Answered
        <3>4. reader.val # i
            BY <1>0, <2>1, <3>2 DEF HeldByConnection, Answered, Typed, ReaderHolds
        <3>5. \A l \in CPU : cpu'[l].conn = c => l = k
            BY <2>2, <3>1
        <3> HIDE DEF i
        <3>6. One /\ Free
            BY <2>2, <2>4, <3>5
        <3>7. Mine
            BY <2>1, <2>2, <2>4, <3>3, <3>4, <3>5 DEF i
        <3> QED
            BY <3>6, <3>7
    <2> QED
        BY <2>3, <2>4
<1>3. ASSUME NEW k \in CPU, ResponseDelete(k) PROVE Goal
    <2> DEFINE d == cpu[k].conn
    <2>1. /\ d \in Conn /\ cpu[k].pc = "matched"
          /\ http_processing_map' = [http_processing_map EXCEPT ![d] = None]
          /\ \A i \in Exchange : i # http_processing_map[d] => fate'[i] = fate[i]
          /\ cpu' = [cpu EXCEPT ![k].pc = "deleted"]
          /\ UNCHANGED <<metrics_map, reader>>
        BY <1>0, <1>3, Types DEF ResponseDelete, DeleteElem, Unanswered
    <2>2. /\ cpu'[k].conn = d /\ cpu'[k].val = cpu[k].val /\ cpu'[k].pc = "deleted"
          /\ \A l \in CPU : l # k => cpu'[l] = cpu[l]
        BY <1>0, <2>1 DEF TypeOK
    <2>3. CASE d # c
        <3>1. http_processing_map'[c] = http_processing_map[c]
            BY <1>0, <2>1, <2>3 DEF TypeOK
        <3>2. http_processing_map[c] # None => http_processing_map[c] # http_processing_map[d]
            BY <1>0, <2>1, <2>3 DEF HeldByConnection
        <3>3. http_processing_map[c] # None => fate'[http_processing_map[c]] = fate[http_processing_map[c]]
            BY <1>t, <2>1, <3>2
        <3>4. \A l \in CPU : cpu'[l].conn = c <=> cpu[l].conn = c
            BY <2>2, <2>3
        <3>5. \A l \in CPU : cpu'[l].conn = c => cpu'[l] = cpu[l]
            BY <2>2, <2>3
        <3>6. UNCHANGED <<metrics_map, reader>>
            BY <2>1
        <3> HIDE DEF d
        <3>7. One /\ Mine
            BY <1>i, <3>1, <3>4, <3>5, <3>6
        <3>8. Free
            BY <1>i, <3>1, <3>3, <3>4
        <3> QED
            BY <3>7, <3>8
    <2>4. CASE d = c
        <3>1. http_processing_map'[c] = None
            BY <1>0, <2>1, <2>4 DEF TypeOK
        <3>2. \A l \in CPU : cpu'[l].conn = c => l = k
            BY <1>i, <2>2, <2>4
        <3>3. One /\ Free
            BY <3>1, <3>2
        <3>4. Mine
            BY <1>i, <2>1, <2>2, <2>4, <3>1, <3>2
        <3> QED
            BY <3>3, <3>4
    <2> QED
        BY <2>3, <2>4
<1>4. ASSUME NEW k \in CPU, ResponseStore(k) PROVE Goal
    <2> DEFINE d == cpu[k].conn
    <2>1. /\ d \in Conn /\ cpu[k].pc = "deleted" /\ cpu[k].val \in Exchange
          /\ metrics_map' = UpdateElem(metrics_map, d, cpu[k].val, MetricsMax)
          /\ cpu' = [cpu EXCEPT ![k] = Idle]
          /\ UNCHANGED <<http_processing_map, reader>>
        BY <1>0, <1>4, Types DEF ResponseStore, MetricsKey
    <2>2. cpu'[k].conn = None /\ \A l \in CPU : l # k => cpu'[l] = cpu[l]
        BY <1>0, <2>1 DEF TypeOK, Idle
    <2>3. CASE d # c
        <3>1. metrics_map'[c] = metrics_map[c]
            BY <1>0, <2>1, <2>3 DEF UpdateElem, TypeOK
        <3>2. \A l \in CPU : cpu'[l].conn = c <=> cpu[l].conn = c
            BY <1>0, <2>2, <2>3
        <3>3. \A l \in CPU : cpu'[l].conn = c => cpu'[l] = cpu[l]
            BY <1>0, <2>2, <2>3
        <3>4. One /\ Mine
            BY <1>i, <2>1, <3>1, <3>2, <3>3
        <3>5. Free
            <4> SUFFICES ASSUME \A l \in CPU : cpu'[l].conn # c, http_processing_map'[c] # None
                         PROVE  fate'[http_processing_map'[c]] = "asked"
                OBVIOUS
            <4>1. fate[http_processing_map[c]] = "asked" /\ http_processing_map[c] \in Exchange
                BY <1>i, <1>t, <2>1, <3>2
            <4>2. http_processing_map[c] # cpu[k].val /\ http_processing_map[c] # metrics_map[d]
                BY <1>0, <2>1, <4>1, Types DEF HeldByConnection, Answered
            <4>3. fate'[http_processing_map[c]] = fate[http_processing_map[c]]
                BY <1>0, <1>4, <4>1, <4>2 DEF ResponseStore, MetricsKey, TypeOK
            <4> QED
                BY <2>1, <4>1, <4>3
        <3> QED
            BY <3>4, <3>5
    <2>4. CASE d = c
        <3>1. \A l \in CPU : cpu'[l].conn # c
            BY <1>0, <1>i, <2>2, <2>4
        <3>2. http_processing_map[c] = None
            BY <1>i, <2>1, <2>4
        <3> QED
            BY <2>1, <3>1, <3>2
    <2> QED
        BY <2>3, <2>4
\* The other steps leave the filter alone and settle answered exchanges only.
<1>5. ASSUME UNCHANGED <<cpu, http_processing_map>>,
             \A i \in Exchange : fate[i] = "asked" => fate'[i] = "asked",
             metrics_map'[c] \in {metrics_map[c], None},
             reader'.val \in {reader.val, None} \cup {metrics_map[x] : x \in Conn}
      PROVE  Goal
    <2>1. \A k \in CPU : cpu[k].conn = c => \A x \in Conn : metrics_map[x] # cpu[k].val
        BY <1>0, <1>i, <1>t DEF HeldByConnection
    <2>2. One /\ Free
        BY <1>i, <1>t, <1>5
    <2>3. Mine
        BY <1>i, <1>t, <1>5, <2>1
    <2> QED
        BY <2>2, <2>3
<1>6. ASSUME NEW d \in Conn, ReaderNext(d) PROVE Goal
    BY <1>5, <1>6 DEF ReaderNext
<1>7. ASSUME ReaderDecode PROVE Goal
    <2>1. \A i \in Exchange : fate[i] = "asked" => fate'[i] = "asked"
        BY <1>0, <1>7 DEF ReaderDecode, HeldByConnection, Answered, TypeOK
    <2>2. reader'.val = reader.val /\ UNCHANGED <<cpu, http_processing_map, metrics_map>>
        BY <1>0, <1>7 DEF ReaderDecode, TypeOK
    <2> QED
        BY <1>5, <2>1, <2>2
<1>8. ASSUME ReaderSend PROVE Goal
    <2>1. reader'.val = reader.val /\ UNCHANGED <<cpu, http_processing_map, metrics_map, fate>>
        BY <1>0, <1>8 DEF ReaderSend, TypeOK
    <2> QED
        BY <1>5, <2>1
<1>9. ASSUME ReaderDelete PROVE Goal
    <2>0. reader.key \in Conn
        BY <1>0, <1>9 DEF ReaderDelete, Typed, ReaderHolds
    <2>1. \A i \in Exchange : fate[i] = "asked" => fate'[i] = "asked"
        BY <1>0, <1>9, <2>0 DEF ReaderDelete, HeldByConnection, Answered, TypeOK
    <2>2. reader'.val = None /\ UNCHANGED <<cpu, http_processing_map>>
        BY <1>9 DEF ReaderDelete
    <2>3. metrics_map'[c] \in {metrics_map[c], None}
        BY <1>0, <1>9 DEF ReaderDelete, MetricsAfterRead, DeleteElem, TypeOK
    <2> QED
        BY <1>5, <2>1, <2>2, <2>3
<1>10. ASSUME NEW external \in BOOLEAN, ExportReceive(external) PROVE Goal
    <2>0. Answered(Head(ch))
        BY <1>0, <1>10, HeadTail DEF ExportReceive, TypeOK, HeldByConnection
    <2>1. \A i \in Exchange : fate[i] = "asked" => fate'[i] = "asked"
        BY <1>0, <1>10, <2>0 DEF ExportReceive, Answered, TypeOK
    <2> QED
        BY <1>5, <1>10, <2>1 DEF ExportReceive
<1>11. ASSUME ExportForward PROVE Goal
    <2>1. \A i \in Exchange : fate[i] = "asked" => fate'[i] = "asked"
        BY <1>0, <1>11, Types DEF ExportForward, HeldByConnection, Answered, TypeOK
    <2> QED
        BY <1>5, <1>11, <2>1 DEF ExportForward
<1>12. ASSUME PutFilter \/ UNCHANGED vars PROVE Goal
    BY <1>5, <1>12 DEF PutFilter, vars
<1> QED
    BY <1>1, <1>2, <1>3, <1>4, <1>6, <1>7, <1>8, <1>9, <1>10, <1>11, <1>12 DEF Next

-----------------------------------------------------------------------------
(* An answered exchange is in one place.                                   *)

\* An exchange that no response has answered yet is in no place.
LEMMA NotYetAnswered ==
    ASSUME Typed, HeldByConnection, NEW i \in Exchange, ~Answered(i)
    PROVE  /\ ~CpuHas(cpu, i) /\ ~MapHas(metrics_map, reader, i) /\ ~ChHas(ch, i)
           /\ ~HandHas(reader, i) /\ exporter # i
<1>0. i # None
    BY HttpProbeAssumption
<1> QED
    BY <1>0 DEF HeldByConnection, CpuHas, MapHas, ChHas, HandHas

\* The entry of metrics_map that holds an exchange is that of its connection.
LEMMA OwnEntry ==
    ASSUME Typed, HeldByConnection, NEW i \in Exchange, NEW c \in Conn, metrics_map[c] = i
    PROVE  conn[i] = c /\ \A d \in Conn : metrics_map[d] = i => d = c
<1>0. i # None
    BY HttpProbeAssumption
<1> QED
    BY <1>0 DEF HeldByConnection

\* Every step keeps an answered exchange in one place, or settles it and takes
\* it from where it was.
LEMMA StepPlaces == IInv /\ SlotsKept /\ [Next]_vars => (Conserved /\ OnePlace)'
<1> SUFFICES ASSUME IInv, SlotsKept, [Next]_vars, NEW i \in Exchange, conn'[i] \in Pinned
             PROVE  /\ fate'[i] = "flying" <=>
                           \/ CpuHas(cpu', i) \/ MapHas(metrics_map', reader', i) \/ ChHas(ch', i)
                           \/ HandHas(reader', i) \/ exporter' = i
                    /\ CpuHas(cpu', i) => /\ ~MapHas(metrics_map', reader', i) /\ ~ChHas(ch', i)
                                          /\ ~HandHas(reader', i) /\ exporter' # i
                    /\ MapHas(metrics_map', reader', i) =>
                           ~ChHas(ch', i) /\ ~HandHas(reader', i) /\ exporter' # i
                    /\ ChHas(ch', i) => ~HandHas(reader', i) /\ exporter' # i
                    /\ HandHas(reader', i) => exporter' # i
                    /\ CpuOnce(cpu', i) /\ ChOnce(ch', i)
    BY DEF Conserved, OnePlace, InOrder, CpuHas, MapHas, ChHas, HandHas, CpuOnce, ChOnce
<1> USE HttpProbeAssumption
<1>0. Typed /\ TypeOK /\ HeldByConnection /\ i # None /\ fate \in [Exchange -> Fates]
    BY DEF IInv, Typed, TypeOK
<1>i. ASSUME conn[i] \in Pinned
      PROVE  /\ fate[i] = "flying" <=>
                    \/ CpuHas(cpu, i) \/ MapHas(metrics_map, reader, i) \/ ChHas(ch, i)
                    \/ HandHas(reader, i) \/ exporter = i
             /\ CpuHas(cpu, i) => /\ ~MapHas(metrics_map, reader, i) /\ ~ChHas(ch, i)
                                  /\ ~HandHas(reader, i) /\ exporter # i
             /\ MapHas(metrics_map, reader, i) =>
                    ~ChHas(ch, i) /\ ~HandHas(reader, i) /\ exporter # i
             /\ ChHas(ch, i) => ~HandHas(reader, i) /\ exporter # i
             /\ HandHas(reader, i) => exporter # i
             /\ CpuOnce(cpu, i) /\ ChOnce(ch, i)
    BY <1>i DEF IInv, Conserved, OnePlace, InOrder
<1> DEFINE Goal ==
              /\ fate'[i] = "flying" <=>
                     \/ CpuHas(cpu', i) \/ MapHas(metrics_map', reader', i) \/ ChHas(ch', i)
                     \/ HandHas(reader', i) \/ exporter' = i
              /\ CpuHas(cpu', i) => /\ ~MapHas(metrics_map', reader', i) /\ ~ChHas(ch', i)
                                    /\ ~HandHas(reader', i) /\ exporter' # i
              /\ MapHas(metrics_map', reader', i) =>
                     ~ChHas(ch', i) /\ ~HandHas(reader', i) /\ exporter' # i
              /\ ChHas(ch', i) => ~HandHas(reader', i) /\ exporter' # i
              /\ HandHas(reader', i) => exporter' # i
              /\ CpuOnce(cpu', i) /\ ChOnce(ch', i)
<1>m. ~CpuHas(cpu, i) => CpuOnce(cpu, i)
    BY DEF CpuHas, CpuOnce
<1>n. ~ChHas(ch, i) => ChOnce(ch, i)
    BY DEF ChHas, ChOnce
<1>1. ASSUME NEW j \in Exchange, NEW d \in Conn, NEW v \in Exchange \cup {None},
             RequestPacket(j, d, v)
      PROVE  Goal
    <2>1. cpu' = cpu /\ UNCHANGED <<metrics_map, reader, ch, exporter>>
        BY <1>0, <1>1 DEF RequestPacket, TypeOK
    <2>2. CASE i = j
        <3>1. fate[i] = "none" /\ fate'[i] # "flying"
            BY <1>0, <1>1, <2>2 DEF RequestPacket, TypeOK, Unanswered
        <3>2. /\ ~CpuHas(cpu, i) /\ ~MapHas(metrics_map, reader, i) /\ ~ChHas(ch, i)
              /\ ~HandHas(reader, i) /\ exporter # i
            BY <1>0, <3>1, NotYetAnswered DEF Answered
        <3> QED
            BY <1>m, <1>n, <2>1, <3>1, <3>2
    <2>3. CASE i # j
        <3>1. conn[i] \in Pinned
            BY <1>0, <1>1, <2>3 DEF RequestPacket, TypeOK
        <3>2. fate'[i] = "flying" <=> fate[i] = "flying"
            BY <1>0, <1>1, <2>3 DEF RequestPacket, TypeOK, Unanswered
        <3> QED
            BY <1>i, <2>1, <3>1, <3>2
    <2> QED
        BY <2>2, <2>3
<1>2. ASSUME NEW k \in CPU, NEW d \in Conn, ResponseMatch(k, d) PROVE Goal
    <2> DEFINE j == http_processing_map[d]
    <2>1. /\ cpu' = [cpu EXCEPT ![k] = [pc |-> "matched", conn |-> d, val |-> j]]
          /\ cpu[k] = Idle /\ j # None /\ j \in Exchange
          /\ fate' = [fate EXCEPT ![j] = IF @ = "asked" THEN "flying" ELSE @]
          /\ UNCHANGED <<metrics_map, reader, ch, exporter, conn>>
        BY <1>0, <1>2, Types DEF ResponseMatch
    <2>2. /\ cpu'[k].val = j /\ cpu[k].val = None
          /\ \A l \in CPU : l # k => cpu'[l] = cpu[l]
        BY <1>0, <2>1 DEF TypeOK, Idle
    <2>3. conn[i] \in Pinned
        BY <2>1
    <2>u. UNCHANGED <<metrics_map, reader, ch, exporter>>
        BY <2>1
    <2>4. CASE i = j
        <3>1. conn[i] = d /\ d \in Pinned
            BY <1>0, <2>1, <2>3, <2>4 DEF HeldByConnection
        <3>2. \A l \in CPU : cpu[l].conn # d
            BY <1>2, <3>1 DEF ResponseMatch, MayFilter
        <3>3. fate[i] = "asked"
            BY <2>1, <2>4, <3>1, <3>2 DEF IInv, OneAtATime
        <3>4. /\ ~CpuHas(cpu, i) /\ ~MapHas(metrics_map, reader, i) /\ ~ChHas(ch, i)
              /\ ~HandHas(reader, i) /\ exporter # i
            BY <1>0, <3>3, NotYetAnswered DEF Answered
        <3>5. CpuHas(cpu', i) /\ CpuOnce(cpu', i)
            BY <2>2, <2>4, <3>4 DEF CpuHas, CpuOnce
        <3>6. fate'[i] = "flying"
            BY <1>0, <2>1, <2>4, <3>3
        <3> HIDE DEF j
        <3> QED
            BY <1>n, <2>u, <3>4, <3>5, <3>6
    <2>5. CASE i # j
        <3>1. fate'[i] = fate[i]
            BY <1>0, <2>1, <2>5
        <3>2. (CpuHas(cpu', i) <=> CpuHas(cpu, i)) /\ (CpuOnce(cpu, i) => CpuOnce(cpu', i))
            BY <1>0, <2>2, <2>5 DEF CpuHas, CpuOnce
        <3> HIDE DEF j
        <3> QED
            BY <1>i, <2>3, <2>u, <3>1, <3>2
    <2> QED
        BY <2>4, <2>5
<1>3. ASSUME NEW k \in CPU, ResponseDelete(k) PROVE Goal
    <2>1. \A l \in CPU : cpu'[l].val = cpu[l].val
        BY <1>0, <1>3 DEF ResponseDelete, TypeOK
    <2>2. (CpuHas(cpu', i) <=> CpuHas(cpu, i)) /\ (CpuOnce(cpu, i) => CpuOnce(cpu', i))
        BY <2>1 DEF CpuHas, CpuOnce
    <2>3. fate'[i] = "flying" <=> fate[i] = "flying"
        BY <1>0, <1>3 DEF ResponseDelete, Unanswered
    <2>4. UNCHANGED <<metrics_map, reader, ch, exporter, conn>>
        BY <1>3 DEF ResponseDelete
    <2> QED
        BY <1>i, <2>2, <2>3, <2>4
<1>4. ASSUME NEW k \in CPU, ResponseStore(k) PROVE Goal
    <2> DEFINE c == cpu[k].conn
               v == cpu[k].val
    <2>1. /\ c \in Conn /\ v \in Exchange /\ cpu[k].pc = "deleted"
          /\ metrics_map' = UpdateElem(metrics_map, c, v, MetricsMax)
          /\ cpu' = [cpu EXCEPT ![k] = Idle]
          /\ conn[v] = c
        BY <1>0, <1>4, Types DEF ResponseStore, MetricsKey, HeldByConnection
    <2>u. conn[i] \in Pinned /\ UNCHANGED <<reader, ch, exporter>>
        BY <1>4 DEF ResponseStore
    <2>2. cpu'[k].val = None /\ \A l \in CPU : l # k => cpu'[l] = cpu[l]
        BY <1>0, <2>1 DEF TypeOK, Idle
    <2>3. CASE i = v
        <3>1. CpuHas(cpu, i) /\ CpuOnce(cpu, i)
            BY <1>i, <2>3, <2>u DEF CpuHas
        <3>2. ~CpuHas(cpu', i) /\ CpuOnce(cpu', i)
            BY <1>0, <2>2, <2>3, <3>1 DEF CpuHas, CpuOnce
        <3>3. /\ fate[i] = "flying" /\ ~MapHas(metrics_map, reader, i) /\ ~ChHas(ch, i)
              /\ ~HandHas(reader, i) /\ exporter # i /\ ChOnce(ch, i)
            BY <1>i, <2>u, <3>1
        <3>4. c \in Pinned /\ metrics_map[c] # i /\ reader.val # i
            BY <2>1, <2>3, <2>u DEF IInv, OneAtATime
        <3>5. CASE ~Fits(metrics_map, c, MetricsMax)
            <4>1. metrics_map' = metrics_map
                BY <2>1, <3>5 DEF UpdateElem
            <4>2. fate'[i] = "rejected"
                BY <1>0, <1>4, <2>3, <3>5 DEF ResponseStore, MetricsKey
            <4> HIDE DEF c, v
            <4> QED
                BY <2>u, <3>2, <3>3, <4>1, <4>2
        <3>6. CASE Fits(metrics_map, c, MetricsMax)
            <4>1. metrics_map'[c] = i
                BY <1>0, <2>1, <2>3, <3>6 DEF UpdateElem, TypeOK
            <4>2. MapHas(metrics_map', reader, i)
                BY <2>1, <3>4, <4>1 DEF MapHas
            <4>3. fate'[i] = fate[i]
                BY <1>0, <1>4, <2>3, <3>4, <3>6 DEF ResponseStore, MetricsKey
            <4> HIDE DEF c, v
            <4> QED
                BY <2>u, <3>2, <3>3, <4>2, <4>3
        <3> QED
            BY <3>5, <3>6
    <2>4. CASE i # v
        <3>1. (CpuHas(cpu', i) <=> CpuHas(cpu, i)) /\ (CpuOnce(cpu, i) => CpuOnce(cpu', i))
            BY <1>0, <2>2, <2>4 DEF CpuHas, CpuOnce
        <3>2. CASE ~Fits(metrics_map, c, MetricsMax)
            <4>1. metrics_map' = metrics_map
                BY <2>1, <3>2 DEF UpdateElem
            <4>2. fate'[i] = fate[i]
                BY <1>0, <1>4, <2>4, <3>2 DEF ResponseStore, MetricsKey
            <4> HIDE DEF c, v
            <4> QED
                BY <1>i, <2>u, <3>1, <4>1, <4>2
        <3>3. CASE Fits(metrics_map, c, MetricsMax) /\ metrics_map[c] # i
            <4>1. /\ metrics_map'[c] # i
                  /\ \A d \in Conn : d # c => metrics_map'[d] = metrics_map[d]
                BY <1>0, <2>1, <2>4, <3>3 DEF UpdateElem, TypeOK
            <4>2. MapHas(metrics_map', reader, i) <=> MapHas(metrics_map, reader, i)
                BY <3>3, <4>1 DEF MapHas
            <4>3. fate'[i] = fate[i]
                BY <1>0, <1>4, <2>4, <3>3 DEF ResponseStore, MetricsKey
            <4> HIDE DEF c, v
            <4> QED
                BY <1>i, <2>u, <3>1, <4>2, <4>3
        <3>4. CASE Fits(metrics_map, c, MetricsMax) /\ metrics_map[c] = i
            <4>1. /\ metrics_map'[c] # i
                  /\ \A d \in Conn : d # c => metrics_map'[d] = metrics_map[d] /\ metrics_map[d] # i
                BY <1>0, <2>1, <2>4, <3>4, OwnEntry DEF UpdateElem, TypeOK
            <4>2. ~MapHas(metrics_map', reader, i)
                BY <4>1 DEF MapHas
            <4>3. CASE Taken(c)
                <5>1. ~MapHas(metrics_map, reader, i)
                    BY <4>1, <4>3 DEF MapHas, Taken
                <5>2. fate'[i] = fate[i]
                    BY <1>0, <1>4, <3>4, <4>3 DEF ResponseStore, MetricsKey
                <5> HIDE DEF c, v
                <5> QED
                    BY <1>i, <2>u, <3>1, <4>2, <5>1, <5>2
            <4>4. CASE ~Taken(c)
                <5>1. MapHas(metrics_map, reader, i)
                    BY <2>1, <3>4, <4>4 DEF MapHas, Taken
                <5>2. fate'[i] = "overwritten"
                    BY <1>0, <1>4, <2>4, <3>4, <4>4 DEF ResponseStore, MetricsKey
                <5> HIDE DEF c, v
                <5> QED
                    BY <1>i, <2>u, <3>1, <4>2, <5>1, <5>2
            <4> QED
                BY <4>3, <4>4
        <3> QED
            BY <3>2, <3>3, <3>4
    <2> QED
        BY <2>3, <2>4
<1>5. ASSUME NEW c \in Conn, ReaderNext(c) PROVE Goal
    <2>1. /\ reader.pc = "next" /\ metrics_map[c] # None
          /\ reader'.pc = "decode" /\ reader'.key = c /\ reader'.val = metrics_map[c]
          /\ conn[i] \in Pinned
        BY <1>5 DEF ReaderNext
    <2>u. UNCHANGED <<cpu, metrics_map, ch, exporter, fate>>
        BY <1>5 DEF ReaderNext
    <2>2. ~HandHas(reader, i) /\ (HandHas(reader', i) <=> metrics_map[c] = i)
        BY <2>1 DEF HandHas
    <2>3. CASE metrics_map[c] = i
        <3>1. MapHas(metrics_map, reader, i)
            BY <2>1, <2>3 DEF MapHas
        <3>2. ~MapHas(metrics_map, reader', i)
            BY <1>0, <2>1, <2>3, OwnEntry DEF MapHas
        <3> QED
            BY <1>i, <2>1, <2>2, <2>3, <2>u, <3>1, <3>2
    <2>4. CASE metrics_map[c] # i
        <3>1. MapHas(metrics_map, reader', i) <=> MapHas(metrics_map, reader, i)
            BY <2>1, <2>4 DEF MapHas
        <3> QED
            BY <1>i, <2>1, <2>2, <2>4, <2>u, <3>1
    <2> QED
        BY <2>3, <2>4
<1>6. ASSUME ReaderDecode PROVE Goal
    <2>1. /\ reader.pc = "decode" /\ reader'.pc # "next" /\ conn[i] \in Pinned
          /\ reader'.key = reader.key /\ reader'.val = reader.val
          /\ reader.val \in Exchange
        BY <1>0, <1>6 DEF ReaderDecode, TypeOK, Typed, ReaderHolds
    <2>u. UNCHANGED <<cpu, metrics_map, ch, exporter>>
        BY <1>6 DEF ReaderDecode
    <2>2. MapHas(metrics_map, reader', i) <=> MapHas(metrics_map, reader, i)
        BY <2>1 DEF MapHas
    <2>3. CASE reader.val \in Undecodable
        <3>1. reader'.pc = "ended" /\ fate' = [fate EXCEPT ![reader.val] = "undecoded"]
            BY <1>0, <1>6, <2>3 DEF ReaderDecode, TypeOK
        <3>2. /\ HandHas(reader, i) <=> reader.val = i
              /\ ~HandHas(reader', i)
              /\ reader.val = i => fate'[i] = "undecoded"
              /\ reader.val # i => fate'[i] = fate[i]
            BY <1>0, <2>1, <3>1 DEF HandHas
        <3> QED
            BY <1>i, <2>1, <2>2, <2>u, <3>2
    <2>4. CASE reader.val \notin Undecodable
        <3>1. reader'.pc = "send" /\ fate' = fate
            BY <1>0, <1>6, <2>4 DEF ReaderDecode, TypeOK
        <3>2. HandHas(reader', i) <=> HandHas(reader, i)
            BY <2>1, <3>1 DEF HandHas
        <3> QED
            BY <1>i, <2>1, <2>2, <2>u, <3>1, <3>2
    <2> QED
        BY <2>3, <2>4
<1>7. ASSUME ReaderSend PROVE Goal
    <2>1. /\ reader.pc = "send" /\ reader'.pc = "delete" /\ conn[i] \in Pinned
          /\ reader'.key = reader.key /\ reader'.val = reader.val
          /\ reader.val \in Exchange
        BY <1>0, <1>7 DEF ReaderSend, TypeOK, Typed, ReaderHolds
    <2>u. UNCHANGED <<cpu, metrics_map, exporter, fate>>
        BY <1>7 DEF ReaderSend
    <2>2. MapHas(metrics_map, reader', i) <=> MapHas(metrics_map, reader, i)
        BY <2>1 DEF MapHas
    <2>3. ~HandHas(reader', i) /\ (HandHas(reader, i) <=> reader.val = i)
        BY <2>1 DEF HandHas
    <2>4. /\ DOMAIN ch' = DOMAIN ch \cup {Len(ch) + 1} /\ Len(ch) + 1 \notin DOMAIN ch
          /\ \A n \in DOMAIN ch : ch'[n] = ch[n]
          /\ ch'[Len(ch) + 1] = reader.val
        BY <1>0, <1>7, <2>1, AppendSeq DEF ReaderSend, TypeOK
    <2>5. /\ ChHas(ch', i) <=> ChHas(ch, i) \/ reader.val = i
          /\ ChOnce(ch, i) /\ ~(ChHas(ch, i) /\ reader.val = i) => ChOnce(ch', i)
        BY <2>4 DEF ChHas, ChOnce
    <2> QED
        BY <1>i, <2>1, <2>2, <2>3, <2>5, <2>u
<1>8. ASSUME ReaderDelete PROVE Goal
    <2> DEFINE c == reader.key
               j == metrics_map[c]
    <2>1. /\ reader.pc = "delete" /\ reader'.pc = "next" /\ conn[i] \in Pinned
          /\ c \in Conn /\ reader.val \in Exchange
        BY <1>0, <1>8 DEF ReaderDelete, Typed, ReaderHolds
    <2>u. UNCHANGED <<cpu, ch, exporter>>
        BY <1>8 DEF ReaderDelete
    <2>2. ~HandHas(reader', i) /\ ~HandHas(reader, i)
        BY <2>1 DEF HandHas
    <2>3. metrics_map'[c] # i /\ \A d \in Conn : d # c => metrics_map'[d] = metrics_map[d]
        BY <1>0, <1>8, <2>1 DEF ReaderDelete, MetricsAfterRead, DeleteElem, TypeOK
    <2>4. CASE j # i
        <3>1. MapHas(metrics_map', reader', i) <=> MapHas(metrics_map, reader, i)
            BY <2>1, <2>3, <2>4 DEF MapHas
        <3>2. fate'[i] = fate[i]
            BY <1>0, <1>8, <2>4 DEF ReaderDelete
        <3> HIDE DEF c, j
        <3> QED
            BY <1>i, <2>1, <2>2, <2>u, <3>1, <3>2
    <2>5. CASE j = i
        <3>1. ~MapHas(metrics_map', reader', i)
            BY <1>0, <2>1, <2>3, <2>5, OwnEntry DEF MapHas
        <3>2. MapHas(metrics_map, reader, i) <=> reader.val # i
            BY <1>0, <2>1, <2>5, OwnEntry DEF MapHas
        <3>3. /\ reader.val # i => fate'[i] = "unread"
              /\ reader.val = i => fate'[i] = fate[i]
            BY <1>0, <1>8, <2>5 DEF ReaderDelete
        <3> HIDE DEF c, j
        <3> QED
            BY <1>i, <2>1, <2>2, <2>u, <3>1, <3>2, <3>3
    <2> QED
        BY <2>4, <2>5
<1>9. ASSUME NEW external \in BOOLEAN, ExportReceive(external) PROVE Goal
    <2>1. exporter = None /\ ch # <<>> /\ ch' = Tail(ch) /\ conn[i] \in Pinned
        BY <1>9 DEF ExportReceive
    <2>u. UNCHANGED <<cpu, metrics_map, reader>>
        BY <1>9 DEF ExportReceive
    <2>2. /\ Head(ch) \in Exchange /\ Head(ch) = ch[1] /\ 1 \in DOMAIN ch
          /\ \A n \in DOMAIN Tail(ch) :
                 n \in Nat /\ n + 1 \in DOMAIN ch /\ n + 1 # 1 /\ Tail(ch)[n] = ch[n + 1]
          /\ \A n \in DOMAIN ch :
                 n # 1 => n - 1 \in DOMAIN Tail(ch) /\ Tail(ch)[n - 1] = ch[n]
        BY <1>0, <2>1, HeadTail DEF TypeOK
    <2>3. ChOnce(ch, i) => ChOnce(ch', i)
        <3> SUFFICES ASSUME ChOnce(ch, i), NEW m \in DOMAIN ch', NEW n \in DOMAIN ch',
                            ch'[m] = i, ch'[n] = i
                     PROVE  m = n
            BY DEF ChOnce
        <3>1. m + 1 = n + 1 /\ m \in Nat /\ n \in Nat
            BY <2>1, <2>2 DEF ChOnce
        <3> QED
            BY <3>1
    <2>4. ChHas(ch', i) \/ Head(ch) = i <=> ChHas(ch, i)
        <3>1. ChHas(ch', i) \/ Head(ch) = i => ChHas(ch, i)
            BY <2>1, <2>2 DEF ChHas
        <3>2. ASSUME ChHas(ch, i), Head(ch) # i PROVE ChHas(ch', i)
            <4>1. PICK n \in DOMAIN ch : ch[n] = i
                BY <3>2 DEF ChHas
            <4> QED
                BY <2>1, <2>2, <3>2, <4>1 DEF ChHas
        <3> QED
            BY <3>1, <3>2
    <2>5. Head(ch) = i /\ ChOnce(ch, i) => ~ChHas(ch', i)
        BY <2>1, <2>2 DEF ChOnce, ChHas
    <2>6. /\ exporter # i
          /\ Head(ch) # i => exporter' # i /\ fate'[i] = fate[i]
          /\ Head(ch) = i => \/ exporter' = i /\ fate'[i] = fate[i]
                             \/ exporter' # i /\ fate'[i] = "skipped"
        BY <1>0, <1>9, <2>1, <2>2 DEF ExportReceive, ExporterSkips
    <2> QED
        BY <1>i, <2>1, <2>3, <2>4, <2>5, <2>6, <2>u
<1>10. ASSUME ExportForward PROVE Goal
    <2>1. /\ exporter' = None /\ conn[i] \in Pinned
          /\ exporter = i => fate'[i] = "reported"
          /\ exporter # i => fate'[i] = fate[i]
        BY <1>0, <1>10 DEF ExportForward
    <2>u. UNCHANGED <<cpu, metrics_map, reader, ch>>
        BY <1>10 DEF ExportForward
    <2> QED
        BY <1>0, <1>i, <2>1, <2>u
<1>11. ASSUME PutFilter \/ UNCHANGED vars PROVE Goal
    <2>1. UNCHANGED <<cpu, metrics_map, reader, ch, exporter, fate, conn>>
        BY <1>11 DEF PutFilter, vars
    <2> QED
        BY <1>i, <2>1
<1> QED
    BY <1>1, <1>2, <1>3, <1>4, <1>5, <1>6, <1>7, <1>8, <1>9, <1>10, <1>11 DEF Next

-----------------------------------------------------------------------------
(* The invariant, and what follows from it.                                *)

\* The probe starts with nothing held anywhere.
LEMMA InitIInv == Init => IInv
<1> SUFFICES ASSUME Init PROVE IInv
    OBVIOUS
<1> USE HttpProbeAssumption
<1>0. Typed
    BY InitTyped
<1>1. HeldByConnection
    BY DEF Init, Idle, HeldByConnection, Answered
<1>2. LostToSameConnection /\ OneAtATime
    BY DEF Init, Idle, LostToSameConnection, OneAtATime
<1>3. Conserved /\ OnePlace
    BY DEF Init, Idle, InOrder, Conserved, OnePlace
<1> QED
    BY <1>0, <1>1, <1>2, <1>3 DEF IInv

\* The inductive invariant holds throughout.
LEMMA Invariance == Spec => []IInv
<1>1. IInv /\ [Next]_vars => IInv'
    BY StepTyped, StepHeld, StepLost, StepOneAtATime, StepPlaces DEF IInv
<1> QED
    BY <1>1, InitIInv, PTL DEF Spec

\* A stored exchange is overwritten or deleted unread only when its connection
\* answered another one.
THEOREM LossWithinConnection == Spec => []LostToSameConnection
<1>1. IInv => LostToSameConnection
    BY DEF IInv, LostToSameConnection
<1> QED
    BY <1>1, Invariance, PTL

\* The places of an exchange in AccountedFor are those of the invariant.
LEMMA Places ==
    ASSUME Typed, HeldByConnection, OnePlace, NEW i \in InOrder
    PROVE  /\ Where(i) # {} <=>
                  \/ CpuHas(cpu, i) \/ MapHas(metrics_map, reader, i) \/ ChHas(ch, i)
                  \/ HandHas(reader, i) \/ exporter = i
           /\ \A x, y \in Where(i) : x = y
<1> USE HttpProbeAssumption
<1>0. i \in Exchange
    BY DEF InOrder
<1> DEFINE C == {<<"cpu", k>> : k \in {k \in CPU : cpu[k].val = i}}
           M == {<<"map", c>> : c \in {c \in Conn : metrics_map[c] = i /\ ~Taken(c)}}
           Q == {<<"ch", n>> : n \in {n \in DOMAIN ch : ch[n] = i}}
           H == {<<"hand", g>> : g \in {g \in {"reader", "exporter"} :
                     IF g = "reader" THEN reader.pc \in {"decode", "send"} /\ reader.val = i
                     ELSE exporter = i}}
<1>1. Where(i) = C \cup M \cup Q \cup H
    BY DEF Where
<1>2. (C # {} <=> CpuHas(cpu, i)) /\ \A x, y \in C : x = y
    <2>1. C # {} <=> CpuHas(cpu, i)
        BY DEF CpuHas
    <2>2. \A x, y \in C : x = y
        BY DEF OnePlace, CpuOnce
    <2> QED
        BY <2>1, <2>2
<1>3. (M # {} <=> MapHas(metrics_map, reader, i)) /\ \A x, y \in M : x = y
    <2>1. M # {} <=> MapHas(metrics_map, reader, i)
        BY DEF MapHas, Taken
    <2>2. \A c, d \in Conn : metrics_map[c] = i /\ metrics_map[d] = i => c = d
        BY <1>0, OwnEntry
    <2>3. \A x, y \in M : x = y
        BY <2>2
    <2> QED
        BY <2>1, <2>3
<1>4. (Q # {} <=> ChHas(ch, i)) /\ \A x, y \in Q : x = y
    <2>1. Q # {} <=> ChHas(ch, i)
        BY DEF ChHas
    <2>2. \A x, y \in Q : x = y
        BY DEF OnePlace, ChOnce
    <2> QED
        BY <2>1, <2>2
<1>5. (H # {} <=> HandHas(reader, i) \/ exporter = i) /\ \A x, y \in H : x = y
    <2>0. /\ <<"hand", "reader">> \in H <=> HandHas(reader, i)
          /\ <<"hand", "exporter">> \in H <=> exporter = i
          /\ H \subseteq {<<"hand", "reader">>, <<"hand", "exporter">>}
        BY DEF HandHas
    <2>1. H # {} <=> HandHas(reader, i) \/ exporter = i
        <3> HIDE DEF H
        <3> QED BY <2>0
    <2>2. ~(HandHas(reader, i) /\ exporter = i)
        BY DEF OnePlace
    <2>3. \A x, y \in H : x = y
        BY <2>2 DEF HandHas
    <2> QED
        BY <2>1, <2>3
<1> HIDE DEF C, M, Q, H
<1>6. /\ C # {} => M = {} /\ Q = {} /\ H = {}
      /\ M # {} => Q = {} /\ H = {}
      /\ Q # {} => H = {}
    BY <1>2, <1>3, <1>4, <1>5 DEF OnePlace
<1>7. \A x, y \in C \cup M \cup Q \cup H : x = y
    BY <1>2, <1>3, <1>4, <1>5, <1>6
<1>8. C \cup M \cup Q \cup H # {} <=> C # {} \/ M # {} \/ Q # {} \/ H # {}
    OBVIOUS
<1> QED
    BY <1>1, <1>2, <1>3, <1>4, <1>5, <1>7, <1>8

\* An answered exchange whose connection's packets are filtered one at a time is
\* in exactly one place of the pipeline until it is reported or dropped.
THEOREM ExchangeAccountedFor == Spec => []AccountedFor
<1>1. IInv => AccountedFor
    <2> SUFFICES ASSUME IInv, SlotsKept, NEW i \in InOrder
                 PROVE  Cardinality(Where(i)) = IF fate[i] = "flying" THEN 1 ELSE 0
        BY DEF AccountedFor
    <2>0. Typed /\ HeldByConnection /\ OnePlace
        BY DEF IInv
    <2>1. (Where(i) # {} <=> fate[i] = "flying") /\ \A x, y \in Where(i) : x = y
        BY <2>0, Places DEF IInv, Conserved
    <2>2. CASE fate[i] = "flying"
        <3>1. PICK x : x \in Where(i)
            BY <2>1, <2>2
        <3>2. Where(i) = {x}
            BY <2>1, <3>1
        <3>3. Cardinality({x}) = 1
            BY FS_Singleton
        <3> QED
            BY <2>2, <3>2, <3>3
    <2>3. CASE fate[i] # "flying"
        <3>1. Where(i) = {}
            BY <2>1, <2>3
        <3> QED
            BY <2>3, <3>1, FS_EmptySet
    <2> QED
        BY <2>2, <2>3
<1> QED
    BY <1>1, Invariance, PTL

\* On a connection whose packets are filtered one at a time, bpf_map_delete_elem
\* on http_processing_map only removes the request that was just answered.
THEOREM OnlyAnsweredRequestsLeave == Spec => OnlyAnsweredLeave
<1>1. ASSUME IInv, [Next]_vars
      PROVE  SlotsKept =>
                 \A c \in Pinned :
                     http_processing_map[c] # None /\ http_processing_map'[c] = None =>
                         fate'[http_processing_map[c]] \notin {"asked", "unanswered"}
    <2> SUFFICES ASSUME SlotsKept, NEW c \in Pinned,
                        http_processing_map[c] # None, http_processing_map'[c] = None
                 PROVE  fate'[http_processing_map[c]] \notin {"asked", "unanswered"}
        OBVIOUS
    <2> USE HttpProbeAssumption
    <2>0. Typed /\ TypeOK /\ HeldByConnection /\ c \in Conn /\ http_processing_map[c] \in Exchange
        BY <1>1, Types DEF IInv, Typed
    <2>1. http_processing_map' # http_processing_map
        OBVIOUS
    <2>2. \A j \in Exchange, d \in Conn, v \in Exchange \cup {None} : ~RequestPacket(j, d, v)
        BY <2>0 DEF RequestPacket, UpdateElem, TypeOK
    <2>3. PICK k \in CPU : ResponseDelete(k)
        <3>1. \A k \in CPU : ~ResponseStore(k) /\ \A d \in Conn : ~ResponseMatch(k, d) /\ ~ReaderNext(d)
            BY <2>1 DEF ResponseStore, ResponseMatch, ReaderNext
        <3>2. ~(PutFilter \/ ReaderDecode \/ ReaderSend \/ ReaderDelete \/ ExportForward \/ UNCHANGED vars)
            BY <2>1 DEF PutFilter, ReaderDecode, ReaderSend, ReaderDelete, ExportForward, vars
        <3>3. \A external \in BOOLEAN : ~ExportReceive(external)
            BY <2>1 DEF ExportReceive
        <3>4. \A d \in Conn : ~ReaderNext(d)
            BY <2>1 DEF ReaderNext
        <3> QED
            BY <1>1, <2>2, <3>1, <3>2, <3>3, <3>4 DEF Next
    <2>4. cpu[k].conn = c
        BY <2>0, <2>3 DEF ResponseDelete, DeleteElem, TypeOK
    <2>5. http_processing_map[c] = cpu[k].val /\ cpu[k].pc = "matched"
        BY <1>1, <2>3, <2>4 DEF ResponseDelete, IInv, OneAtATime
    <2>6. Answered(http_processing_map[c])
        BY <2>0, <2>5 DEF HeldByConnection
    <2> QED
        BY <1>1, <2>0, <2>6, HistoryGrows DEF Answered
<1>2. [][IInv /\ [Next]_vars]_vars =>
          [][SlotsKept =>
                 \A c \in Pinned :
                     http_processing_map[c] # None /\ http_processing_map'[c] = None =>
                         fate'[http_processing_map[c]] \notin {"asked", "unanswered"}]_vars
    BY <1>1, PTL
<1> QED
    BY <1>2, Invariance, PTL DEF Spec, OnlyAnsweredLeave

-----------------------------------------------------------------------------
(* Delivery.                                                               *)

\* A step that settles one exchange, flying if it is among those in order, is a
\* step of Delivery or leaves it alone.
LEMMA SettleOne ==
    ASSUME TypeOK, NEW j \in Exchange, conn' = conn,
           conn[j] \in Pinned => fate[j] = "flying",
           NEW f \in {"overwritten", "rejected", "unread", "undecoded", "skipped", "reported"},
           fate' = [fate EXCEPT ![j] = f]
    PROVE  [D!Next]_D!vars
<1>1. \A i \in Exchange : fate'[i] = IF i = j THEN f ELSE fate[i]
    BY DEF TypeOK
<1>2. CASE conn[j] \notin Pinned
    BY <1>1, <1>2 DEF D!vars, Settled, InOrder
<1>3. CASE conn[j] \in Pinned /\ f = "reported"
    <2>1. D!Deliver({j})
        BY <1>1, <1>3 DEF D!Deliver, Settled, InOrder
    <2> QED
        BY <2>1 DEF D!Next
<1>4. CASE conn[j] \in Pinned /\ f # "reported"
    <2>1. D!Lose({j})
        BY <1>1, <1>4 DEF D!Lose, Settled, InOrder
    <2> QED
        BY <2>1 DEF D!Next
<1> QED
    BY <1>2, <1>3, <1>4

\* Every step of the probe is a step of Delivery or leaves it alone.
LEMMA StepDelivery == IInv /\ SlotsKept /\ [Next]_vars => [D!Next]_D!vars
<1> SUFFICES ASSUME IInv, SlotsKept, [Next]_vars PROVE [D!Next]_D!vars
    OBVIOUS
<1> USE HttpProbeAssumption
<1>0. Typed /\ TypeOK /\ HeldByConnection
    BY DEF IInv, Typed
<1>f. ASSUME NEW j \in Exchange, conn[j] \in Pinned,
             \/ CpuHas(cpu, j) \/ MapHas(metrics_map, reader, j) \/ ChHas(ch, j)
             \/ HandHas(reader, j) \/ exporter = j
      PROVE  fate[j] = "flying"
    BY <1>f DEF IInv, Conserved, InOrder
<1>u. ASSUME UNCHANGED <<fate, conn>> PROVE UNCHANGED D!vars
    BY <1>u DEF D!vars, Settled, InOrder
<1>1. ASSUME NEW j \in Exchange, NEW d \in Conn, NEW v \in Exchange \cup {None},
             RequestPacket(j, d, v)
      PROVE  UNCHANGED D!vars
    <2>1. /\ conn[j] = None /\ fate'[j] \in {"asked", "unanswered"}
          /\ \A i \in Exchange : i # j => conn'[i] = conn[i]
          /\ \A i \in Exchange :
                 fate'[i] = fate[i] \/ i = j \/ (fate[i] = "asked" /\ fate'[i] = "unanswered")
        BY <1>0, <1>1 DEF RequestPacket, Unanswered, TypeOK, HeldByConnection
    <2> QED
        BY <2>1 DEF D!vars, Settled, InOrder
<1>2. ASSUME NEW k \in CPU, NEW d \in Conn, ResponseMatch(k, d) PROVE [D!Next]_D!vars
    <2> DEFINE j == http_processing_map[d]
    <2>1. /\ j \in Exchange /\ conn' = conn
          /\ fate' = [fate EXCEPT ![j] = IF @ = "asked" THEN "flying" ELSE @]
        BY <1>0, <1>2, Types DEF ResponseMatch
    <2>2. CASE fate[j] # "asked"
        <3>1. fate' = fate
            BY <1>0, <2>1, <2>2 DEF TypeOK
        <3> QED
            BY <1>u, <2>1, <3>1
    <2>3. CASE fate[j] = "asked"
        <3>1. \A i \in Exchange : fate'[i] = IF i = j THEN "flying" ELSE fate[i]
            BY <1>0, <2>1, <2>3 DEF TypeOK
        <3>2. CASE conn[j] \notin Pinned
            BY <2>1, <3>1, <3>2 DEF D!vars, Settled, InOrder
        <3>3. CASE conn[j] \in Pinned
            <4>1. D!Accept({j}, {})
                BY <2>1, <2>3, <3>1, <3>3 DEF D!Accept, D!Known, Settled, InOrder
            <4>2. {j} \in SUBSET Exchange /\ {} \in SUBSET Exchange
                BY <2>1
            <4> QED
                BY <4>1, <4>2 DEF D!Next
        <3> QED
            BY <3>2, <3>3
    <2> QED
        BY <2>2, <2>3
<1>3. ASSUME NEW k \in CPU, ResponseDelete(k) PROVE UNCHANGED D!vars
    <2>1. /\ conn' = conn
          /\ \A i \in Exchange : fate'[i] = fate[i] \/ (fate[i] = "asked" /\ fate'[i] = "unanswered")
        BY <1>0, <1>3 DEF ResponseDelete, Unanswered
    <2> QED
        BY <2>1 DEF D!vars, Settled, InOrder
<1>4. ASSUME NEW k \in CPU, ResponseStore(k) PROVE [D!Next]_D!vars
    <2> DEFINE c == cpu[k].conn
               v == cpu[k].val
               old == metrics_map[c]
    <2>1. c \in Conn /\ v \in Exchange /\ conn' = conn /\ CpuHas(cpu, v)
        BY <1>0, <1>4, Types DEF ResponseStore, CpuHas
    <2>2. \/ fate' = [fate EXCEPT ![v] = "rejected"]
          \/ old # None /\ ~Taken(c) /\ fate' = [fate EXCEPT ![old] = "overwritten"]
          \/ UNCHANGED fate
        BY <1>4 DEF ResponseStore, MetricsKey
    <2>3. old # None /\ ~Taken(c) => old \in Exchange /\ MapHas(metrics_map, reader, old)
        BY <1>0, <2>1, Types DEF MapHas, Taken
    <2> HIDE DEF c, v, old
    <2>4. CASE fate' = [fate EXCEPT ![v] = "rejected"]
        BY <1>0, <1>f, <2>1, <2>4, SettleOne
    <2>5. CASE old # None /\ ~Taken(c) /\ fate' = [fate EXCEPT ![old] = "overwritten"]
        BY <1>0, <1>f, <2>1, <2>3, <2>5, SettleOne
    <2> QED
        BY <1>u, <2>1, <2>2, <2>4, <2>5
<1>5. ASSUME ReaderDecode PROVE [D!Next]_D!vars
    <2>1. reader.val \in Exchange /\ conn' = conn /\ HandHas(reader, reader.val)
        BY <1>0, <1>5 DEF ReaderDecode, Typed, ReaderHolds, HandHas
    <2>2. fate' = [fate EXCEPT ![reader.val] = "undecoded"] \/ UNCHANGED fate
        BY <1>5 DEF ReaderDecode
    <2> QED
        BY <1>0, <1>f, <1>u, <2>1, <2>2, SettleOne
<1>6. ASSUME ReaderDelete PROVE [D!Next]_D!vars
    <2> DEFINE now == metrics_map[reader.key]
    <2>1. reader.key \in Conn /\ conn' = conn
        BY <1>0, <1>6 DEF ReaderDelete, Typed, ReaderHolds
    <2>2. \/ now # None /\ now # reader.val /\ fate' = [fate EXCEPT ![now] = "unread"]
          \/ UNCHANGED fate
        BY <1>6 DEF ReaderDelete
    <2>3. now # None /\ now # reader.val => now \in Exchange /\ MapHas(metrics_map, reader, now)
        BY <1>0, <2>1, Types DEF MapHas
    <2> HIDE DEF now
    <2> QED
        BY <1>0, <1>f, <1>u, <2>1, <2>2, <2>3, SettleOne
<1>7. ASSUME NEW external \in BOOLEAN, ExportReceive(external) PROVE [D!Next]_D!vars
    <2> DEFINE j == Head(ch)
    <2>1. j \in Exchange /\ ChHas(ch, j) /\ conn' = conn
        BY <1>0, <1>7, HeadTail DEF ExportReceive, TypeOK, ChHas
    <2>2. fate' = [fate EXCEPT ![j] = "skipped"] \/ UNCHANGED fate
        BY <1>7 DEF ExportReceive
    <2> HIDE DEF j
    <2> QED
        BY <1>0, <1>f, <1>u, <2>1, <2>2, SettleOne
<1>8. ASSUME ExportForward PROVE [D!Next]_D!vars
    <2>1. exporter \in Exchange /\ conn' = conn /\ fate' = [fate EXCEPT ![exporter] = "reported"]
        BY <1>8 DEF ExportForward
    <2> QED
        BY <1>0, <1>f, <2>1, SettleOne
<1>9. ASSUME PutFilter \/ ReaderSend \/ UNCHANGED vars \/ \E c \in Conn : ReaderNext(c)
      PROVE  UNCHANGED D!vars
    BY <1>9, <1>u DEF PutFilter, ReaderSend, ReaderNext, vars
<1> QED
    BY <1>1, <1>2, <1>3, <1>4, <1>5, <1>6, <1>7, <1>8, <1>9 DEF Next

\* While deleted slots are not reused, every answered exchange of a connection
\* whose packets are filtered one at a time is accepted once and then delivered
\* once or lost: the entry that stays in metrics_map while the reader waits for
\* the channel is not read again.
THEOREM ProbeImplementsDelivery == SlotsKept => (Spec => RefinesDelivery)
<1> SUFFICES ASSUME SlotsKept PROVE Spec => RefinesDelivery
    OBVIOUS
<1>1. Init => D!Init
    BY DEF Init, D!Init, Settled, InOrder
<1>2. IInv /\ [Next]_vars => [D!Next]_D!vars
    BY StepDelivery
<1> QED
    BY <1>1, <1>2, Invariance, PTL DEF Spec, RefinesDelivery, D!Spec

=============================================================================
