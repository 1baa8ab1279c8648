--------------------------- MODULE ReporterProofs ---------------------------
(***************************************************************************)
(* Theorems about the controller and its collector client, for any metrics *)
(* and names, any capacity of the channel and any number of retries.       *)
(***************************************************************************)
EXTENDS Reporter, FiniteSetTheorems, FunctionTheorems, TLAPS

-----------------------------------------------------------------------------
(* The inductive invariant.                                                *)

\* A sequence without repetitions.
Distinct(s) == \A a, b \in DOMAIN s : s[a] = s[b] => a = b

Apart(s, t) == \A a \in DOMAIN s, b \in DOMAIN t : s[a] # t[b]

AllPending(s) == \A a \in DOMAIN s : fate[s[a]] = "pending"

\* Where Run is tells what it holds: no group in its select, the whole batch
\* between groups, and while it posts the first group is the one in the body.
RunState ==
    /\ pc = "select" => groups = <<>>
    /\ pc = "write" => groups # <<>>

\* What is in the channel, in the buffer of the select, and in the groups is
\* pending, except for a group whose body has been read.
HeldPending ==
    /\ AllPending(ch)
    /\ pc = "select" => AllPending(metrics)
    /\ \A g \in DOMAIN groups :
           \/ AllPending(groups[g])
           \/ /\ g = 1 /\ pc = "write" /\ body = "closed"
              /\ \A a \in DOMAIN groups[g] : fate[groups[g][a]] = "delivered"

\* No metric is in two places or twice in one.
OnePlace ==
    /\ Distinct(ch)
    /\ pc = "select" => Distinct(metrics) /\ Apart(ch, metrics)
    /\ \A g \in DOMAIN groups : Distinct(groups[g]) /\ Apart(ch, groups[g])
    /\ \A g, h \in DOMAIN groups : g # h => Apart(groups[g], groups[h])

\* A pending metric is in some place.
PendingHeld ==
    \A m \in Metric : fate[m] = "pending" =>
        \/ m \in Elements(ch)
        \/ pc = "select" /\ m \in Elements(metrics)
        \/ \E g \in DOMAIN groups : m \in Elements(groups[g])

\* What the collector has taken is settled as delivered, without repetitions.
TakenSettled ==
    /\ Distinct(received)
    /\ \A a \in DOMAIN received : fate[received[a]] = "delivered"

\* A post is under way only inside the retry loop and below its bound, and one
\* whose body was read has delivered its group.
Posting ==
    post # "none" =>
        /\ pc = "write" /\ attempt < Retry
        /\ post = "taken" => \A x \in Elements(Head(groups)) : fate[x] = "delivered"

SafeInv ==
    TypeOK /\ RunState /\ HeldPending /\ OnePlace /\ PendingHeld /\ TakenSettled /\ Posting

-----------------------------------------------------------------------------
(* The invariant behind the order of what is taken.                        *)

\* x was sent before y, where q is the sequence of what was sent.
Precedes(q, x, y) == \E k, l \in DOMAIN q : k < l /\ q[k] = x /\ q[l] = y

Sorted(q, s) == \A a, b \in DOMAIN s : a < b => Precedes(q, s[a], s[b])

\* Every metric in s was sent before every metric in t.
AllBefore(q, s, t) == \A a \in DOMAIN s, b \in DOMAIN t : Precedes(q, s[a], t[b])

\* The group of a metric with the name n: GroupOf as a function of the name.
KindOf(n) ==
    CASE n = "trace" -> "none"
      [] n = "span"  -> "trace"
      [] n = "error" -> "error"
      [] OTHER       -> "metrics"

\* Every metric that has a fate was sent.
SentKnown == \A m \in Metric : fate[m] # "none" => m \in Elements(sent)

\* Each holder is in the order of sending, and the holders follow each other:
\* what has been taken, the buffer or the groups, the channel.
HeldInOrder ==
    /\ Sorted(sent, ch)
    /\ AllBefore(sent, received, ch)
    /\ pc = "select" => /\ Sorted(sent, metrics)
                        /\ AllBefore(sent, metrics, ch)
                        /\ AllBefore(sent, received, metrics)
    /\ \A g \in DOMAIN groups : Sorted(sent, groups[g]) /\ AllBefore(sent, groups[g], ch)

\* Within a batch the order holds only group by group: two groups hold metrics
\* that go to different groups, and what has been taken of a group was sent
\* before what is still to be taken of it.
GroupsInOrder ==
    /\ \A g, h \in DOMAIN groups : g # h =>
           \A a \in DOMAIN groups[g], b \in DOMAIN groups[h] :
               KindOf(name[groups[g][a]]) # KindOf(name[groups[h][b]])
    /\ \A g \in DOMAIN groups : \A a \in DOMAIN received, b \in DOMAIN groups[g] :
           /\ KindOf(name[received[a]]) = KindOf(name[groups[g][b]])
           /\ fate[groups[g][b]] = "pending"
           => Precedes(sent, received[a], groups[g][b])

\* TakenInOrder, in these terms.
TakenSorted ==
    \A a, b \in DOMAIN received :
        a < b /\ KindOf(name[received[a]]) = KindOf(name[received[b]]) =>
            Precedes(sent, received[a], received[b])

OrderInv == SentKnown /\ HeldInOrder /\ GroupsInOrder /\ TakenSorted

-----------------------------------------------------------------------------
(* Sequences.                                                              *)

\* The elements of a sequence.
LEMMA ElementOf ==
    ASSUME NEW S, NEW q \in Seq(S), NEW n \in DOMAIN q
    PROVE  q[n] \in S
OBVIOUS

\* What receiving the head of a channel leaves in it.
LEMMA HeadTail ==
    ASSUME NEW S, NEW q \in Seq(S), q # <<>>
    PROVE  /\ Head(q) \in S /\ Head(q) = q[1] /\ 1 \in DOMAIN q
           /\ Tail(q) \in Seq(S)
           /\ Len(Tail(q)) = Len(q) - 1
           /\ \A n \in DOMAIN Tail(q) :
                  n \in Nat /\ n + 1 \in DOMAIN q /\ n + 1 # 1 /\ Tail(q)[n] = q[n + 1]
           /\ \A n \in DOMAIN q :
                  n # 1 => n - 1 \in DOMAIN Tail(q) /\ Tail(q)[n - 1] = q[n]
OBVIOUS

\* What sending an element leaves in a channel.
LEMMA AppendSeq ==
    ASSUME NEW S, NEW q \in Seq(S), NEW e \in S
    PROVE  /\ Append(q, e) \in Seq(S)
           /\ Len(Append(q, e)) = Len(q) + 1
           /\ Len(q) + 1 \notin DOMAIN q
           /\ DOMAIN Append(q, e) = DOMAIN q \cup {Len(q) + 1}
           /\ \A n \in DOMAIN q : Append(q, e)[n] = q[n] /\ n < Len(q) + 1
           /\ Append(q, e)[Len(q) + 1] = e
OBVIOUS

\* What taking a batch leaves in the collector.
LEMMA ConcatSeq ==
    ASSUME NEW S, NEW q \in Seq(S), NEW r \in Seq(S)
    PROVE  /\ q \o r \in Seq(S)
           /\ \A n \in DOMAIN q : n \in DOMAIN (q \o r) /\ (q \o r)[n] = q[n]
           /\ \A n \in DOMAIN r :
                  n + Len(q) \in DOMAIN (q \o r) /\ (q \o r)[n + Len(q)] = r[n]
           /\ \A n \in DOMAIN (q \o r) :
                  \/ n \in DOMAIN q
                  \/ n \notin DOMAIN q /\ n > Len(q) /\ n - Len(q) \in DOMAIN r
OBVIOUS

-----------------------------------------------------------------------------
(* The groups of a batch.                                                  *)

\* The rank of a position among a set of positions grows with the position.
LEMMA RankMonotonic ==
    ASSUME NEW P \in SUBSET Nat, IsFiniteSet(P), NEW a \in P, NEW b \in P, a < b
    PROVE  /\ Cardinality({q \in P : q <= a}) \in Nat
           /\ Cardinality({q \in P : q <= b}) \in Nat
           /\ Cardinality({q \in P : q <= a}) < Cardinality({q \in P : q <= b})
<1> DEFINE A == {q \in P : q <= a}
           B == {q \in P : q <= b}
<1>1. A \in SUBSET B /\ b \in B /\ b \notin A /\ B \in SUBSET P
    <2>1. a \in Nat /\ b \in Nat /\ \A q \in P : q \in Nat
        OBVIOUS
    <2>2. \A q \in P : q <= a => q <= b
        BY <2>1
    <2>3. b <= b /\ ~(b <= a)
        BY <2>1
    <2> QED
        BY <2>2, <2>3
<1> HIDE DEF A, B
<1>2. IsFiniteSet(B) /\ IsFiniteSet(A)
    BY <1>1, FS_Subset
<1>3. Cardinality(A) \in Nat /\ Cardinality(B) \in Nat
    BY <1>2, FS_CardinalityType
<1>4. Cardinality(A) <= Cardinality(B) /\ Cardinality(B) # Cardinality(A)
    BY <1>1, <1>2, FS_Subset
<1> QED
    BY <1>3, <1>4 DEF A, B

\* Every rank up to the number of positions is the rank of one of them.
LEMMA RankSurjective ==
    ASSUME NEW P \in SUBSET Nat, IsFiniteSet(P), NEW k \in 1 .. Cardinality(P)
    PROVE  \E n \in P : Cardinality({q \in P : q <= n}) = k
<1> DEFINE Rank == [n \in P |-> Cardinality({q \in P : q <= n})]
           T == 1 .. Cardinality(P)
<1>1. Cardinality(P) \in Nat
    BY FS_CardinalityType
<1>2. ASSUME NEW n \in P
      PROVE  Rank[n] \in T
    <2> DEFINE A == {q \in P : q <= n}
    <2>1. A \in SUBSET P /\ n \in A
        OBVIOUS
    <2> HIDE DEF A
    <2>2. IsFiniteSet(A) /\ Cardinality(A) <= Cardinality(P) /\ Cardinality(A) \in Nat
        BY <2>1, FS_Subset, FS_CardinalityType
    <2>3. Cardinality(A) # 0
        BY <2>1, <2>2, FS_EmptySet
    <2> QED
        BY <1>1, <2>2, <2>3 DEF A
<1>3. ASSUME NEW a \in P, NEW b \in P, a # b
      PROVE  Rank[a] # Rank[b]
    <2>1. CASE a < b
        BY <2>1, RankMonotonic
    <2>2. CASE b < a
        BY <2>2, RankMonotonic
    <2> QED
        BY <1>3, <2>1, <2>2
<1>4. Rank \in Injection(P, T)
    BY <1>2, <1>3 DEF Injection, IsInjective
<1>5. IsFiniteSet(T) /\ Cardinality(T) = Cardinality(P)
    BY <1>1, FS_Interval
<1> HIDE DEF Rank, T
<1>6. Rank \in Surjection(P, T)
    BY <1>4, <1>5, FS_Injection
<1>7. \E n \in P : Rank[n] = k
    BY <1>6 DEF Surjection, T
<1> QED
    BY <1>7 DEF Rank

\* ReportClient.group keeps the order: the k-th metric of a group comes from a
\* position of the batch that grows with k, and every metric of the group is
\* among them.
LEMMA NamedPositions ==
    ASSUME NEW in \in Seq(Metric), NEW g
    PROVE  /\ named(in, g) \in Seq(Metric)
           /\ \E p \in [DOMAIN named(in, g) -> DOMAIN in] :
                 /\ \A k \in DOMAIN named(in, g) :
                        named(in, g)[k] = in[p[k]] /\ GroupOf(in[p[k]]) = g
                 /\ \A k, l \in DOMAIN named(in, g) : k < l => p[k] < p[l]
                 /\ \A n \in DOMAIN in :
                        GroupOf(in[n]) = g => \E k \in DOMAIN named(in, g) : p[k] = n
<1> DEFINE P == {n \in DOMAIN in : GroupOf(in[n]) = g}
           Rank(n) == Cardinality({q \in P : q <= n})
           Pos(k) == CHOOSE n \in P : Rank(n) = k
           D1 == 1 .. Cardinality(P)
<1>1. P \in SUBSET Nat /\ P \subseteq 1 .. Len(in) /\ Len(in) \in Nat
    OBVIOUS
<1>2. IsFiniteSet(P)
    BY <1>1, FS_Interval, FS_Subset
<1>3. Cardinality(P) \in Nat
    BY <1>2, FS_CardinalityType
<1>4. named(in, g) = [k \in D1 |-> in[Pos(k)]]
    BY DEF named
<1> HIDE DEF P
<1>5. ASSUME NEW k \in D1
      PROVE  Pos(k) \in P /\ Rank(Pos(k)) = k
    BY <1>1, <1>2, RankSurjective
<1>m. ASSUME NEW a \in P, NEW b \in P, a < b
      PROVE  Rank(a) \in Nat /\ Rank(b) \in Nat /\ Rank(a) < Rank(b)
    BY <1>1, <1>2, <1>m, RankMonotonic
<1>6. \A n \in P : n \in DOMAIN in /\ in[n] \in Metric /\ GroupOf(in[n]) = g
    BY DEF P
<1>7. ASSUME NEW k \in D1, NEW l \in D1, k < l
      PROVE  Pos(k) < Pos(l)
    <2>1. Pos(k) \in P /\ Pos(l) \in P /\ Rank(Pos(k)) = k /\ Rank(Pos(l)) = l
        BY <1>5
    <2> HIDE DEF Pos, Rank
    <2>2. CASE Pos(l) < Pos(k)
        BY <1>m, <2>1, <2>2, <1>7
    <2>3. CASE Pos(l) = Pos(k)
        BY <2>1, <2>3, <1>7
    <2>4. Pos(k) \in Nat /\ Pos(l) \in Nat
        BY <1>1, <2>1
    <2> QED
        BY <2>2, <2>3, <2>4
<1>8. ASSUME NEW n \in P
      PROVE  Rank(n) \in D1 /\ Pos(Rank(n)) = n
    <2> DEFINE A == {q \in P : q <= n}
    <2>1. A \in SUBSET P /\ n \in A
        BY <1>1
    <2>2. IsFiniteSet(A) /\ Cardinality(A) <= Cardinality(P) /\ Cardinality(A) \in Nat
        <3> HIDE DEF A
        <3> QED BY <1>2, <2>1, FS_Subset, FS_CardinalityType
    <2>3. Cardinality(A) # 0
        <3> HIDE DEF A
        <3> QED BY <2>1, <2>2, FS_EmptySet
    <2>4. Rank(n) \in D1
        BY <1>3, <2>2, <2>3
    <2>5. Pos(Rank(n)) \in P /\ Rank(Pos(Rank(n))) = Rank(n)
        BY <2>4, <1>5
    <2>6. Pos(Rank(n)) = n
        <3> DEFINE c == Pos(Rank(n))
        <3>1. c \in P /\ Rank(c) = Rank(n)
            BY <2>5
        <3> HIDE DEF c, Rank
        <3>2. c < n => FALSE
            BY <1>m, <3>1
        <3>3. n < c => FALSE
            BY <1>m, <3>1
        <3>4. c = n
            BY <1>1, <3>1, <3>2, <3>3
        <3> QED BY <3>4 DEF c
    <2> QED
        BY <2>4, <2>6
<1> DEFINE p == [k \in D1 |-> Pos(k)]
<1> HIDE DEF Rank, Pos
<1>9. named(in, g) \in Seq(Metric) /\ DOMAIN named(in, g) = D1
    BY <1>3, <1>4, <1>5, <1>6
<1>10. p \in [D1 -> DOMAIN in]
    BY <1>5, <1>6
<1>11. \A k \in D1 : named(in, g)[k] = in[p[k]] /\ GroupOf(in[p[k]]) = g
    BY <1>4, <1>5, <1>6
<1>12. \A k, l \in D1 : k < l => p[k] < p[l]
    BY <1>7
<1>13. \A n \in DOMAIN in : GroupOf(in[n]) = g => \E k \in D1 : p[k] = n
    <2>1. \A n \in DOMAIN in : GroupOf(in[n]) = g => n \in P
        BY DEF P
    <2> QED
        BY <1>8, <2>1
<1> HIDE DEF p, D1
<1> QED
    BY <1>9, <1>10, <1>11, <1>12, <1>13

\* A batch has three groups.
LEMMA GroupsOfBatch ==
    ASSUME NEW in \in Seq(Metric)
    PROVE  /\ group(in) \in Seq(Seq(Metric)) /\ Len(group(in)) = 3
           /\ DOMAIN group(in) = 1 .. 3
           /\ group(in)[1] = named(in, "metrics")
           /\ group(in)[2] = named(in, "trace")
           /\ group(in)[3] = named(in, "error")
BY NamedPositions DEF group

\* What GroupOf calls the g-th group of a batch.
Kind(g) == IF g = 1 THEN "metrics" ELSE IF g = 2 THEN "trace" ELSE "error"

\* The metrics of a group of the batch: they go to that group, they come from
\* the batch, in its order, and none that goes to a group is left out.
LEMMA GroupMembers ==
    ASSUME NEW in \in Seq(Metric), NEW g \in 1 .. 3
    PROVE  /\ \A a \in DOMAIN group(in)[g] :
                 \E n \in DOMAIN in :
                     group(in)[g][a] = in[n] /\ GroupOf(in[n]) = Kind(g)
           /\ \A a, b \in DOMAIN group(in)[g] : a < b =>
                 \E n, l \in DOMAIN in :
                     n < l /\ group(in)[g][a] = in[n] /\ group(in)[g][b] = in[l]
           /\ \A n \in DOMAIN in : GroupOf(in[n]) = Kind(g) =>
                 \E a \in DOMAIN group(in)[g] : group(in)[g][a] = in[n]
<1> DEFINE G == named(in, Kind(g))
<1>1. group(in)[g] = G
    <2>1. /\ group(in)[1] = named(in, "metrics") /\ group(in)[2] = named(in, "trace")
          /\ group(in)[3] = named(in, "error")
        BY GroupsOfBatch
    <2>2. g = 1 \/ g = 2 \/ g = 3
        OBVIOUS
    <2> QED
        BY <2>1, <2>2 DEF Kind
<1>2. PICK p \in [DOMAIN G -> DOMAIN in] :
        /\ \A k \in DOMAIN G : G[k] = in[p[k]] /\ GroupOf(in[p[k]]) = Kind(g)
        /\ \A k, l \in DOMAIN G : k < l => p[k] < p[l]
        /\ \A n \in DOMAIN in :
               GroupOf(in[n]) = Kind(g) => \E k \in DOMAIN G : p[k] = n
    BY NamedPositions
<1> HIDE DEF G
<1>3. \A a \in DOMAIN G : p[a] \in DOMAIN in
    OBVIOUS
<1>4. \A a \in DOMAIN G : \E n \in DOMAIN in : G[a] = in[n] /\ GroupOf(in[n]) = Kind(g)
    BY <1>2, <1>3
<1>5. \A a, b \in DOMAIN G : a < b =>
          \E n, l \in DOMAIN in : n < l /\ G[a] = in[n] /\ G[b] = in[l]
    BY <1>2, <1>3
<1>6. \A n \in DOMAIN in : GroupOf(in[n]) = Kind(g) => \E a \in DOMAIN G : G[a] = in[n]
    BY <1>2
<1> QED
    BY <1>1, <1>4, <1>5, <1>6

\* The groups of a batch without repetitions have none and are disjoint, and
\* only metrics that go to no group are in none.
LEMMA GroupsApart ==
    ASSUME NEW in \in Seq(Metric), Distinct(in)
    PROVE  /\ \A g \in 1 .. 3 : Distinct(group(in)[g])
           /\ \A g, h \in 1 .. 3 : g # h => Apart(group(in)[g], group(in)[h])
           /\ \A g \in 1 .. 3 : \A a \in DOMAIN group(in)[g] :
                 \E n \in DOMAIN in : group(in)[g][a] = in[n] /\ GroupOf(in[n]) # "none"
           /\ \A n \in DOMAIN in : GroupOf(in[n]) # "none" =>
                 \E g \in 1 .. 3 : in[n] \in Elements(group(in)[g])
<1>0. \A g \in 1 .. 3 : group(in)[g] \in Seq(Metric)
    <2>1. group(in) \in Seq(Seq(Metric)) /\ DOMAIN group(in) = 1 .. 3
        BY GroupsOfBatch
    <2> QED
        BY <2>1, ElementOf
<1>1. ASSUME NEW g \in 1 .. 3
      PROVE  Distinct(group(in)[g])
    <2> DEFINE G == group(in)[g]
    <2>0. G \in Seq(Metric)
        BY <1>0
    <2>1. \A a, b \in DOMAIN G : a < b =>
                 \E n, l \in DOMAIN in : n < l /\ G[a] = in[n] /\ G[b] = in[l]
        BY GroupMembers
    <2> HIDE DEF G
    <2>2. ASSUME NEW a \in DOMAIN G, NEW b \in DOMAIN G, a < b
          PROVE  G[a] # G[b]
        <3>1. PICK n \in DOMAIN in, l \in DOMAIN in : n < l /\ G[a] = in[n] /\ G[b] = in[l]
            BY <2>1, <2>2
        <3>2. n # l
            BY <3>1
        <3> QED BY <3>1, <3>2 DEF Distinct
    <2>3. \A a, b \in DOMAIN G : a < b \/ b < a \/ a = b
        BY <2>0
    <2>4. Distinct(G)
        BY <2>2, <2>3 DEF Distinct
    <2> QED
        BY <2>4 DEF G
<1>2. ASSUME NEW g \in 1 .. 3, NEW h \in 1 .. 3, g # h
      PROVE  Apart(group(in)[g], group(in)[h])
    <2>1. Kind(g) # Kind(h)
        BY <1>2 DEF Kind
    <2>2. \A a \in DOMAIN group(in)[g] : GroupOf(group(in)[g][a]) = Kind(g)
        BY GroupMembers
    <2>3. \A a \in DOMAIN group(in)[h] : GroupOf(group(in)[h][a]) = Kind(h)
        BY GroupMembers
    <2> QED
        BY <2>1, <2>2, <2>3 DEF Apart
<1>3. ASSUME NEW g \in 1 .. 3, NEW a \in DOMAIN group(in)[g]
      PROVE  \E n \in DOMAIN in : group(in)[g][a] = in[n] /\ GroupOf(in[n]) # "none"
    <2>1. Kind(g) # "none"
        BY DEF Kind
    <2> QED
        BY <2>1, GroupMembers
<1>4. ASSUME NEW n \in DOMAIN in, GroupOf(in[n]) # "none"
      PROVE  \E g \in 1 .. 3 : in[n] \in Elements(group(in)[g])
    <2>1. PICK g \in 1 .. 3 : GroupOf(in[n]) = Kind(g)
        <3>1. GroupOf(in[n]) \in {"none", "trace", "error", "metrics"}
            BY DEF GroupOf
        <3> QED BY <1>4, <3>1 DEF Kind
    <2>2. \E a \in DOMAIN group(in)[g] : group(in)[g][a] = in[n]
        BY <2>1, GroupMembers
    <2> QED
        BY <2>2 DEF Elements
<1> QED
    BY <1>1, <1>2, <1>3, <1>4

-----------------------------------------------------------------------------
(* Type correctness.                                                       *)

\* The initial state is well typed.
LEMMA InitTypeOK == Init => TypeOK
BY ReporterAssumption DEF Init, TypeOK, Fates

\* A settled metric has one of the fates.
LEMMA SettleType ==
    ASSUME fate \in [Metric -> Fates], NEW S, NEW f \in Fates
    PROVE  Settle(S, f) \in [Metric -> Fates]
BY DEF Settle

\* Every step keeps the state well typed.
LEMMA StepTypeOK == TypeOK /\ RunState /\ Posting /\ [Next]_vars => TypeOK'
<1> SUFFICES ASSUME TypeOK, RunState, Posting, [Next]_vars PROVE TypeOK'
    OBVIOUS
<1> USE ReporterAssumption
<1>1. ASSUME NEW m \in Metric, Produce(m) PROVE TypeOK'
    <2>1. fate' \in [Metric -> Fates]
        BY <1>1, SettleType DEF Produce, TypeOK, Fates
    <2>2. /\ ch' \in Seq(Metric) /\ Len(ch') <= ChCap
          /\ sent' \in Seq(Metric)
        BY <1>1, AppendSeq DEF Produce, TypeOK
    <2> QED
        BY <1>1, <2>1, <2>2 DEF Produce, TypeOK
<1>2. CASE Receive
    <2>0. /\ ch \in Seq(Metric) /\ metrics \in Seq(Metric) /\ ch # <<>> /\ ch' = Tail(ch)
          /\ Len(ch) <= ChCap
          /\ metrics' = metrics \/ metrics' = Append(metrics, Head(ch))
        BY <1>2 DEF Receive, TypeOK
    <2>a. Head(ch) \in Metric /\ Tail(ch) \in Seq(Metric)
        BY <2>0, HeadTail
    <2>b. Len(Tail(ch)) = Len(ch) - 1 /\ Len(ch) \in Nat
        BY <2>0
    <2>c. Append(metrics, Head(ch)) \in Seq(Metric)
        BY <2>0, <2>a, AppendSeq
    <2>d. metrics' \in Seq(Metric)
        BY <2>0, <2>c
    <2>e. Len(ch') <= ChCap
        BY <2>0, <2>b
    <2>1. /\ ch' \in Seq(Metric) /\ Len(ch') <= ChCap
          /\ metrics' \in Seq(Metric)
        BY <2>0, <2>a, <2>d, <2>e
    <2>2. fate' \in [Metric -> Fates]
        BY <1>2, SettleType DEF Receive, TypeOK, Fates
    <2> QED
        BY <1>2, <2>1, <2>2 DEF Receive, TypeOK
<1>3. CASE Tick
    <2>1. fate' \in [Metric -> Fates]
        BY <1>3, SettleType DEF Tick, TypeOK, Fates
    <2>2. groups' \in Seq(Seq(Metric)) /\ Len(groups') <= 3
        <3>1. metrics \in Seq(Metric) /\ groups' = group(metrics)
            BY <1>3 DEF Tick, TypeOK
        <3>2. group(metrics) \in Seq(Seq(Metric)) /\ Len(group(metrics)) = 3
            BY <3>1, GroupsOfBatch
        <3> QED BY <3>1, <3>2
    <2> QED
        BY <1>3, <2>1, <2>2 DEF Tick, TypeOK
<1>4. CASE Finish
    <2>1. logged' \subseteq Metric
        BY <1>4 DEF Finish, TypeOK, Elements
    <2> QED
        BY <1>4, <2>1 DEF Finish, TypeOK, MetricsAfterSend
<1> DEFINE rest == Tail(groups)
<1>a. groups # <<>> => rest \in Seq(Seq(Metric)) /\ Len(rest) <= 3 /\ Head(groups) \in Seq(Metric)
    BY HeadTail DEF TypeOK
<1>5. CASE SkipEmpty
    BY <1>5, <1>a DEF SkipEmpty, TypeOK
<1>6. CASE Serialize
    <2>1. fate' \in [Metric -> Fates]
        BY <1>6, SettleType DEF Serialize, TypeOK, Fates
    <2>2. groups' \in Seq(Seq(Metric)) /\ Len(groups') <= 3
        BY <1>6, <1>a DEF Serialize, TypeOK
    <2>3. pc' \in {"select", "send", "write"} /\ body' \in {"open", "closed"}
          /\ attempt' \in 0 .. Retry
        BY <1>6 DEF Serialize, TypeOK
    <2> QED
        BY <1>6, <2>1, <2>2, <2>3 DEF Serialize, TypeOK
<1>7. CASE WriteBegins
    BY <1>7 DEF WriteBegins, TypeOK
<1>10. CASE CollectorTakes
    <2>1. fate' \in [Metric -> Fates]
        BY <1>10, SettleType DEF CollectorTakes, TypeOK, Fates
    <2>2. groups # <<>>
        BY <1>10 DEF CollectorTakes, RunState, Posting
    <2>3. received' \in Seq(Metric)
        BY <1>10, <1>a, <2>2, ConcatSeq DEF CollectorTakes, TypeOK
    <2> QED
        BY <1>10, <2>1, <2>3 DEF CollectorTakes, TypeOK, BodyAfterWrite
<1>11. ASSUME NEW ok \in BOOLEAN, WriteReturns(ok) PROVE TypeOK'
    <2>1. groups # <<>> /\ attempt < Retry
        BY <1>11 DEF WriteReturns, RunState, Posting
    <2>2. groups' \in Seq(Seq(Metric)) /\ Len(groups') <= 3
        BY <1>11, <1>a, <2>1 DEF WriteReturns, TypeOK
    <2>3. attempt' \in 0 .. Retry
        BY <1>11, <2>1 DEF WriteReturns, TypeOK, NextAttempt
    <2> QED
        BY <1>11, <2>2, <2>3 DEF WriteReturns, TypeOK, BodyAfterWrite
<1>8. CASE GiveUp
    <2>1. fate' \in [Metric -> Fates]
        BY <1>8, SettleType DEF GiveUp, TypeOK, Fates
    <2>2. groups' \in Seq(Seq(Metric)) /\ Len(groups') <= 3
        BY <1>8, <1>a DEF GiveUp, TypeOK, RunState
    <2> QED
        BY <1>8, <2>1, <2>2 DEF GiveUp, TypeOK
<1>9. CASE UNCHANGED vars
    BY <1>9 DEF vars, TypeOK
<1> QED
    BY <1>1, <1>2, <1>3, <1>4, <1>5, <1>6, <1>7, <1>8, <1>9, <1>10, <1>11 DEF Next

-----------------------------------------------------------------------------
(* The inductive invariant of the places.                                  *)

Places == RunState /\ HeldPending /\ OnePlace /\ PendingHeld /\ TakenSettled

\* The initial state satisfies it.
LEMMA InitSafe == Init => SafeInv
<1> SUFFICES ASSUME Init PROVE SafeInv
    OBVIOUS
<1>1. TypeOK
    BY InitTypeOK
<1>2. Places
    BY DEF Init, Places, RunState, HeldPending, OnePlace, PendingHeld, TakenSettled,
           AllPending, Distinct, Apart, Elements
<1>3. Posting
    BY DEF Init, Posting
<1> QED
    BY <1>1, <1>2, <1>3 DEF SafeInv, Places

\* The elements of every holder are metrics.
LEMMA Held ==
    ASSUME TypeOK
    PROVE  /\ \A a \in DOMAIN ch : ch[a] \in Metric
           /\ \A a \in DOMAIN metrics : metrics[a] \in Metric
           /\ \A a \in DOMAIN received : received[a] \in Metric
           /\ \A g \in DOMAIN groups : groups[g] \in Seq(Metric)
           /\ \A g \in DOMAIN groups : \A a \in DOMAIN groups[g] : groups[g][a] \in Metric
BY ElementOf DEF TypeOK

\* A plugin sends a metric: it is in no other place.
LEMMA ProduceSafe ==
    ASSUME SafeInv, NEW m \in Metric, Produce(m)
    PROVE  Places'
<1> USE DEF SafeInv
<1>0. ch \in Seq(Metric) /\ fate \in [Metric -> Fates]
    BY DEF TypeOK
<1>1. \A x \in Metric : fate'[x] = IF x = m THEN "pending" ELSE fate[x]
    BY DEF Produce, Settle
<1>2. /\ fate[m] = "none" /\ ch' = Append(ch, m) /\ UNCHANGED <<metrics, pc, groups, body, received>>
    BY DEF Produce
<1>3. /\ DOMAIN ch' = DOMAIN ch \cup {Len(ch) + 1} /\ Len(ch) + 1 \notin DOMAIN ch
      /\ \A n \in DOMAIN ch : ch'[n] = ch[n]
      /\ ch'[Len(ch) + 1] = m
    BY <1>0, <1>2, AppendSeq
<1>4. /\ \A a \in DOMAIN ch : ch[a] # m
      /\ pc = "select" => \A a \in DOMAIN metrics : metrics[a] # m
      /\ \A a \in DOMAIN received : received[a] # m
      /\ \A g \in DOMAIN groups : \A a \in DOMAIN groups[g] : groups[g][a] # m
    BY <1>2 DEF HeldPending, AllPending, TakenSettled
<1> HIDE DEF SafeInv
<1>5. TypeOK /\ RunState /\ HeldPending /\ OnePlace /\ PendingHeld /\ TakenSettled
    BY DEF SafeInv
<1>6. RunState'
    BY <1>2, <1>5 DEF RunState
<1>7. HeldPending'
    BY <1>1, <1>2, <1>3, <1>4, <1>5, Held DEF HeldPending, AllPending
<1>8. OnePlace'
    BY <1>2, <1>3, <1>4, <1>5 DEF OnePlace, Distinct, Apart
<1>9. PendingHeld'
    <2> SUFFICES ASSUME NEW x \in Metric, fate'[x] = "pending"
                 PROVE  \/ x \in Elements(ch')
                        \/ pc' = "select" /\ x \in Elements(metrics')
                        \/ \E g \in DOMAIN groups' : x \in Elements(groups'[g])
        BY DEF PendingHeld, Elements
    <2>1. CASE x = m
        BY <2>1, <1>3 DEF Elements
    <2>2. CASE x # m
        BY <2>2, <1>1, <1>2, <1>3, <1>5 DEF PendingHeld, Elements
    <2> QED
        BY <2>1, <2>2
<1>10. TakenSettled'
    BY <1>1, <1>2, <1>4, <1>5, Held DEF TakenSettled, Distinct
<1> QED
    BY <1>6, <1>7, <1>8, <1>9, <1>10 DEF Places

\* Run moves a metric from the channel to its buffer.
LEMMA KeepSafe ==
    ASSUME SafeInv, Receive, name[Head(ch)] # "nil"
    PROVE  Places'
<1>0. TypeOK /\ RunState /\ HeldPending /\ OnePlace /\ PendingHeld /\ TakenSettled
    BY DEF SafeInv
<1>1. ch \in Seq(Metric) /\ metrics \in Seq(Metric)
    BY <1>0 DEF TypeOK
<1>2. /\ pc = "select" /\ ch # <<>> /\ ch' = Tail(ch) /\ metrics' = Append(metrics, Head(ch))
      /\ UNCHANGED <<pc, groups, body, received, fate>>
    BY DEF Receive
<1>3. /\ Head(ch) \in Metric /\ Head(ch) = ch[1] /\ 1 \in DOMAIN ch
      /\ \A n \in DOMAIN ch' : n \in Nat /\ n + 1 \in DOMAIN ch /\ n + 1 # 1 /\ ch'[n] = ch[n + 1]
      /\ \A n \in DOMAIN ch : n # 1 => n - 1 \in DOMAIN ch' /\ ch'[n - 1] = ch[n]
    BY <1>1, <1>2, HeadTail
<1>4. /\ DOMAIN metrics' = DOMAIN metrics \cup {Len(metrics) + 1}
      /\ Len(metrics) + 1 \notin DOMAIN metrics
      /\ \A n \in DOMAIN metrics : metrics'[n] = metrics[n]
      /\ metrics'[Len(metrics) + 1] = ch[1]
    BY <1>1, <1>2, <1>3, AppendSeq
<1>5. RunState' /\ TakenSettled'
    BY <1>0, <1>2 DEF RunState, TakenSettled, Distinct
<1>6. HeldPending'
    BY <1>0, <1>2, <1>3, <1>4 DEF HeldPending, AllPending
<1>7. OnePlace'
    <2>1. Distinct(ch')
        <3> SUFFICES ASSUME NEW a \in DOMAIN ch', NEW b \in DOMAIN ch', ch'[a] = ch'[b]
                     PROVE  a = b
            BY DEF Distinct
        <3>1. a + 1 = b + 1
            BY <1>0, <1>3 DEF OnePlace, Distinct
        <3> QED BY <1>3, <3>1
    <2>2. Distinct(metrics') /\ Apart(ch', metrics')
        BY <1>0, <1>2, <1>3, <1>4 DEF OnePlace, Distinct, Apart
    <2> QED
        BY <1>0, <1>2, <1>3, <2>1, <2>2 DEF OnePlace, Distinct, Apart, RunState
<1>8. PendingHeld'
    <2>1. Elements(ch) \subseteq Elements(ch') \cup Elements(metrics')
        BY <1>3, <1>4 DEF Elements
    <2>2. Elements(metrics) \subseteq Elements(metrics')
        BY <1>4 DEF Elements
    <2> SUFFICES ASSUME NEW x \in Metric, fate'[x] = "pending"
                 PROVE  x \in Elements(ch') \/ x \in Elements(metrics')
        BY <1>2 DEF PendingHeld, Elements
    <2>3. x \in Elements(ch) \/ x \in Elements(metrics)
        BY <1>0, <1>2 DEF PendingHeld, RunState
    <2> QED
        BY <2>1, <2>2, <2>3
<1> QED
    BY <1>5, <1>6, <1>7, <1>8 DEF Places

\* Run throws a nil metric away.
LEMMA NilSafe ==
    ASSUME SafeInv, Receive, name[Head(ch)] = "nil"
    PROVE  Places'
<1>0. TypeOK /\ RunState /\ HeldPending /\ OnePlace /\ PendingHeld /\ TakenSettled
    BY DEF SafeInv
<1>1. ch \in Seq(Metric) /\ metrics \in Seq(Metric)
    BY <1>0 DEF TypeOK
<1>2. /\ pc = "select" /\ ch # <<>> /\ ch' = Tail(ch)
      /\ fate' = Settle({Head(ch)}, "ignored")
      /\ UNCHANGED <<pc, metrics, groups, body, received>>
    BY DEF Receive
<1>3. /\ Head(ch) \in Metric /\ Head(ch) = ch[1] /\ 1 \in DOMAIN ch
      /\ \A n \in DOMAIN ch' : n \in Nat /\ n + 1 \in DOMAIN ch /\ n + 1 # 1 /\ ch'[n] = ch[n + 1]
      /\ \A n \in DOMAIN ch : n # 1 => n - 1 \in DOMAIN ch' /\ ch'[n - 1] = ch[n]
    BY <1>1, <1>2, HeadTail
<1>4. \A x \in Metric : fate'[x] = IF x = ch[1] THEN "ignored" ELSE fate[x]
    BY <1>2, <1>3 DEF Settle
<1>5. RunState' /\ groups = <<>>
    BY <1>0, <1>2 DEF RunState
<1>6. /\ \A a \in DOMAIN ch' : ch'[a] # ch[1] /\ ch'[a] \in Metric /\ fate[ch'[a]] = "pending"
      /\ \A a \in DOMAIN metrics :
             metrics[a] # ch[1] /\ metrics[a] \in Metric /\ fate[metrics[a]] = "pending"
    BY <1>0, <1>2, <1>3, Held DEF OnePlace, Distinct, Apart, HeldPending, AllPending
<1>7. HeldPending'
    <2>1. AllPending(ch)' /\ AllPending(metrics)'
        BY <1>2, <1>4, <1>6 DEF AllPending
    <2>2. groups' = <<>>
        BY <1>2, <1>5
    <2> QED
        BY <2>1, <2>2 DEF HeldPending
<1>8. OnePlace'
    <2>1. Distinct(ch')
        <3> SUFFICES ASSUME NEW a \in DOMAIN ch', NEW b \in DOMAIN ch', ch'[a] = ch'[b]
                     PROVE  a = b
            BY DEF Distinct
        <3>1. a + 1 = b + 1
            BY <1>0, <1>3 DEF OnePlace, Distinct
        <3> QED BY <1>3, <3>1
    <2>2. Apart(ch', metrics)
        BY <1>0, <1>2, <1>3 DEF OnePlace, Apart
    <2> QED
        BY <1>0, <1>2, <1>5, <2>1, <2>2 DEF OnePlace, Distinct, Apart
<1>9. PendingHeld'
    <2> SUFFICES ASSUME NEW x \in Metric, fate'[x] = "pending"
                 PROVE  x \in Elements(ch') \/ x \in Elements(metrics)
        BY <1>2 DEF PendingHeld, Elements
    <2>1. x # ch[1] /\ fate[x] = "pending"
        BY <1>4
    <2>2. x \in Elements(ch) \/ x \in Elements(metrics)
        BY <1>0, <1>5, <2>1 DEF PendingHeld
    <2> QED
        BY <1>3, <2>1, <2>2 DEF Elements
<1>10. TakenSettled'
    <2>1. \A a \in DOMAIN received : received[a] \in Metric /\ fate[received[a]] = "delivered"
        BY <1>0, Held DEF TakenSettled
    <2>2. fate[ch[1]] = "pending"
        BY <1>0, <1>3 DEF HeldPending, AllPending
    <2> QED
        BY <1>0, <1>2, <1>4, <2>1, <2>2 DEF TakenSettled, Distinct
<1> QED
    BY <1>5, <1>7, <1>8, <1>9, <1>10 DEF Places

\* Send begins: the batch is split among the groups.
LEMMA TickSafe ==
    ASSUME SafeInv, Tick
    PROVE  Places'
<1>0. TypeOK /\ RunState /\ HeldPending /\ OnePlace /\ PendingHeld /\ TakenSettled
    BY DEF SafeInv
<1>1. metrics \in Seq(Metric) /\ Distinct(metrics) /\ AllPending(metrics)
    BY <1>0 DEF TypeOK, OnePlace, HeldPending, Tick
<1>2. /\ pc = "select" /\ pc' = "send" /\ groups' = group(metrics)
      /\ UNCHANGED <<ch, body, received>>
    BY DEF Tick
<1>3. \A x \in Metric : fate'[x] =
          IF x \in Elements(metrics) /\ GroupOf(x) = "none" THEN "ignored" ELSE fate[x]
    BY DEF Tick, Settle
<1>4. DOMAIN groups' = 1 .. 3
    <2>1. DOMAIN group(metrics) = 1 .. 3
        BY <1>1, GroupsOfBatch
    <2> QED BY <1>2, <2>1
<1> DEFINE G == group(metrics)
<1>5. /\ \A g \in 1 .. 3 : Distinct(G[g])
      /\ \A g, h \in 1 .. 3 : g # h => Apart(G[g], G[h])
      /\ \A g \in 1 .. 3 : \A a \in DOMAIN G[g] :
             \E n \in DOMAIN metrics : G[g][a] = metrics[n] /\ GroupOf(metrics[n]) # "none"
      /\ \A n \in DOMAIN metrics : GroupOf(metrics[n]) # "none" =>
             \E g \in 1 .. 3 : metrics[n] \in Elements(G[g])
    BY <1>1, GroupsApart
<1> HIDE DEF G
<1>6. groups' = G
    BY <1>2 DEF G
<1>7. \A a \in DOMAIN ch : fate'[ch[a]] = "pending"
    <2> SUFFICES ASSUME NEW a \in DOMAIN ch
                 PROVE  fate'[ch[a]] = "pending"
        OBVIOUS
    <2>1. ch[a] \in Metric /\ fate[ch[a]] = "pending"
        BY <1>0, Held DEF HeldPending, AllPending
    <2>2. ch[a] \notin Elements(metrics)
        BY <1>0, <1>2 DEF OnePlace, Apart, Elements
    <2> QED
        BY <1>3, <2>1, <2>2
<1>8. \A g \in 1 .. 3 : \A a \in DOMAIN G[g] : fate'[G[g][a]] = "pending"
    <2> SUFFICES ASSUME NEW g \in 1 .. 3, NEW a \in DOMAIN G[g]
                 PROVE  fate'[G[g][a]] = "pending"
        OBVIOUS
    <2>1. PICK n \in DOMAIN metrics : G[g][a] = metrics[n] /\ GroupOf(metrics[n]) # "none"
        BY <1>5
    <2>2. metrics[n] \in Metric /\ fate[metrics[n]] = "pending"
        BY <1>0, <1>1, Held DEF AllPending
    <2> QED
        BY <1>3, <2>1, <2>2
<1>9. RunState'
    BY <1>2 DEF RunState
<1>10. HeldPending'
    BY <1>2, <1>4, <1>6, <1>7, <1>8 DEF HeldPending, AllPending
<1>11. OnePlace'
    <2>1. \A g \in 1 .. 3 : Apart(ch, G[g])
        BY <1>0, <1>2, <1>5 DEF OnePlace, Apart
    <2> QED
        BY <1>0, <1>2, <1>4, <1>5, <1>6, <2>1 DEF OnePlace, Apart, Distinct
<1>12. PendingHeld'
    <2> SUFFICES ASSUME NEW x \in Metric, fate'[x] = "pending"
                 PROVE  x \in Elements(ch) \/ \E g \in 1 .. 3 : x \in Elements(G[g])
        BY <1>2, <1>4, <1>6 DEF PendingHeld, Elements
    <2>1. fate[x] = "pending" /\ (x \in Elements(metrics) => GroupOf(x) # "none")
        BY <1>3
    <2>2. x \in Elements(ch) \/ x \in Elements(metrics)
        BY <1>0, <1>2, <2>1 DEF PendingHeld, RunState
    <2>3. CASE x \in Elements(metrics)
        <3>1. PICK n \in DOMAIN metrics : x = metrics[n]
            BY <2>3 DEF Elements
        <3> QED BY <1>5, <2>1, <2>3, <3>1
    <2> QED
        BY <2>2, <2>3
<1>13. TakenSettled'
    <2>1. \A a \in DOMAIN received : received[a] \in Metric /\ fate[received[a]] = "delivered"
        BY <1>0, Held DEF TakenSettled
    <2>2. \A a \in DOMAIN received : received[a] \notin Elements(metrics)
        BY <1>1, <2>1 DEF AllPending, Elements
    <2>3. \A a \in DOMAIN received : fate'[received[a]] = "delivered"
        BY <1>3, <2>1, <2>2
    <2> QED
        BY <1>0, <1>2, <2>3 DEF TakenSettled, Distinct
<1> QED
    BY <1>9, <1>10, <1>11, <1>12, <1>13 DEF Places

\* What is left of the groups when Send is done with the first.
LEMMA Rest ==
    ASSUME TypeOK, groups # <<>>
    PROVE  /\ Head(groups) = groups[1] /\ 1 \in DOMAIN groups /\ Head(groups) \in Seq(Metric)
           /\ \A g \in DOMAIN Tail(groups) :
                  /\ g \in Nat /\ g + 1 \in DOMAIN groups /\ g + 1 # 1
                  /\ Tail(groups)[g] = groups[g + 1]
           /\ \A g \in DOMAIN groups : g # 1 =>
                  g - 1 \in DOMAIN Tail(groups) /\ Tail(groups)[g - 1] = groups[g]
BY HeadTail DEF TypeOK

\* Send is done with its first group, whose metrics are no longer pending; no
\* other metric changes its fate.
LEMMA DropSafe ==
    ASSUME SafeInv, groups # <<>>, pc \in {"send", "write"},
           pc' = "send", groups' = Tail(groups), ch' = ch,
           \A x \in Metric : x \notin Elements(Head(groups)) => fate'[x] = fate[x],
           \A x \in Elements(Head(groups)) : fate'[x] # "pending"
    PROVE  (RunState /\ HeldPending /\ OnePlace /\ PendingHeld)'
<1>0. TypeOK /\ RunState /\ HeldPending /\ OnePlace /\ PendingHeld /\ TakenSettled
    BY DEF SafeInv
<1>1. /\ Head(groups) = groups[1] /\ 1 \in DOMAIN groups
      /\ \A g \in DOMAIN groups' :
             g \in Nat /\ g + 1 \in DOMAIN groups /\ g + 1 # 1 /\ groups'[g] = groups[g + 1]
      /\ \A g \in DOMAIN groups : g # 1 =>
             g - 1 \in DOMAIN groups' /\ groups'[g - 1] = groups[g]
    BY <1>0, Rest
<1>2. \A a \in DOMAIN ch : fate'[ch[a]] = "pending"
    <2>1. \A a \in DOMAIN ch : ch[a] \notin Elements(groups[1])
        BY <1>0, <1>1 DEF OnePlace, Apart, Elements
    <2> QED
        BY <1>0, <1>1, <2>1, Held DEF HeldPending, AllPending
<1>3. \A g \in DOMAIN groups' : \A a \in DOMAIN groups'[g] : fate'[groups'[g][a]] = "pending"
    <2> SUFFICES ASSUME NEW g \in DOMAIN groups', NEW a \in DOMAIN groups'[g]
                 PROVE  fate'[groups'[g][a]] = "pending"
        OBVIOUS
    <2> DEFINE h == g + 1
    <2>1. h \in DOMAIN groups /\ h # 1 /\ groups'[g] = groups[h]
        BY <1>1
    <2> HIDE DEF h
    <2>2. groups[h][a] \in Metric /\ fate[groups[h][a]] = "pending"
        BY <1>0, <2>1, Held DEF HeldPending, AllPending
    <2>3. groups[h][a] \notin Elements(groups[1])
        BY <1>0, <1>1, <2>1 DEF OnePlace, Apart, Elements
    <2> QED
        BY <1>1, <2>1, <2>2, <2>3
<1>4. RunState'
    BY DEF RunState
<1>5. HeldPending'
    BY <1>2, <1>3 DEF HeldPending, AllPending
<1>6. OnePlace'
    <2>1. ASSUME NEW g \in DOMAIN groups', NEW h \in DOMAIN groups', g # h
          PROVE  g + 1 # h + 1
        BY <1>1, <2>1
    <2>2. \A g, h \in DOMAIN groups' : g # h => Apart(groups'[g], groups'[h])
        BY <1>0, <1>1, <2>1 DEF OnePlace
    <2>3. \A g \in DOMAIN groups' : Distinct(groups'[g]) /\ Apart(ch, groups'[g])
        BY <1>0, <1>1 DEF OnePlace
    <2> QED
        BY <1>0, <2>2, <2>3 DEF OnePlace, Distinct, Apart
<1>7. PendingHeld'
    <2> SUFFICES ASSUME NEW x \in Metric, fate'[x] = "pending"
                 PROVE  x \in Elements(ch) \/ \E g \in DOMAIN groups' : x \in Elements(groups'[g])
        BY DEF PendingHeld, Elements
    <2>1. x \notin Elements(groups[1]) /\ fate[x] = "pending"
        BY <1>1
    <2>2. x \in Elements(ch) \/ \E g \in DOMAIN groups : x \in Elements(groups[g])
        BY <1>0, <2>1 DEF PendingHeld
    <2> QED
        BY <1>1, <2>1, <2>2
<1> QED
    BY <1>4, <1>5, <1>6, <1>7

\* A step that takes nothing and unsettles nothing.
LEMMA NothingTaken ==
    ASSUME SafeInv, received' = received,
           \A x \in Metric : fate[x] = "delivered" => fate'[x] = "delivered"
    PROVE  TakenSettled'
<1>1. \A a \in DOMAIN received : received[a] \in Metric /\ fate[received[a]] = "delivered"
    BY Held DEF SafeInv, TakenSettled
<1> QED
    BY <1>1 DEF SafeInv, TakenSettled, Distinct

\* The metrics of the group that Send is about to serialise, or whose body has
\* not been read, are pending.
LEMMA FirstGroupPending ==
    ASSUME SafeInv, groups # <<>>, pc = "send" \/ body = "open"
    PROVE  \A x \in Elements(Head(groups)) : x \in Metric /\ fate[x] = "pending"
BY Rest, Held DEF SafeInv, HeldPending, AllPending, Elements

\* An empty group is skipped.
LEMMA SkipSafe ==
    ASSUME SafeInv, SkipEmpty
    PROVE  Places'
<1>1. Elements(Head(groups)) = {}
    BY DEF SkipEmpty, Elements
<1>2. (RunState /\ HeldPending /\ OnePlace /\ PendingHeld)'
    BY <1>1, DropSafe DEF SkipEmpty
<1>3. TakenSettled'
    BY NothingTaken DEF SkipEmpty
<1> QED
    BY <1>2, <1>3 DEF Places

\* A group is serialised, or skipped when that fails.
LEMMA SerializeSafe ==
    ASSUME SafeInv, Serialize
    PROVE  Places'
<1>0. groups # <<>> /\ pc = "send" /\ received' = received /\ ch' = ch
    BY DEF Serialize
<1>1. \A x \in Elements(Head(groups)) : x \in Metric /\ fate[x] = "pending"
    BY <1>0, FirstGroupPending
<1>2. CASE /\ pc' = "write" /\ body' = "open" /\ UNCHANGED <<groups, fate>>
    <2>1. TakenSettled'
        BY <1>0, <1>2, NothingTaken
    <2>2. RunState'
        BY <1>0, <1>2 DEF RunState
    <2>3. (HeldPending /\ OnePlace)'
        BY <1>0, <1>2 DEF SafeInv, HeldPending, OnePlace, AllPending, Distinct, Apart
    <2>4. PendingHeld'
        BY <1>0, <1>2 DEF SafeInv, PendingHeld, Elements
    <2> QED
        BY <2>1, <2>2, <2>3, <2>4 DEF Places
<1>3. CASE /\ fate' = Settle(Elements(Head(groups)), "unencodable")
           /\ groups' = Tail(groups) /\ pc' = pc
    <2> DEFINE E == Elements(Head(groups))
    <2>1. \A x \in Metric : fate'[x] = IF x \in E THEN "unencodable" ELSE fate[x]
        BY <1>3 DEF Settle
    <2> HIDE DEF E
    <2>2. /\ \A x \in Metric : x \notin E => fate'[x] = fate[x]
          /\ \A x \in Metric : fate[x] = "delivered" => fate'[x] = "delivered"
          /\ \A x \in E : fate'[x] # "pending"
        BY <1>1, <2>1 DEF E
    <2>3. (RunState /\ HeldPending /\ OnePlace /\ PendingHeld)'
        BY <1>0, <1>3, <2>2, DropSafe DEF E
    <2>4. TakenSettled'
        BY <1>0, <2>2, NothingTaken
    <2> QED
        BY <2>3, <2>4 DEF Places
<1> QED
    BY <1>2, <1>3 DEF Serialize

\* The retry loop ends: what the collector has not taken is lost.
LEMMA GiveUpSafe ==
    ASSUME SafeInv, GiveUp
    PROVE  Places'
<1> DEFINE E == Elements(Head(groups))
<1>0. /\ pc = "write" /\ pc' = "send" /\ groups' = Tail(groups)
      /\ received' = received /\ ch' = ch
    BY DEF GiveUp
<1>1. groups # <<>>
    BY <1>0 DEF SafeInv, RunState
<1>2. \A x \in Metric :
          fate'[x] = IF x \in E /\ fate[x] = "pending" THEN "undelivered" ELSE fate[x]
    BY DEF GiveUp, Settle
<1>3. \A x \in E : x \in Metric
    BY <1>1, Rest, Held DEF SafeInv, Elements
<1> HIDE DEF E
<1>4. /\ \A x \in Metric : x \notin E => fate'[x] = fate[x]
      /\ \A x \in Metric : fate[x] = "delivered" => fate'[x] = "delivered"
      /\ \A x \in E : fate'[x] # "pending"
    BY <1>2, <1>3
<1>5. (RunState /\ HeldPending /\ OnePlace /\ PendingHeld)'
    BY <1>0, <1>1, <1>4, DropSafe DEF E
<1>6. TakenSettled'
    BY <1>0, <1>4, NothingTaken
<1> QED
    BY <1>5, <1>6 DEF Places

\* The whole batch has been posted.
LEMMA FinishSafe ==
    ASSUME SafeInv, Finish
    PROVE  Places'
<1>0. TypeOK /\ RunState /\ HeldPending /\ OnePlace /\ PendingHeld /\ TakenSettled
    BY DEF SafeInv
<1>1. /\ groups = <<>> /\ groups' = <<>> /\ pc = "send" /\ pc' = "select" /\ metrics' = <<>>
      /\ UNCHANGED <<ch, body, received, fate>>
    BY DEF Finish, MetricsAfterSend
<1>2. RunState' /\ TakenSettled'
    BY <1>0, <1>1 DEF RunState, TakenSettled, Distinct
<1>3. HeldPending' /\ OnePlace'
    BY <1>0, <1>1 DEF HeldPending, OnePlace, AllPending, Distinct, Apart
<1>4. PendingHeld'
    BY <1>0, <1>1 DEF PendingHeld, Elements
<1> QED
    BY <1>2, <1>3, <1>4 DEF Places

\* A post returns: with success the group is done, otherwise nothing moves.
LEMMA ReturnSafe ==
    ASSUME SafeInv, NEW ok \in BOOLEAN, WriteReturns(ok)
    PROVE  Places'
<1>0. TypeOK /\ RunState /\ HeldPending /\ OnePlace /\ PendingHeld /\ TakenSettled /\ Posting
    BY DEF SafeInv
<1>1. /\ pc = "write" /\ body' = "closed"
      /\ UNCHANGED <<ch, received, fate>>
      /\ ok => pc' = "send" /\ groups' = Tail(groups) /\ post = "taken"
      /\ ~ok => pc' = pc /\ groups' = groups
    BY <1>0 DEF WriteReturns, BodyAfterWrite, Posting
<1>2. CASE ~ok
    <2>1. RunState' /\ TakenSettled'
        BY <1>0, <1>1, <1>2 DEF RunState, TakenSettled, Distinct
    <2>2. HeldPending'
        BY <1>0, <1>1, <1>2 DEF HeldPending, AllPending
    <2>3. OnePlace'
        BY <1>0, <1>1, <1>2 DEF OnePlace, Distinct, Apart
    <2>4. PendingHeld'
        BY <1>0, <1>1, <1>2 DEF PendingHeld, Elements
    <2> QED
        BY <2>1, <2>2, <2>3, <2>4 DEF Places
<1>3. CASE ok
    <2>1. groups # <<>> /\ \A x \in Elements(Head(groups)) : fate[x] = "delivered"
        BY <1>0, <1>1, <1>3 DEF RunState, Posting
    <2>2. (RunState /\ HeldPending /\ OnePlace /\ PendingHeld)'
        BY <1>1, <1>3, <2>1, DropSafe
    <2>3. TakenSettled'
        BY <1>1, NothingTaken
    <2> QED
        BY <2>2, <2>3 DEF Places
<1> QED
    BY <1>2, <1>3

\* The collector takes the group that is being posted: nobody has taken it.
LEMMA TakeSafe ==
    ASSUME SafeInv, CollectorTakes
    PROVE  Places'
<1> DEFINE batch == Head(groups)
           E == Elements(batch)
<1>0. TypeOK /\ RunState /\ HeldPending /\ OnePlace /\ PendingHeld /\ TakenSettled /\ Posting
    BY DEF SafeInv
<1>1. /\ pc = "write" /\ body = "open" /\ body' = "closed"
      /\ received' = received \o batch
      /\ fate' = Settle(E, "delivered")
      /\ UNCHANGED <<ch, pc, groups>>
    BY <1>0 DEF CollectorTakes, BodyAfterWrite, Posting
<1>2. groups # <<>> /\ batch \in Seq(Metric) /\ batch = groups[1] /\ 1 \in DOMAIN groups
    BY <1>0, <1>1, Rest DEF RunState
<1>11. \A x \in E : x \in Metric /\ fate[x] = "pending"
    BY <1>1, <1>2, FirstGroupPending
<1>12. \A x \in Metric : fate'[x] = IF x \in E THEN "delivered" ELSE fate[x]
    BY <1>1 DEF Settle
<1>13. \A a \in DOMAIN batch : batch[a] \in E
    BY DEF Elements
<1>14. Distinct(batch)
    BY <1>0, <1>2 DEF OnePlace
<1>15. received \in Seq(Metric) /\ Len(received) \in Nat /\ received' = received \o batch
    BY <1>0, <1>1 DEF TypeOK
<1> HIDE DEF E
<1>16. TakenSettled'
    <2>1. /\ \A n \in DOMAIN received : n \in DOMAIN received' /\ received'[n] = received[n]
          /\ \A n \in DOMAIN received' :
                \/ n \in DOMAIN received
                \/ n \notin DOMAIN received /\ n - Len(received) \in DOMAIN batch
          /\ \A n \in DOMAIN batch : received'[n + Len(received)] = batch[n]
        BY <1>2, <1>15, ConcatSeq
    <2>2. \A n \in DOMAIN received' : n \in Nat
        BY <1>2, <1>15
    <2>3. \A n \in DOMAIN received' : n \notin DOMAIN received =>
              /\ n - Len(received) \in DOMAIN batch
              /\ received'[n] = batch[n - Len(received)]
        <3> SUFFICES ASSUME NEW n \in DOMAIN received', n \notin DOMAIN received
                     PROVE  /\ n - Len(received) \in DOMAIN batch
                            /\ received'[n] = batch[n - Len(received)]
            OBVIOUS
        <3>1. n - Len(received) \in DOMAIN batch
            BY <2>1
        <3>2. (n - Len(received)) + Len(received) = n
            BY <1>15, <2>2
        <3> QED BY <2>1, <3>1, <3>2
    <2>4. \A n \in DOMAIN received : received[n] \in Metric /\ received[n] \notin E
                                    /\ fate[received[n]] = "delivered"
        BY <1>0, <1>11, Held DEF TakenSettled
    <2>5. \A n \in DOMAIN received' : fate'[received'[n]] = "delivered"
        BY <1>11, <1>12, <1>13, <2>1, <2>3, <2>4
    <2>6. ASSUME NEW a \in DOMAIN received', NEW b \in DOMAIN received', received'[a] = received'[b]
          PROVE  a = b
        <3>1. CASE a \in DOMAIN received /\ b \in DOMAIN received
            BY <1>0, <2>1, <2>6, <3>1 DEF TakenSettled, Distinct
        <3>2. CASE a \notin DOMAIN received /\ b \notin DOMAIN received
            <4>1. a - Len(received) = b - Len(received)
                BY <1>14, <2>3, <2>6, <3>2 DEF Distinct
            <4> QED BY <1>15, <2>2, <4>1
        <3>3. CASE a \in DOMAIN received /\ b \notin DOMAIN received
            BY <1>13, <2>1, <2>3, <2>4, <2>6, <3>3
        <3>4. CASE a \notin DOMAIN received /\ b \in DOMAIN received
            BY <1>13, <2>1, <2>3, <2>4, <2>6, <3>4
        <3> QED BY <3>1, <3>2, <3>3, <3>4
    <2> QED
        BY <2>5, <2>6 DEF TakenSettled, Distinct
<1>21. RunState'
    BY <1>2, <1>1 DEF RunState
<1>22. HeldPending'
    <2>1. \A a \in DOMAIN ch : ch[a] \notin E /\ fate[ch[a]] = "pending" /\ ch[a] \in Metric
        BY <1>0, <1>2, Held DEF OnePlace, Apart, HeldPending, AllPending, E, Elements
    <2>2. \A a \in DOMAIN batch : fate'[batch[a]] = "delivered"
        BY <1>11, <1>12, <1>13
    <2>3. ASSUME NEW g \in DOMAIN groups, g # 1, NEW a \in DOMAIN groups[g]
          PROVE  fate'[groups[g][a]] = "pending"
        <3>1. groups[g][a] \in Metric /\ fate[groups[g][a]] = "pending"
            BY <1>0, <2>3, Held DEF HeldPending, AllPending
        <3>2. groups[g][a] \notin E
            BY <1>0, <1>2, <2>3 DEF OnePlace, Apart, E, Elements
        <3> QED BY <1>12, <3>1, <3>2
    <2> QED
        BY <1>1, <1>2, <1>12, <2>1, <2>2, <2>3 DEF HeldPending, AllPending
<1>23. OnePlace'
    BY <1>0, <1>1 DEF OnePlace, Distinct, Apart
<1>24. PendingHeld'
    <2>1. \A x \in Metric : fate'[x] = "pending" => fate[x] = "pending"
        BY <1>12
    <2> QED
        BY <1>0, <1>1, <2>1 DEF PendingHeld, Elements
<1> QED
    BY <1>16, <1>21, <1>22, <1>23, <1>24 DEF Places

\* A post begins: nothing moves.
LEMMA BeginSafe ==
    ASSUME SafeInv, WriteBegins
    PROVE  Places'
<1>1. TypeOK /\ RunState /\ HeldPending /\ OnePlace /\ PendingHeld /\ TakenSettled
    BY DEF SafeInv
<1>2. UNCHANGED <<ch, metrics, pc, groups, body, received, fate>>
    BY DEF WriteBegins
<1>3. RunState' /\ HeldPending' /\ TakenSettled'
    BY <1>1, <1>2 DEF RunState, HeldPending, TakenSettled, AllPending, Distinct
<1>4. OnePlace' /\ PendingHeld'
    BY <1>1, <1>2 DEF OnePlace, PendingHeld, Distinct, Apart, Elements
<1> QED
    BY <1>3, <1>4 DEF Places

\* Every step keeps track of the post.
LEMMA StepPosting == SafeInv /\ [Next]_vars => Posting'
<1> SUFFICES ASSUME SafeInv, [Next]_vars, post' # "none" PROVE Posting'
    BY DEF Posting
<1>0. TypeOK /\ Posting /\ HeldPending /\ OnePlace /\ RunState
    BY DEF SafeInv
<1>1. CASE WriteBegins
    BY <1>1, ReporterAssumption DEF WriteBegins, Posting, MoreAttempts
<1>2. CASE CollectorTakes
    <2>1. groups # <<>>
        BY <1>0, <1>2 DEF CollectorTakes, RunState, Posting
    <2>2. \A x \in Elements(Head(groups)) : x \in Metric
        BY <1>0, <2>1, Rest, Held DEF Elements
    <2>3. /\ UNCHANGED <<pc, groups, attempt>> /\ pc = "write" /\ attempt < Retry
          /\ fate' = Settle(Elements(Head(groups)), "delivered")
        BY <1>0, <1>2 DEF CollectorTakes, Posting
    <2>4. \A x \in Elements(Head(groups)) : fate'[x] = "delivered"
        BY <2>2, <2>3 DEF Settle
    <2> QED
        BY <2>3, <2>4 DEF Posting, Elements
<1>3. CASE \E ok \in BOOLEAN : WriteReturns(ok)
    BY <1>3 DEF WriteReturns
<1>4. ASSUME UNCHANGED post, pc' # pc \/ pc # "write" PROVE FALSE
    <2>1. pc = "write" /\ post # "none" /\ attempt < Retry
        BY <1>0, <1>4 DEF Posting
    <2>2. pc' # pc
        BY <1>4, <2>1
    <2>3. attempt # Retry
        BY <1>0, <2>1, ReporterAssumption DEF TypeOK
    <2> QED
        BY <1>4, <2>1, <2>2, <2>3 DEF Next, vars, Produce, Receive, Tick, Finish, SkipEmpty,
           Serialize, WriteBegins, CollectorTakes, WriteReturns, GiveUp
<1>5. ASSUME NEW m \in Metric, Produce(m) PROVE Posting'
    <2>1. groups # <<>> /\ post # "none"
        BY <1>0, <1>5 DEF Produce, Posting, RunState
    <2>2. \A x \in Elements(Head(groups)) : x \in Metric
        BY <1>0, <2>1, Rest, Held DEF Elements
    <2>3. \A x \in Metric : fate[x] # "none" => fate'[x] = fate[x]
        BY <1>5 DEF Produce, Settle
    <2>4. post = "taken" => \A x \in Elements(Head(groups)) : fate'[x] = "delivered"
        BY <1>0, <2>1, <2>2, <2>3 DEF Posting
    <2> QED
        BY <1>0, <1>5, <2>4 DEF Produce, Posting, Elements
<1>6. CASE UNCHANGED vars
    BY <1>0, <1>6 DEF vars, Posting, Elements
<1>7. CASE Receive \/ Tick \/ Finish \/ SkipEmpty \/ Serialize
    BY <1>4, <1>7 DEF Receive, Tick, Finish, SkipEmpty, Serialize
<1>8. CASE GiveUp
    BY <1>8 DEF GiveUp
<1> QED
    BY <1>1, <1>2, <1>3, <1>5, <1>6, <1>7, <1>8 DEF Next

\* Every step keeps the inductive invariant.
LEMMA StepSafe == SafeInv /\ [Next]_vars => SafeInv'
<1> SUFFICES ASSUME SafeInv, [Next]_vars PROVE SafeInv'
    OBVIOUS
<1>1. TypeOK'
    BY StepTypeOK DEF SafeInv
<1>2. ASSUME UNCHANGED vars PROVE Places'
    <2>1. TypeOK /\ RunState /\ HeldPending /\ OnePlace /\ PendingHeld /\ TakenSettled
        BY DEF SafeInv
    <2>2. RunState' /\ HeldPending' /\ TakenSettled'
        BY <1>2, <2>1 DEF vars, RunState, HeldPending, TakenSettled, AllPending, Distinct
    <2>3. OnePlace' /\ PendingHeld'
        BY <1>2, <2>1 DEF vars, OnePlace, PendingHeld, Distinct, Apart, Elements
    <2> QED
        BY <2>2, <2>3 DEF Places
<1>3. Places'
    BY <1>2, ProduceSafe, KeepSafe, NilSafe, TickSafe, FinishSafe, SkipSafe, SerializeSafe,
       BeginSafe, TakeSafe, ReturnSafe, GiveUpSafe DEF Next
<1>4. Posting'
    BY StepPosting
<1> QED
    BY <1>1, <1>3, <1>4 DEF SafeInv, Places

\* The first inductive invariant holds throughout.
LEMMA Safe == Spec => []SafeInv
BY InitSafe, StepSafe, PTL DEF Spec

\* The controller and its client keep their state well typed: the channel never
\* exceeds its capacity, a batch has at most three groups, and the retry loop
\* stays within its bound.
THEOREM TypeCorrect == Spec => []TypeOK
<1>1. SafeInv => TypeOK
    BY DEF SafeInv
<1> QED
    BY <1>1, Safe, PTL

-----------------------------------------------------------------------------
(* What follows from the places.                                           *)

\* How often a metric occurs in a sequence without repetitions.
LEMMA OccursDistinct ==
    ASSUME NEW S, NEW s \in Seq(S), NEW m
    PROVE  /\ Occurs(m, s) \in Nat
           /\ Occurs(m, s) = 0 <=> m \notin Elements(s)
           /\ Distinct(s) /\ m \in Elements(s) => Occurs(m, s) = 1
<1> DEFINE N == {n \in DOMAIN s : s[n] = m}
<1>1. N \in SUBSET (1 .. Len(s)) /\ Len(s) \in Nat
    OBVIOUS
<1>2. IsFiniteSet(N)
    <2> HIDE DEF N
    <2>1. IsFiniteSet(1 .. Len(s))
        BY <1>1, FS_Interval
    <2> QED BY <1>1, <2>1, FS_Subset
<1>3. Occurs(m, s) = Cardinality(N)
    BY DEF Occurs
<1>4. N = {} <=> m \notin Elements(s)
    BY DEF Elements
<1>5. ASSUME Distinct(s), m \in Elements(s) PROVE \E n : N = {n}
    <2>1. PICK n \in DOMAIN s : s[n] = m
        BY <1>5 DEF Elements
    <2>2. N = {n}
        BY <1>5, <2>1 DEF Distinct
    <2> QED BY <2>2
<1> HIDE DEF N
<1>6. Cardinality(N) \in Nat
    BY <1>2, FS_CardinalityType
<1>7. Cardinality(N) = 0 <=> N = {}
    BY <1>2, FS_EmptySet
<1>8. Distinct(s) /\ m \in Elements(s) => Cardinality(N) = 1
    BY <1>5, FS_Singleton
<1> QED
    BY <1>3, <1>4, <1>6, <1>7, <1>8

\* A metric is in at most one of the groups.
LEMMA GroupsHolding ==
    ASSUME SafeInv, NEW m \in Metric
    PROVE  LET H == {g \in DOMAIN groups : Occurs(m, groups[g]) > 0}
           IN  /\ Cardinality(H) \in Nat
               /\ (\A g \in DOMAIN groups : m \notin Elements(groups[g])) => Cardinality(H) = 0
               /\ \A g \in DOMAIN groups : m \in Elements(groups[g]) => Cardinality(H) = 1
<1> DEFINE H == {g \in DOMAIN groups : Occurs(m, groups[g]) > 0}
<1>0. TypeOK /\ OnePlace
    BY DEF SafeInv
<1>1. ASSUME NEW g \in DOMAIN groups
      PROVE  g \in H <=> m \in Elements(groups[g])
    <2>1. groups[g] \in Seq(Metric)
        BY <1>0, Held
    <2>2. Occurs(m, groups[g]) \in Nat /\ (Occurs(m, groups[g]) = 0 <=> m \notin Elements(groups[g]))
        BY <2>1, OccursDistinct
    <2> QED BY <2>2
<1>2. ASSUME NEW g \in DOMAIN groups, m \in Elements(groups[g])
      PROVE  H = {g}
    <2>1. \A h \in DOMAIN groups : h # g => m \notin Elements(groups[h])
        BY <1>0, <1>2 DEF OnePlace, Apart, Elements
    <2> QED BY <1>1, <1>2, <2>1
<1>3. (\A g \in DOMAIN groups : m \notin Elements(groups[g])) => H = {}
    BY <1>1
<1>4. Cardinality({}) = 0 /\ \A g : Cardinality({g}) = 1
    BY FS_EmptySet, FS_Singleton
<1> HIDE DEF H
<1>5. (\A g \in DOMAIN groups : m \notin Elements(groups[g])) => Cardinality(H) = 0
    BY <1>3, <1>4
<1>6. \A g \in DOMAIN groups : m \in Elements(groups[g]) => Cardinality(H) = 1
    BY <1>2, <1>4
<1>7. Cardinality(H) \in Nat
    BY <1>5, <1>6
<1> QED
    BY <1>5, <1>6, <1>7 DEF H

\* The collector takes no metric twice.
LEMMA SafeTakenOnce == SafeInv => TakenOnce
<1> SUFFICES ASSUME SafeInv, NEW m \in Metric PROVE Occurs(m, received) <= 1
    BY DEF TakenOnce
<1>1. received \in Seq(Metric) /\ Distinct(received)
    BY DEF SafeInv, TypeOK, TakenSettled
<1>2. /\ Occurs(m, received) = 0 <=> m \notin Elements(received)
      /\ m \in Elements(received) => Occurs(m, received) = 1
    BY <1>1, OccursDistinct
<1> QED
    BY <1>2

\* A pending metric waits in exactly one place.
LEMMA SafeWaitsOnce == SafeInv => WaitsOnce
<1> SUFFICES ASSUME SafeInv, NEW m \in Metric
             PROVE  /\ fate[m] = "pending" => Waiting(m) = 1
                    /\ Waiting(m) > 0 /\ fate[m] # "pending" =>
                          pc = "write" /\ fate[m] = "delivered" /\ Occurs(m, Head(groups)) = 1
    BY DEF WaitsOnce
<1>0. TypeOK /\ RunState /\ HeldPending /\ OnePlace /\ PendingHeld
    BY DEF SafeInv
<1> DEFINE inCh == Occurs(m, ch)
           inBuf == IF pc = "select" THEN Occurs(m, metrics) ELSE 0
           inGroups == Cardinality({g \in DOMAIN groups : Occurs(m, groups[g]) > 0})
<1>1. Waiting(m) = inCh + inBuf + inGroups
    BY DEF Waiting
<1>2. /\ inCh \in Nat /\ (inCh = 0 <=> m \notin Elements(ch))
      /\ m \in Elements(ch) => inCh = 1
    BY <1>0, OccursDistinct DEF TypeOK, OnePlace
<1>3. /\ inBuf \in Nat /\ (inBuf = 0 <=> ~(pc = "select" /\ m \in Elements(metrics)))
      /\ pc = "select" /\ m \in Elements(metrics) => inBuf = 1
    <2>1. /\ Occurs(m, metrics) \in Nat
          /\ Occurs(m, metrics) = 0 <=> m \notin Elements(metrics)
          /\ Distinct(metrics) /\ m \in Elements(metrics) => Occurs(m, metrics) = 1
        BY <1>0, OccursDistinct DEF TypeOK
    <2> QED
        BY <1>0, <2>1 DEF OnePlace
<1>4. /\ inGroups \in Nat
      /\ (\A g \in DOMAIN groups : m \notin Elements(groups[g])) => inGroups = 0
      /\ \A g \in DOMAIN groups : m \in Elements(groups[g]) => inGroups = 1
    BY GroupsHolding
<1> HIDE DEF inCh, inBuf, inGroups
<1>5. m \in Elements(ch) => fate[m] = "pending" /\ inBuf = 0 /\ inGroups = 0
    <2> SUFFICES ASSUME m \in Elements(ch)
                 PROVE  fate[m] = "pending" /\ inBuf = 0 /\ inGroups = 0
        OBVIOUS
    <2>1. PICK a \in DOMAIN ch : m = ch[a]
        BY DEF Elements
    <2>2. fate[m] = "pending"
        BY <1>0, <2>1 DEF HeldPending, AllPending
    <2>3. ~(pc = "select" /\ m \in Elements(metrics))
        BY <1>0, <2>1 DEF OnePlace, Apart, Elements
    <2>4. \A g \in DOMAIN groups : m \notin Elements(groups[g])
        BY <1>0, <2>1 DEF OnePlace, Apart, Elements
    <2> QED
        BY <1>3, <1>4, <2>2, <2>3, <2>4
<1>6. pc = "select" /\ m \in Elements(metrics) => fate[m] = "pending" /\ inGroups = 0
    BY <1>0, <1>4 DEF HeldPending, AllPending, RunState, Elements
<1>7. ASSUME NEW g \in DOMAIN groups, m \in Elements(groups[g])
      PROVE  /\ inBuf = 0
             /\ fate[m] # "pending" =>
                   pc = "write" /\ fate[m] = "delivered" /\ Occurs(m, Head(groups)) = 1
    <2>1. inBuf = 0
        BY <1>0, <1>3, <1>7 DEF RunState, TypeOK
    <2>2. ASSUME fate[m] # "pending"
          PROVE  g = 1 /\ pc = "write" /\ fate[m] = "delivered"
        BY <1>0, <1>7, <2>2 DEF HeldPending, AllPending, Elements
    <2>3. g = 1 => Occurs(m, Head(groups)) = 1
        <3>1. groups # <<>>
            BY <1>7
        <3>2. Head(groups) = groups[1] /\ Head(groups) \in Seq(Metric)
            BY <1>0, <3>1, Rest
        <3>3. ASSUME g = 1 PROVE Distinct(Head(groups)) /\ m \in Elements(Head(groups))
            BY <1>0, <1>7, <3>2, <3>3 DEF OnePlace
        <3> QED
            BY <3>2, <3>3, OccursDistinct
    <2> QED
        BY <2>1, <2>2, <2>3
<1>8. fate[m] = "pending" =>
          \/ m \in Elements(ch)
          \/ pc = "select" /\ m \in Elements(metrics)
          \/ \E g \in DOMAIN groups : m \in Elements(groups[g])
    BY <1>0 DEF PendingHeld
<1> QED
    BY <1>1, <1>2, <1>3, <1>4, <1>5, <1>6, <1>7, <1>8

\* A metric not yet settled waits in exactly one place, and a settled one only
\* in the group that is being posted or retried: groups that fail, are not encoded
\* or are empty neither lose nor repeat what is in the others.
THEOREM MetricsWaitOnce == Spec => []WaitsOnce
BY Safe, SafeWaitsOnce, PTL

\* The collector takes no metric twice, although a post that it took and
\* answered with an error is retried: the body is gone after the first pass.
THEOREM MetricsTakenOnce == Spec => []TakenOnce
BY Safe, SafeTakenOnce, PTL

-----------------------------------------------------------------------------
(* Controller and client implement the at-most-once stage.                 *)

\* A step that gives the pending metrics S one fate is a step of Delivery.
LEMMA SettleMany ==
    ASSUME NEW S \in SUBSET Metric, \A x \in S : fate[x] = "pending",
           NEW f \in {"delivered", "ignored", "unencodable", "undelivered"},
           \A x \in Metric : fate'[x] = IF x \in S THEN f ELSE fate[x]
    PROVE  D!Next
<1>1. CASE f = "delivered"
    <2>1. D!Deliver(S)
        BY <1>1 DEF D!Deliver, Settled
    <2> QED BY <2>1 DEF D!Next
<1>2. CASE f \in {"ignored", "unencodable", "undelivered"}
    <2>1. D!Lose(S)
        BY <1>2 DEF D!Lose, Settled
    <2> QED BY <2>1 DEF D!Next
<1> QED
    BY <1>1, <1>2

\* Every step of controller and client is a step of Delivery or leaves it alone.
LEMMA StepDelivery == SafeInv /\ [Next]_vars => [D!Next]_D!vars
<1> SUFFICES ASSUME SafeInv, [Next]_vars PROVE [D!Next]_D!vars
    OBVIOUS
<1>0. ASSUME UNCHANGED fate PROVE UNCHANGED D!vars
    BY <1>0 DEF D!vars, Settled
<1>1. ASSUME NEW m \in Metric, Produce(m) PROVE D!Next
    <2>1. fate[m] = "none" /\ \A x \in Metric : fate'[x] = IF x = m THEN "pending" ELSE fate[x]
        BY <1>1 DEF Produce, Settle
    <2>2. D!Accept({m}, {})
        BY <2>1 DEF D!Accept, D!Known, Settled
    <2>3. {m} \in SUBSET Metric /\ {} \in SUBSET Metric
        OBVIOUS
    <2> QED
        BY <2>2, <2>3 DEF D!Next
<1>2. CASE Tick
    <2> DEFINE S == {m \in Elements(metrics) : GroupOf(m) = "none"}
    <2>1. \A x \in Metric : fate'[x] = IF x \in S THEN "ignored" ELSE fate[x]
        BY <1>2 DEF Tick, Settle
    <2>2. \A x \in Elements(metrics) : x \in Metric /\ fate[x] = "pending"
        BY <1>2, Held DEF Tick, SafeInv, HeldPending, AllPending, Elements
    <2>3. S \in SUBSET Metric /\ \A x \in S : fate[x] = "pending"
        BY <2>2
    <2> HIDE DEF S
    <2> QED
        BY <2>1, <2>3, SettleMany
<1>3. CASE Serialize
    <2>1. CASE UNCHANGED fate
        BY <2>1, <1>0
    <2>2. CASE fate' = Settle(Elements(Head(groups)), "unencodable")
        <3> DEFINE S == Elements(Head(groups))
        <3>1. \A x \in Metric : fate'[x] = IF x \in S THEN "unencodable" ELSE fate[x]
            BY <2>2 DEF Settle
        <3>2. \A x \in S : x \in Metric /\ fate[x] = "pending"
            BY <1>3, FirstGroupPending DEF Serialize
        <3> HIDE DEF S
        <3>3. S \in SUBSET Metric
            BY <3>2
        <3> QED
            BY <3>1, <3>2, <3>3, SettleMany
    <2> QED
        BY <1>3, <2>1, <2>2 DEF Serialize
<1>4. CASE CollectorTakes
    <2> DEFINE S == Elements(Head(groups))
    <2>1. \A x \in Metric : fate'[x] = IF x \in S THEN "delivered" ELSE fate[x]
        BY <1>4 DEF CollectorTakes, Settle
    <2>2. groups # <<>> /\ body = "open"
        BY <1>4 DEF CollectorTakes, SafeInv, RunState, Posting
    <2>3. \A x \in S : x \in Metric /\ fate[x] = "pending"
        BY <2>2, FirstGroupPending
    <2> HIDE DEF S
    <2>4. S \in SUBSET Metric
        BY <2>3
    <2> QED
        BY <2>1, <2>3, <2>4, SettleMany
<1>7. CASE Receive
    <2>1. CASE UNCHANGED fate
        BY <2>1, <1>0
    <2>2. CASE fate' = Settle({Head(ch)}, "ignored")
        <3>1. ch \in Seq(Metric) /\ ch # <<>>
            BY <1>7 DEF Receive, SafeInv, TypeOK
        <3>2. Head(ch) \in Metric /\ Head(ch) = ch[1] /\ 1 \in DOMAIN ch
            BY <3>1, HeadTail
        <3>3. fate[Head(ch)] = "pending"
            BY <3>2 DEF SafeInv, HeldPending, AllPending
        <3>4. \A x \in Metric : fate'[x] = IF x \in {Head(ch)} THEN "ignored" ELSE fate[x]
            BY <2>2 DEF Settle
        <3>5. {Head(ch)} \in SUBSET Metric /\ \A x \in {Head(ch)} : fate[x] = "pending"
            BY <3>2, <3>3
        <3> QED
            BY <3>4, <3>5, SettleMany
    <2> QED
        BY <1>7, <2>1, <2>2 DEF Receive
<1>5. CASE GiveUp
    <2> DEFINE S == {m \in Elements(Head(groups)) : fate[m] = "pending"}
    <2>1. \A x \in Metric : fate'[x] = IF x \in S THEN "undelivered" ELSE fate[x]
        BY <1>5 DEF GiveUp, Settle
    <2>2. groups # <<>>
        BY <1>5 DEF GiveUp, SafeInv, RunState
    <2>3. \A x \in Elements(Head(groups)) : x \in Metric
        BY <2>2, Rest, Held DEF SafeInv, Elements
    <2>4. S \in SUBSET Metric /\ \A x \in S : fate[x] = "pending"
        BY <2>3
    <2> HIDE DEF S
    <2> QED
        BY <2>1, <2>4, SettleMany
<1>6. CASE Finish \/ SkipEmpty \/ UNCHANGED vars \/ WriteBegins
             \/ \E ok \in BOOLEAN : WriteReturns(ok)
    BY <1>6, <1>0 DEF Finish, SkipEmpty, vars, WriteBegins, WriteReturns
<1> QED
    BY <1>1, <1>2, <1>3, <1>4, <1>5, <1>6, <1>7 DEF Next

\* The controller accepts each metric once, and the client either delivers it
\* once or loses it: a batch that fails, is retried or cannot be encoded neither
\* repeats a metric nor brings one back.
THEOREM ReporterImplementsDelivery == Spec => RefinesDelivery
<1>1. Init => D!Init
    BY DEF Init, D!Init, Settled
<1> QED
    BY <1>1, StepDelivery, Safe, PTL DEF Spec, RefinesDelivery, D!Spec

-----------------------------------------------------------------------------
(* The order of what is taken.                                             *)

\* A metric goes to the group of its name.
LEMMA GroupOfName == \A m : GroupOf(m) = KindOf(name[m])
BY DEF GroupOf, KindOf

\* Sending one more metric keeps the order of those already sent, and puts the
\* new one after them.
LEMMA PrecedesAppend ==
    ASSUME NEW q \in Seq(Metric), NEW e \in Metric
    PROVE  /\ \A x, y : Precedes(q, x, y) => Precedes(Append(q, e), x, y)
           /\ \A x \in Elements(q) : Precedes(Append(q, e), x, e)
<1>1. /\ DOMAIN Append(q, e) = DOMAIN q \cup {Len(q) + 1}
      /\ \A n \in DOMAIN q : Append(q, e)[n] = q[n] /\ n < Len(q) + 1
      /\ Append(q, e)[Len(q) + 1] = e
    BY AppendSeq
<1> QED
    BY <1>1 DEF Precedes, Elements

\* A sorted sequence stays sorted when something later is put at its end.
LEMMA SortedAppend ==
    ASSUME NEW q \in Seq(Metric), NEW e \in Metric, NEW s \in Seq(Metric),
           Sorted(q, s), Elements(s) \subseteq Elements(q)
    PROVE  Sorted(Append(q, e), Append(s, e))
<1>1. /\ DOMAIN Append(s, e) = DOMAIN s \cup {Len(s) + 1}
      /\ \A n \in DOMAIN s : Append(s, e)[n] = s[n] /\ n < Len(s) + 1
      /\ Append(s, e)[Len(s) + 1] = e
    BY AppendSeq
<1>2. Len(s) \in Nat /\ \A n \in DOMAIN s : n \in Nat /\ s[n] \in Elements(q)
    <2>1. \A n \in DOMAIN s : s[n] \in Elements(s)
        BY DEF Elements
    <2> QED
        BY <2>1
<1> SUFFICES ASSUME NEW a \in DOMAIN Append(s, e), NEW b \in DOMAIN Append(s, e), a < b
             PROVE  Precedes(Append(q, e), Append(s, e)[a], Append(s, e)[b])
    BY DEF Sorted
<1>3. a \in DOMAIN s
    BY <1>1, <1>2
<1>4. CASE b \in DOMAIN s
    BY <1>1, <1>3, <1>4, PrecedesAppend DEF Sorted
<1>5. CASE b = Len(s) + 1
    BY <1>1, <1>2, <1>3, <1>5, PrecedesAppend
<1> QED
    BY <1>1, <1>4, <1>5

\* The order invariant holds initially.
LEMMA InitOrder == Init => OrderInv
BY DEF Init, OrderInv, SentKnown, HeldInOrder, GroupsInOrder, TakenSorted, Sorted,
       AllBefore, Elements

\* A plugin sends a metric.
LEMMA ProduceOrder ==
    ASSUME SafeInv, OrderInv, NEW m \in Metric, Produce(m)
    PROVE  OrderInv'
<1>0. /\ ch \in Seq(Metric) /\ sent \in Seq(Metric) /\ fate \in [Metric -> Fates]
      /\ TypeOK /\ HeldPending /\ TakenSettled /\ RunState
      /\ SentKnown /\ HeldInOrder /\ GroupsInOrder /\ TakenSorted
    BY DEF SafeInv, OrderInv, TypeOK
<1>1. /\ fate[m] = "none" /\ ch' = Append(ch, m) /\ sent' = Append(sent, m)
      /\ UNCHANGED <<metrics, pc, groups, body, received, name>>
    BY DEF Produce
<1>2. \A x \in Metric : fate'[x] = IF x = m THEN "pending" ELSE fate[x]
    BY DEF Produce, Settle
<1>3. /\ \A x, y : Precedes(sent, x, y) => Precedes(sent', x, y)
      /\ \A x \in Elements(sent) : Precedes(sent', x, m)
    BY <1>0, <1>1, PrecedesAppend
<1>4. /\ DOMAIN ch' = DOMAIN ch \cup {Len(ch) + 1}
      /\ \A n \in DOMAIN ch : ch'[n] = ch[n]
      /\ ch'[Len(ch) + 1] = m
    BY <1>0, <1>1, AppendSeq
<1>5. /\ \A a \in DOMAIN ch : ch[a] \in Elements(sent)
      /\ \A a \in DOMAIN received : received[a] \in Elements(sent)
      /\ pc = "select" => \A a \in DOMAIN metrics : metrics[a] \in Elements(sent)
      /\ \A g \in DOMAIN groups : \A a \in DOMAIN groups[g] :
             groups[g][a] \in Elements(sent) /\ groups[g][a] # m /\ groups[g][a] \in Metric
    BY <1>0, <1>1, Held DEF SentKnown, HeldPending, AllPending, TakenSettled
<1>6. Sorted(sent', ch')
    <2>1. Elements(ch) \subseteq Elements(sent)
        BY <1>5 DEF Elements
    <2> QED
        BY <1>0, <1>1, <2>1, SortedAppend DEF HeldInOrder
<1>7. AllBefore(sent', received, ch')
    BY <1>0, <1>3, <1>4, <1>5 DEF HeldInOrder, AllBefore
<1>8. pc = "select" => /\ Sorted(sent', metrics)
                       /\ AllBefore(sent', metrics, ch')
                       /\ AllBefore(sent', received, metrics)
    BY <1>0, <1>3, <1>4, <1>5 DEF HeldInOrder, AllBefore, Sorted
<1>9. \A g \in DOMAIN groups : Sorted(sent', groups[g]) /\ AllBefore(sent', groups[g], ch')
    BY <1>0, <1>3, <1>4, <1>5 DEF HeldInOrder, AllBefore, Sorted
<1>10. HeldInOrder'
    BY <1>1, <1>6, <1>7, <1>8, <1>9 DEF HeldInOrder
<1>11. GroupsInOrder'
    BY <1>0, <1>1, <1>2, <1>3, <1>5 DEF GroupsInOrder
<1>12. TakenSorted'
    BY <1>0, <1>1, <1>3 DEF TakenSorted
<1>13. SentKnown'
    <2>1. Elements(sent) \subseteq Elements(sent') /\ m \in Elements(sent')
        BY <1>0, <1>1, AppendSeq DEF Elements
    <2> SUFFICES ASSUME NEW x \in Metric, fate'[x] # "none" PROVE x \in Elements(sent')
        BY DEF SentKnown, Elements
    <2> QED
        BY <1>0, <1>2, <2>1 DEF SentKnown
<1> QED
    BY <1>10, <1>11, <1>12, <1>13 DEF OrderInv

\* Run moves the oldest metric of the channel to the end of its buffer.
LEMMA KeepOrder ==
    ASSUME SafeInv, OrderInv, Receive, name[Head(ch)] # "nil"
    PROVE  OrderInv'
<1>0. /\ ch \in Seq(Metric) /\ metrics \in Seq(Metric) /\ RunState
      /\ SentKnown /\ HeldInOrder /\ GroupsInOrder /\ TakenSorted
    BY DEF SafeInv, OrderInv, TypeOK
<1>1. /\ pc = "select" /\ ch # <<>> /\ ch' = Tail(ch) /\ metrics' = Append(metrics, Head(ch))
      /\ UNCHANGED <<pc, groups, body, received, fate, sent, name>>
    BY DEF Receive
<1>2. /\ Head(ch) \in Metric /\ Head(ch) = ch[1] /\ 1 \in DOMAIN ch
      /\ \A n \in DOMAIN ch' : n \in Nat /\ n + 1 \in DOMAIN ch /\ n + 1 # 1 /\ ch'[n] = ch[n + 1]
    BY <1>0, <1>1, HeadTail
<1>3. /\ DOMAIN metrics' = DOMAIN metrics \cup {Len(metrics) + 1}
      /\ \A n \in DOMAIN metrics : metrics'[n] = metrics[n] /\ n < Len(metrics) + 1
      /\ metrics'[Len(metrics) + 1] = ch[1]
      /\ \A n \in DOMAIN metrics : n \in Nat
      /\ Len(metrics) \in Nat
    BY <1>0, <1>1, <1>2, AppendSeq
<1>4. Sorted(sent, ch')
    <2> SUFFICES ASSUME NEW a \in DOMAIN ch', NEW b \in DOMAIN ch', a < b
                 PROVE  Precedes(sent, ch'[a], ch'[b])
        BY DEF Sorted
    <2>1. a + 1 < b + 1
        BY <1>2
    <2> QED
        BY <1>0, <1>2, <2>1 DEF HeldInOrder, Sorted
<1>5. AllBefore(sent, received, ch') /\ AllBefore(sent, received, metrics')
    BY <1>0, <1>1, <1>2, <1>3 DEF HeldInOrder, AllBefore
<1>6. Sorted(sent, metrics')
    <2> SUFFICES ASSUME NEW a \in DOMAIN metrics', NEW b \in DOMAIN metrics', a < b
                 PROVE  Precedes(sent, metrics'[a], metrics'[b])
        BY DEF Sorted
    <2>1. a \in DOMAIN metrics
        BY <1>3
    <2> QED
        BY <1>0, <1>1, <1>2, <1>3, <2>1 DEF HeldInOrder, Sorted, AllBefore
<1>7. AllBefore(sent, metrics', ch')
    <2> SUFFICES ASSUME NEW a \in DOMAIN metrics', NEW b \in DOMAIN ch'
                 PROVE  Precedes(sent, metrics'[a], ch'[b])
        BY DEF AllBefore
    <2>1. b + 1 \in DOMAIN ch /\ ch'[b] = ch[b + 1] /\ 1 < b + 1
        BY <1>0, <1>2
    <2>2. CASE a \in DOMAIN metrics
        BY <1>0, <1>1, <1>3, <2>1, <2>2 DEF HeldInOrder, AllBefore
    <2>3. CASE a = Len(metrics) + 1
        BY <1>0, <1>2, <1>3, <2>1, <2>3 DEF HeldInOrder, Sorted
    <2> QED
        BY <1>3, <2>2, <2>3
<1>8. HeldInOrder'
    BY <1>0, <1>1, <1>4, <1>5, <1>6, <1>7 DEF HeldInOrder, RunState
<1>9. GroupsInOrder' /\ TakenSorted'
    BY <1>0, <1>1 DEF GroupsInOrder, TakenSorted
<1>10. SentKnown'
    BY <1>0, <1>1 DEF SentKnown, Elements
<1> QED
    BY <1>8, <1>9, <1>10 DEF OrderInv

\* Run throws a nil metric away: the rest of the channel keeps its order.
LEMMA NilOrder ==
    ASSUME SafeInv, OrderInv, Receive, name[Head(ch)] = "nil"
    PROVE  OrderInv'
<1>0. /\ ch \in Seq(Metric) /\ metrics \in Seq(Metric) /\ RunState /\ HeldPending
      /\ SentKnown /\ HeldInOrder /\ GroupsInOrder /\ TakenSorted
    BY DEF SafeInv, OrderInv, TypeOK
<1>1. /\ pc = "select" /\ ch # <<>> /\ ch' = Tail(ch)
      /\ fate' = Settle({Head(ch)}, "ignored")
      /\ UNCHANGED <<pc, metrics, groups, body, received, sent, name>>
    BY DEF Receive
<1>2. /\ Head(ch) = ch[1] /\ 1 \in DOMAIN ch
      /\ \A n \in DOMAIN ch' : n \in Nat /\ n + 1 \in DOMAIN ch /\ n + 1 # 1 /\ ch'[n] = ch[n + 1]
    BY <1>0, <1>1, HeadTail
<1>3. groups = <<>>
    BY <1>0, <1>1 DEF RunState
<1>4. Sorted(sent, ch')
    <2> SUFFICES ASSUME NEW a \in DOMAIN ch', NEW b \in DOMAIN ch', a < b
                 PROVE  Precedes(sent, ch'[a], ch'[b])
        BY DEF Sorted
    <2>1. a + 1 < b + 1
        BY <1>2
    <2> QED
        BY <1>0, <1>2, <2>1 DEF HeldInOrder, Sorted
<1>5. AllBefore(sent, received, ch') /\ AllBefore(sent, metrics, ch')
    BY <1>0, <1>1, <1>2 DEF HeldInOrder, AllBefore
<1>6. HeldInOrder'
    BY <1>0, <1>1, <1>3, <1>4, <1>5 DEF HeldInOrder
<1>7. GroupsInOrder'
    BY <1>1, <1>3 DEF GroupsInOrder
<1>8. TakenSorted'
    BY <1>0, <1>1 DEF TakenSorted
<1>9. SentKnown'
    <2>1. fate[ch[1]] = "pending"
        BY <1>0, <1>2 DEF HeldPending, AllPending
    <2>2. \A x \in Metric : fate'[x] # "none" => fate[x] # "none"
        BY <1>1, <1>2, <2>1 DEF Settle
    <2> QED
        BY <1>0, <1>1, <2>2 DEF SentKnown, Elements
<1> QED
    BY <1>6, <1>7, <1>8, <1>9 DEF OrderInv

\* Send begins: what the groups hold comes from the buffer, in its order.
LEMMA TickOrder ==
    ASSUME SafeInv, OrderInv, Tick
    PROVE  OrderInv'
<1>0. /\ metrics \in Seq(Metric) /\ TypeOK /\ HeldPending
      /\ SentKnown /\ HeldInOrder /\ GroupsInOrder /\ TakenSorted
    BY DEF SafeInv, OrderInv, TypeOK
<1>1. /\ pc = "select" /\ pc' = "send" /\ groups' = group(metrics)
      /\ UNCHANGED <<ch, body, received, sent, name>>
    BY DEF Tick
<1> DEFINE G == group(metrics)
<1>2. /\ \A g \in 1 .. 3 : \A a \in DOMAIN G[g] :
             \E n \in DOMAIN metrics :
                 G[g][a] = metrics[n] /\ GroupOf(metrics[n]) = Kind(g)
      /\ \A g \in 1 .. 3 : \A a, b \in DOMAIN G[g] : a < b =>
             \E n, l \in DOMAIN metrics :
                 n < l /\ G[g][a] = metrics[n] /\ G[g][b] = metrics[l]
    BY <1>0, GroupMembers
<1>3. DOMAIN G = 1 .. 3
    BY <1>0, GroupsOfBatch
<1> HIDE DEF G
<1>4. groups' = G /\ DOMAIN groups' = 1 .. 3
    BY <1>1, <1>3 DEF G
<1>5. ASSUME NEW g \in 1 .. 3 PROVE Sorted(sent, G[g]) /\ AllBefore(sent, G[g], ch)
    <2>1. Sorted(sent, G[g])
        <3> SUFFICES ASSUME NEW a \in DOMAIN G[g], NEW b \in DOMAIN G[g], a < b
                     PROVE  Precedes(sent, G[g][a], G[g][b])
            BY DEF Sorted
        <3>1. PICK n \in DOMAIN metrics, l \in DOMAIN metrics :
                  n < l /\ G[g][a] = metrics[n] /\ G[g][b] = metrics[l]
            BY <1>2
        <3> QED
            BY <1>0, <1>1, <3>1 DEF HeldInOrder, Sorted
    <2>2. AllBefore(sent, G[g], ch)
        <3> SUFFICES ASSUME NEW a \in DOMAIN G[g], NEW b \in DOMAIN ch
                     PROVE  Precedes(sent, G[g][a], ch[b])
            BY DEF AllBefore
        <3>1. PICK n \in DOMAIN metrics : G[g][a] = metrics[n]
            BY <1>2
        <3> QED
            BY <1>0, <1>1, <3>1 DEF HeldInOrder, AllBefore
    <2> QED
        BY <2>1, <2>2
<1>6. HeldInOrder'
    BY <1>0, <1>1, <1>4, <1>5 DEF HeldInOrder
<1>7. \A g \in 1 .. 3 : \A a \in DOMAIN G[g] : KindOf(name[G[g][a]]) = Kind(g)
    BY <1>2, GroupOfName
<1>8. \A g, h \in 1 .. 3 : g # h => Kind(g) # Kind(h)
    BY DEF Kind
<1>9. \A g, h \in 1 .. 3 : g # h =>
          \A a \in DOMAIN G[g], b \in DOMAIN G[h] :
              KindOf(name[G[g][a]]) # KindOf(name[G[h][b]])
    BY <1>7, <1>8
<1>10. \A g \in 1 .. 3 : \A a \in DOMAIN received, b \in DOMAIN G[g] :
          Precedes(sent, received[a], G[g][b])
    <2> SUFFICES ASSUME NEW g \in 1 .. 3, NEW a \in DOMAIN received, NEW b \in DOMAIN G[g]
                 PROVE  Precedes(sent, received[a], G[g][b])
        OBVIOUS
    <2>1. PICK n \in DOMAIN metrics : G[g][b] = metrics[n]
        BY <1>2
    <2> QED
        BY <1>0, <1>1, <2>1 DEF HeldInOrder, AllBefore
<1>11. GroupsInOrder'
    BY <1>1, <1>4, <1>9, <1>10 DEF GroupsInOrder
<1>12. TakenSorted'
    BY <1>0, <1>1 DEF TakenSorted
<1>13. SentKnown'
    <2>1. \A x \in Elements(metrics) : fate[x] = "pending"
        BY <1>0, <1>1 DEF HeldPending, AllPending, Elements
    <2>2. \A x \in Metric : fate'[x] # "none" => fate[x] # "none"
        BY <2>1 DEF Tick, Settle
    <2> QED
        BY <1>0, <1>1, <2>2 DEF SentKnown, Elements
<1> QED
    BY <1>6, <1>11, <1>12, <1>13 DEF OrderInv

\* Send is done with its first group, or has just serialised it, or posts it in
\* vain: nothing is sent, taken or made pending.
LEMMA SendOrder ==
    ASSUME SafeInv, OrderInv, groups # <<>>, groups' \in {groups, Tail(groups)},
           pc' # "select", UNCHANGED <<ch, received, sent, name>>,
           \A x \in Metric : fate'[x] = "pending" => fate[x] = "pending",
           \A x \in Metric : fate'[x] # "none" => fate[x] # "none"
    PROVE  OrderInv'
<1>0. TypeOK /\ SentKnown /\ HeldInOrder /\ GroupsInOrder /\ TakenSorted
    BY DEF SafeInv, OrderInv
<1>1. TakenSorted' /\ SentKnown'
    BY <1>0 DEF TakenSorted, SentKnown, Elements
<1>2. \A g \in DOMAIN groups : \A a \in DOMAIN groups[g] : groups[g][a] \in Metric
    BY <1>0, Held
<1>3. CASE groups' = groups
    BY <1>0, <1>1, <1>2, <1>3 DEF OrderInv, HeldInOrder, GroupsInOrder
<1>4. CASE groups' = Tail(groups)
    <2>1. \A g \in DOMAIN groups' :
              g \in Nat /\ g + 1 \in DOMAIN groups /\ groups'[g] = groups[g + 1]
        BY <1>0, <1>4, Rest
    <2>2. \A g, h \in DOMAIN groups' : g # h => g + 1 # h + 1
        BY <2>1
    <2>3. HeldInOrder'
        BY <1>0, <2>1 DEF HeldInOrder
    <2>4. \A g, h \in DOMAIN groups' : g # h =>
             \A a \in DOMAIN groups'[g], b \in DOMAIN groups'[h] :
                 KindOf(name[groups'[g][a]]) # KindOf(name[groups'[h][b]])
        <3> SUFFICES ASSUME NEW g \in DOMAIN groups', NEW h \in DOMAIN groups', g # h,
                            NEW a \in DOMAIN groups'[g], NEW b \in DOMAIN groups'[h]
                     PROVE  KindOf(name[groups'[g][a]]) # KindOf(name[groups'[h][b]])
            OBVIOUS
        <3> DEFINE i == g + 1
                   j == h + 1
        <3>1. /\ i \in DOMAIN groups /\ groups'[g] = groups[i]
              /\ j \in DOMAIN groups /\ groups'[h] = groups[j] /\ i # j
            BY <2>1, <2>2
        <3> HIDE DEF i, j
        <3> QED
            BY <1>0, <3>1 DEF GroupsInOrder
    <2>5. ASSUME NEW g \in DOMAIN groups', NEW a \in DOMAIN received, NEW b \in DOMAIN groups'[g],
                 KindOf(name[received[a]]) = KindOf(name[groups'[g][b]]),
                 fate'[groups'[g][b]] = "pending"
          PROVE  Precedes(sent, received[a], groups'[g][b])
        <3> DEFINE h == g + 1
        <3>1. h \in DOMAIN groups /\ groups'[g] = groups[h]
            BY <2>1
        <3> HIDE DEF h
        <3>2. groups[h][b] \in Metric /\ fate[groups[h][b]] = "pending"
            BY <1>2, <2>5, <3>1
        <3> QED
            BY <1>0, <2>5, <3>1, <3>2 DEF GroupsInOrder
    <2>6. GroupsInOrder'
        BY <2>4, <2>5 DEF GroupsInOrder
    <2> QED
        BY <1>1, <2>3, <2>6 DEF OrderInv
<1> QED
    BY <1>3, <1>4

\* The collector takes a group: what it has taken of that group before was sent
\* before.
LEMMA TakeOrder ==
    ASSUME SafeInv, OrderInv, CollectorTakes
    PROVE  OrderInv'
<1> DEFINE batch == Head(groups)
<1>0. /\ TypeOK /\ RunState /\ HeldPending /\ OnePlace /\ TakenSettled /\ Posting
      /\ SentKnown /\ HeldInOrder /\ GroupsInOrder /\ TakenSorted
    BY DEF SafeInv, OrderInv
<1>1. /\ pc = "write" /\ pc' # "select" /\ body = "open"
      /\ received' = received \o batch
      /\ fate' = Settle(Elements(batch), "delivered")
      /\ UNCHANGED <<ch, groups, sent, name>>
    BY <1>0 DEF CollectorTakes, Posting
<1>2. groups # <<>> /\ batch \in Seq(Metric) /\ batch = groups[1] /\ 1 \in DOMAIN groups
    BY <1>0, <1>1, Rest DEF RunState
<1>3. \A a \in DOMAIN batch : batch[a] \in Metric /\ fate[batch[a]] = "pending"
    BY <1>1, <1>2, FirstGroupPending DEF Elements
<1>4. \A x \in Metric : fate'[x] = IF x \in Elements(batch) THEN "delivered" ELSE fate[x]
    BY <1>1 DEF Settle
<1>5. received \in Seq(Metric) /\ Len(received) \in Nat
    BY <1>0 DEF TypeOK
<1> HIDE DEF batch
<1> DEFINE n0 == Len(received)
<1>6. /\ \A n \in DOMAIN received : received'[n] = received[n] /\ n \in Nat /\ n <= n0
      /\ \A n \in DOMAIN received' : n \in Nat
      /\ \A n \in DOMAIN received' : n \notin DOMAIN received =>
             n > n0 /\ n - n0 \in DOMAIN batch /\ received'[n] = batch[n - n0]
    BY <1>1, <1>2, <1>5
<1> HIDE DEF n0
<1>6a. n0 \in Nat /\ \A n \in DOMAIN batch : n \in Nat
    BY <1>2, <1>5 DEF n0
<1>7. SentKnown'
    <2>1. \A x \in Elements(batch) : fate[x] = "pending"
        BY <1>3 DEF Elements
    <2>2. \A x \in Metric : fate'[x] # "none" => fate[x] # "none"
        BY <1>4, <2>1
    <2> QED
        BY <1>0, <1>1, <2>2 DEF SentKnown, Elements
<1>8. AllBefore(sent, received', ch)
    <2> SUFFICES ASSUME NEW a \in DOMAIN received', NEW b \in DOMAIN ch
                 PROVE  Precedes(sent, received'[a], ch[b])
        BY DEF AllBefore
    <2>1. CASE a \in DOMAIN received
        BY <1>0, <1>6, <2>1 DEF HeldInOrder, AllBefore
    <2>2. CASE a \notin DOMAIN received
        BY <1>0, <1>2, <1>6, <2>2 DEF HeldInOrder, AllBefore
    <2> QED
        BY <2>1, <2>2
<1>9. ASSUME NEW a \in DOMAIN received', NEW b \in DOMAIN received', a < b,
             KindOf(name[received'[a]]) = KindOf(name[received'[b]])
      PROVE  Precedes(sent, received'[a], received'[b])
    <2>1. CASE b \in DOMAIN received
        <3>1. a \in DOMAIN received
            <4>1. a <= n0
                BY <1>6, <1>6a, <1>9, <2>1
            <4> QED
                BY <1>6, <1>6a, <4>1
        <3> QED
            BY <1>0, <1>6, <1>9, <2>1, <3>1 DEF TakenSorted
    <2>2. CASE b \notin DOMAIN received /\ a \in DOMAIN received
        <3> DEFINE j == b - n0
        <3>1. j \in DOMAIN batch /\ received'[b] = batch[j] /\ received'[a] = received[a]
            BY <1>6, <2>2
        <3> HIDE DEF j
        <3>2. fate[batch[j]] = "pending"
            BY <1>3, <3>1
        <3> QED
            BY <1>0, <1>2, <1>9, <2>2, <3>1, <3>2 DEF GroupsInOrder
    <2>3. CASE b \notin DOMAIN received /\ a \notin DOMAIN received
        <3>1. a - n0 < b - n0
            BY <1>6, <1>6a, <1>9
        <3>2. Sorted(sent, batch)
            BY <1>0, <1>2 DEF HeldInOrder
        <3> QED
            BY <1>6, <2>3, <3>1, <3>2 DEF Sorted
    <2> QED
        BY <2>1, <2>2, <2>3
<1>10. TakenSorted'
    BY <1>1, <1>9 DEF TakenSorted
<1>13. HeldInOrder'
    BY <1>0, <1>1, <1>8 DEF HeldInOrder
<1>14. ASSUME NEW g \in DOMAIN groups, NEW h \in DOMAIN groups, g # h,
              NEW a \in DOMAIN groups[g], NEW b \in DOMAIN groups[h]
       PROVE  KindOf(name[groups[g][a]]) # KindOf(name[groups[h][b]])
    BY <1>0, <1>14 DEF GroupsInOrder
<1>15. ASSUME NEW g \in DOMAIN groups, NEW a \in DOMAIN received', NEW b \in DOMAIN groups[g],
              KindOf(name[received'[a]]) = KindOf(name[groups[g][b]]),
              fate'[groups[g][b]] = "pending"
       PROVE  Precedes(sent, received'[a], groups[g][b])
    <2> DEFINE y == groups[g][b]
    <2>2. y \in Metric
        BY <1>0, <1>15, Held
    <2>3. y \notin Elements(batch) /\ fate[y] = "pending"
        BY <1>4, <1>15, <2>2
    <2>4. g # 1
        BY <1>2, <1>15, <2>3 DEF Elements
    <2>5. CASE a \in DOMAIN received
        BY <1>0, <1>6, <1>15, <2>3, <2>5 DEF GroupsInOrder
    <2>6. CASE a \notin DOMAIN received
        <3>1. a - n0 \in DOMAIN batch /\ received'[a] = batch[a - n0]
            BY <1>6, <2>6
        <3> QED
            BY <1>0, <1>2, <1>15, <2>4, <3>1 DEF GroupsInOrder
    <2> QED
        BY <2>5, <2>6
<1>16. GroupsInOrder'
    <2>0. name' = name /\ sent' = sent /\ groups' = groups
        BY <1>1
    <2>1. \A g, h \in DOMAIN groups' : g # h =>
              \A a \in DOMAIN groups'[g], b \in DOMAIN groups'[h] :
                  KindOf(name'[groups'[g][a]]) # KindOf(name'[groups'[h][b]])
        BY <2>0, <1>14
    <2>2. \A g \in DOMAIN groups' : \A a \in DOMAIN received', b \in DOMAIN groups'[g] :
              /\ KindOf(name'[received'[a]]) = KindOf(name'[groups'[g][b]])
              /\ fate'[groups'[g][b]] = "pending"
              => Precedes(sent', received'[a], groups'[g][b])
        BY <2>0, <1>15
    <2> QED
        BY <2>1, <2>2 DEF GroupsInOrder
<1> QED
    BY <1>7, <1>10, <1>13, <1>16 DEF OrderInv

\* Every step keeps the order.
LEMMA StepOrder == SafeInv /\ OrderInv /\ [Next]_vars => OrderInv'
<1> SUFFICES ASSUME SafeInv, OrderInv, [Next]_vars PROVE OrderInv'
    OBVIOUS
<1>0. SentKnown /\ HeldInOrder /\ GroupsInOrder /\ TakenSorted
    BY DEF OrderInv
<1>1. CASE Finish
    <2>1. /\ groups = <<>> /\ groups' = <<>> /\ metrics' = <<>>
          /\ UNCHANGED <<ch, received, sent, name, fate>>
        BY <1>1 DEF Finish, MetricsAfterSend
    <2>2. HeldInOrder'
        BY <1>0, <2>1 DEF HeldInOrder, Sorted, AllBefore
    <2> QED
        BY <1>0, <2>1, <2>2 DEF OrderInv, SentKnown, GroupsInOrder, TakenSorted, Elements
<1>2. CASE SkipEmpty
    BY <1>2, SendOrder DEF SkipEmpty
<1>3. CASE Serialize
    <2>1. \A x \in Elements(Head(groups)) : x \in Metric /\ fate[x] = "pending"
        BY <1>3, FirstGroupPending DEF Serialize
    <2>2. \A x \in Metric : fate'[x] = fate[x] \/
              (x \in Elements(Head(groups)) /\ fate'[x] = "unencodable")
        BY <1>3 DEF Serialize, Settle
    <2>3. /\ \A x \in Metric : fate'[x] = "pending" => fate[x] = "pending"
          /\ \A x \in Metric : fate'[x] # "none" => fate[x] # "none"
        BY <2>1, <2>2
    <2>4. /\ groups # <<>> /\ groups' \in {groups, Tail(groups)} /\ pc' # "select"
          /\ UNCHANGED <<ch, received, sent, name>>
        BY <1>3 DEF Serialize
    <2> QED
        BY <2>3, <2>4, SendOrder
<1>4. ASSUME NEW ok \in BOOLEAN, WriteReturns(ok) PROVE OrderInv'
    <2>1. groups # <<>> /\ pc = "write"
        BY <1>4 DEF WriteReturns, SafeInv, RunState, Posting
    <2>2. /\ groups' \in {groups, Tail(groups)} /\ pc' # "select"
          /\ UNCHANGED <<ch, received, sent, name, fate>>
        BY <1>4, <2>1 DEF WriteReturns
    <2> QED
        BY <2>1, <2>2, SendOrder
<1>5. CASE GiveUp
    <2>1. groups # <<>>
        BY <1>5 DEF GiveUp, SafeInv, RunState
    <2>2. \A x \in Metric : fate'[x] = IF x \in Elements(Head(groups)) /\ fate[x] = "pending"
                                        THEN "undelivered" ELSE fate[x]
        BY <1>5 DEF GiveUp, Settle
    <2>3. /\ \A x \in Metric : fate'[x] = "pending" => fate[x] = "pending"
          /\ \A x \in Metric : fate'[x] # "none" => fate[x] # "none"
        BY <2>2
    <2>4. /\ groups' = Tail(groups) /\ pc' # "select" /\ UNCHANGED <<ch, received, sent, name>>
        BY <1>5 DEF GiveUp
    <2> QED
        BY <2>1, <2>3, <2>4, SendOrder
<1>6. CASE UNCHANGED vars
    <2>1. HeldInOrder' /\ TakenSorted'
        BY <1>0, <1>6 DEF vars, HeldInOrder, TakenSorted
    <2>2. GroupsInOrder' /\ SentKnown'
        BY <1>0, <1>6 DEF vars, GroupsInOrder, SentKnown, Elements
    <2> QED
        BY <2>1, <2>2 DEF OrderInv
<1>7. CASE WriteBegins
    <2>1. groups # <<>>
        BY <1>7 DEF WriteBegins, SafeInv, RunState
    <2>2. /\ groups' \in {groups, Tail(groups)} /\ pc' # "select"
          /\ UNCHANGED <<ch, received, sent, name, fate>>
        BY <1>7 DEF WriteBegins
    <2> QED
        BY <2>1, <2>2, SendOrder
<1> QED
    BY <1>1, <1>2, <1>3, <1>4, <1>5, <1>6, <1>7, ProduceOrder, KeepOrder, NilOrder,
       TickOrder, TakeOrder DEF Next

\* Metrics of one group reach the collector in the order the plugins sent them,
\* across batches, failed posts and retries.
THEOREM MetricsTakenInOrder == Spec => []TakenInOrder
<1>1. OrderInv => TakenInOrder
    BY GroupOfName DEF OrderInv, TakenSorted, TakenInOrder, Precedes
<1> QED
    BY <1>1, Safe, InitOrder, StepOrder, PTL DEF Spec

=============================================================================
