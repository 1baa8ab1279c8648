------------------------------ MODULE Reporter ------------------------------
(***************************************************************************)
(* The agent's controller and its collector client: plugins send metrics   *)
(* on one channel, Run buffers them, and on every tick of a 5 s ticker     *)
(* Send groups the buffer, serialises each group and posts it.             *)
(*                                                                         *)
(* Run is one goroutine: while Send is posting, nothing is received, and   *)
(* plugins block once the channel is full.  The collector is external; it  *)
(* takes a batch when it reads the whole body of a post, whatever becomes  *)
(* of its answer, and it may never answer: http.Client has no timeout.     *)
(***************************************************************************)
EXTENDS Integers, Sequences, FiniteSets

CONSTANTS
    Metric,     \* identities of metrics: bounds their number
    Names,      \* Metric.Name of what plugins send; "nil" for a nil pointer
    ChCap,      \* capacity of the channel (1000 in the code)
    Retry       \* TELEMETRY_REPORT_STRICT_RETRY: 3 by default

ASSUME ReporterAssumption ==
    /\ ChCap \in Nat \ {0}
    /\ Retry \in Nat

VARIABLES
    ch,        \* the channel
    metrics,   \* p.metrics, the buffer of Run
    pc,        \* Run: in its select, in Send between groups, or posting
    groups,    \* the groups Send has still to post
    body,      \* requestBuffer of the current group: its reader
    attempt,   \* i of the retry loop
    post,      \* the call of HttpClient.Do: none, under way, or body read
    received,  \* external: the metrics the collector has taken, in order
    sent,      \* history: metrics sent by the plugins, in order
    name,      \* history: Metric.Name of the sent metrics
    fate,      \* history: what became of each metric
    logged     \* history: metrics counted by a "send %d metric ... success"

vars == <<ch, metrics, pc, groups, body, attempt, post, received, sent, name,
          fate, logged>>

Fates == {"none", "pending", "delivered", "ignored", "unencodable", "undelivered"}

TypeOK ==
    /\ ch \in Seq(Metric) /\ Len(ch) <= ChCap
    /\ metrics \in Seq(Metric)
    /\ pc \in {"select", "send", "write"}
    /\ groups \in Seq(Seq(Metric)) /\ Len(groups) <= 3
    /\ body \in {"open", "closed"}
    /\ attempt \in 0 .. Retry
    /\ post \in {"none", "open", "taken"}
    /\ received \in Seq(Metric)
    /\ sent \in Seq(Metric)
    /\ name \in [Metric -> Names]
    /\ fate \in [Metric -> Fates]
    /\ logged \subseteq Metric

Init ==
    /\ ch = <<>>
    /\ metrics = <<>>
    /\ pc = "select"
    /\ groups = <<>>
    /\ body = "closed"
    /\ attempt = 0
    /\ post = "none"
    /\ received = <<>>
    /\ sent = <<>>
    /\ name \in [Metric -> Names]
    /\ fate = [m \in Metric |-> "none"]
    /\ logged = {}

Elements(s) == {s[n] : n \in DOMAIN s}

Settle(S, f) == [m \in Metric |-> IF m \in S THEN f ELSE fate[m]]

-----------------------------------------------------------------------------
(* Plugins.                                                                *)

\* c <- m blocks while the channel is full.  The kafka plugin sends whatever
\* its conversion returns, nil included.
Produce(m) ==
    /\ fate[m] = "none"
    /\ Len(ch) < ChCap
    /\ ch' = Append(ch, m)
    /\ sent' = Append(sent, m)
    /\ fate' = Settle({m}, "pending")
    /\ UNCHANGED <<metrics, pc, groups, body, attempt, post, received, name,
                   logged>>

-----------------------------------------------------------------------------
(* provider.Run.                                                           *)

\* Mutant: newest metrics come first.
ReceiveNewestFirst ==
    /\ pc = "select"
    /\ ch # <<>>
    /\ ch' = Tail(ch)
    /\ metrics' = <<Head(ch)>> \o metrics
    /\ UNCHANGED <<pc, groups, body, attempt, post, received, sent, name, fate,
                   logged>>

\* case m := <-ch: a nil metric is thrown away.
Receive ==
    /\ pc = "select"
    /\ ch # <<>>
    /\ ch' = Tail(ch)
    /\ IF name[Head(ch)] = "nil"
       THEN fate' = Settle({Head(ch)}, "ignored") /\ UNCHANGED metrics
       ELSE metrics' = Append(metrics, Head(ch)) /\ UNCHANGED fate
    /\ UNCHANGED <<pc, groups, body, attempt, post, received, sent, name, logged>>

\* The group a metric goes to; `case "trace":' is empty and does not fall
\* through, so metrics with that name go to none.
GroupOf(m) ==
    CASE name[m] = "trace" -> "none"
      [] name[m] = "span"  -> "trace"
      [] name[m] = "error" -> "error"
      [] OTHER             -> "metrics"

\* The metrics of `in' that go to group g, in the order of `in': the k-th is the
\* one with k positions of the group up to its own.
named(in, g) ==
    LET P == {n \in DOMAIN in : GroupOf(in[n]) = g}
    IN  [k \in 1 .. Cardinality(P) |->
            in[CHOOSE n \in P : Cardinality({q \in P : q <= n}) = k]]

\* ReportClient.group
group(in) == <<named(in, "metrics"), named(in, "trace"), named(in, "error")>>

\* case <-ticker.C with metrics in the buffer: Send begins.
Tick ==
    /\ pc = "select"
    /\ metrics # <<>>
    /\ groups' = group(metrics)
    /\ fate' = Settle({m \in Elements(metrics) : GroupOf(m) = "none"}, "ignored")
    /\ pc' = "send"
    /\ UNCHANGED <<ch, metrics, body, attempt, post, received, sent, name, logged>>

\* Mutant: the buffer is not cleared, as if a send that failed were repeated.
MetricsAfterSendKept == metrics

MetricsAfterSend == <<>>

\* The rest of that case once Send has returned, always with nil.
Finish ==
    /\ pc = "send"
    /\ groups = <<>>
    /\ logged' = logged \cup Elements(metrics)
    /\ metrics' = MetricsAfterSend
    /\ pc' = "select"
    /\ UNCHANGED <<ch, groups, body, attempt, post, received, sent, name, fate>>

-----------------------------------------------------------------------------
(* ReportClient.Send: for each group, serialize and up to Retry writes.    *)

\* `continue' for a group with no metrics.
SkipEmpty ==
    /\ pc = "send"
    /\ groups # <<>>
    /\ Head(groups) = <<>>
    /\ groups' = Tail(groups)
    /\ UNCHANGED <<ch, metrics, pc, body, attempt, post, received, sent, name,
                   fate, logged>>

\* serialize: json.Marshal may fail, and then the group is skipped; otherwise
\* the body is the reading end of a pipe, good for one pass.
Serialize ==
    /\ pc = "send"
    /\ groups # <<>>
    /\ Head(groups) # <<>>
    /\ \/ /\ pc' = "write"
          /\ body' = "open"
          /\ attempt' = 0
          /\ UNCHANGED <<groups, fate>>
       \/ /\ fate' = Settle(Elements(Head(groups)), "unencodable")
          /\ groups' = Tail(groups)
          /\ UNCHANGED <<pc, body, attempt>>
    /\ UNCHANGED <<ch, metrics, post, received, sent, name, logged>>

\* Mutant: every retry gets the whole body again.
BodyAfterWriteKept == body

\* HttpClient.Do closes the body of a request, also when it fails.
BodyAfterWrite == "closed"

\* Mutant: the loop retries for ever.
NextAttemptSame == attempt

NextAttempt == attempt + 1

\* Mutant: one round too many.
MoreAttemptsInclusive == attempt <= Retry

MoreAttempts == attempt < Retry

\* write calls HttpClient.Do.
WriteBegins ==
    /\ pc = "write"
    /\ post = "none"
    /\ MoreAttempts
    /\ post' = "open"
    /\ UNCHANGED <<ch, metrics, pc, groups, body, attempt, received, sent, name,
                   fate, logged>>

\* External: the collector has read the whole body, possible only while it has
\* not been read or closed.
CollectorTakes ==
    LET batch == Head(groups)
    IN  /\ post = "open"
        /\ body = "open"
        /\ post' = "taken"
        /\ body' = BodyAfterWrite
        /\ received' = received \o batch
        /\ fate' = Settle(Elements(batch), "delivered")
        /\ UNCHANGED <<ch, metrics, pc, groups, attempt, sent, name, logged>>

\* Do returns, if it ever does: with a 2xx answer (`ok') only if the collector
\* took the batch; otherwise with another status or an error, taken or not.
WriteReturns(ok) ==
    /\ post # "none"
    /\ ok => post = "taken"
    /\ post' = "none"
    /\ body' = BodyAfterWrite
    /\ IF ok
       THEN pc' = "send" /\ groups' = Tail(groups) /\ UNCHANGED attempt
       ELSE attempt' = NextAttempt /\ UNCHANGED <<pc, groups>>
    /\ UNCHANGED <<ch, metrics, received, sent, name, fate, logged>>

\* Mutant: Send ends with the first group that fails.
GiveUpEndsSend ==
    /\ pc = "write"
    /\ post = "none"
    /\ attempt = Retry
    /\ fate' = Settle({m \in Elements(Head(groups)) : fate[m] = "pending"},
                      "undelivered")
    /\ groups' = <<>>
    /\ pc' = "send"
    /\ UNCHANGED <<ch, metrics, body, attempt, post, received, sent, name, logged>>

\* The retry loop ends without success and Send goes on.
GiveUp ==
    /\ pc = "write"
    /\ post = "none"
    /\ attempt = Retry
    /\ fate' = Settle({m \in Elements(Head(groups)) : fate[m] = "pending"},
                      "undelivered")
    /\ groups' = Tail(groups)
    /\ pc' = "send"
    /\ UNCHANGED <<ch, metrics, body, attempt, post, received, sent, name, logged>>

-----------------------------------------------------------------------------

Next ==
    \/ \E m \in Metric : Produce(m)
    \/ Receive
    \/ Tick
    \/ Finish
    \/ SkipEmpty
    \/ Serialize
    \/ WriteBegins
    \/ CollectorTakes
    \/ \E ok \in BOOLEAN : WriteReturns(ok)
    \/ GiveUp

Spec == Init /\ [][Next]_vars

\* Run's goroutine is scheduled and the ticker fires.  Nothing makes the
\* collector take or answer a post: WriteReturns has no fairness.
Fairness ==
    /\ WF_vars(Receive)
    /\ WF_vars(Tick)
    /\ WF_vars(Finish)
    /\ WF_vars(SkipEmpty)
    /\ WF_vars(Serialize)
    /\ WF_vars(WriteBegins)
    /\ WF_vars(GiveUp)

FairSpec == Spec /\ Fairness

-----------------------------------------------------------------------------
(* Properties.                                                             *)

Occurs(m, s) == Cardinality({n \in DOMAIN s : s[n] = m})

\* How often a metric is still waiting: in the channel, in a buffer that is not
\* being sent, or in a group that Send has not finished with.
Waiting(m) ==
    Occurs(m, ch)
    + (IF pc = "select" THEN Occurs(m, metrics) ELSE 0)
    + Cardinality({g \in DOMAIN groups : Occurs(m, groups[g]) > 0})

\* A metric not yet settled waits in exactly one place, and a settled one waits
\* only in the group that is being posted or retried: groups that fail, are not
\* encoded or are empty neither lose nor repeat what is in the others.
WaitsOnce ==
    \A m \in Metric :
        /\ fate[m] = "pending" => Waiting(m) = 1
        /\ Waiting(m) > 0 /\ fate[m] # "pending" =>
               pc = "write" /\ fate[m] = "delivered" /\ Occurs(m, Head(groups)) = 1

\* The collector takes no metric twice, also when a post that it took is
\* answered with an error and retried.
TakenOnce == \A m \in Metric : Occurs(m, received) <= 1

\* Metrics of one group reach the collector in the order the plugins sent them,
\* across batches and failed posts.
TakenInOrder ==
    \A i, j \in DOMAIN received :
        i < j /\ GroupOf(received[i]) = GroupOf(received[j]) =>
            \E k, l \in DOMAIN sent :
                k < l /\ sent[k] = received[i] /\ sent[l] = received[j]

Settled(ends) == {m \in Metric : fate[m] \in ends}

D == INSTANCE Delivery WITH
        Item <- Metric,
        pending <- Settled({"pending"}),
        delivered <- Settled({"delivered"}),
        lost <- Settled({"ignored", "unencodable", "undelivered"})

\* Controller and client implement the at-most-once stage.
RefinesDelivery == D!Spec

\* Every metric a plugin sends is settled, unless some post never returns: posts
\* that fail delay a batch and those behind it and do not stop them, and only a
\* silent collector can hold up Run, and with it the plugins, for ever.
EveryMetricSettles ==
    \A m \in Metric :
        fate[m] = "pending" ~> (fate[m] # "pending" \/ [](post # "none"))

\* "send %d metric to %s collector success" is not logged for a metric whose
\* posts all failed.  Send returns nil whatever it met, so the code logs it.
SuccessMeansTaken == logged \cap Settled({"undelivered"}) = {}

=============================================================================
