------------------------------ MODULE Delivery ------------------------------
(***************************************************************************)
(* What every stage of the agent promises about the observations it        *)
(* carries (an RPC or HTTP exchange, a metric): an observation accepted    *)
(* by the stage is handed on at most once, and it leaves the stage in      *)
(* exactly one of two ways, delivered or lost.  The agent does not promise *)
(* delivery: kernel maps overflow, keys collide and uploads fail, and each *)
(* of these is a Lose.  It promises not to invent, duplicate or resurrect. *)
(***************************************************************************)

CONSTANT Item      \* the identities of observations

VARIABLES pending,    \* accepted and still inside the stage
          delivered,  \* handed to the next stage
          lost        \* dropped by the stage

vars == <<pending, delivered, lost>>

Known == pending \cup delivered \cup lost

Init ==
    /\ pending = {}
    /\ delivered = {}
    /\ lost = {}

\* Take in the new items S; doing so may push out the pending items L (a
\* kernel map entry overwritten by the entry that arrives).
Accept(S, L) ==
    /\ S \cap Known = {}
    /\ L \subseteq pending
    /\ pending' = (pending \ L) \cup S
    /\ lost' = lost \cup L
    /\ UNCHANGED delivered

\* Hand the pending items S to the next stage.
Deliver(S) ==
    /\ S \subseteq pending
    /\ pending' = pending \ S
    /\ delivered' = delivered \cup S
    /\ UNCHANGED lost

\* Drop the pending items S.
Lose(S) ==
    /\ S \subseteq pending
    /\ pending' = pending \ S
    /\ lost' = lost \cup S
    /\ UNCHANGED delivered

Next ==
    \E S \in SUBSET Item :
        \/ \E L \in SUBSET Item : Accept(S, L)
        \/ Deliver(S)
        \/ Lose(S)

Spec == Init /\ [][Next]_vars

=============================================================================
