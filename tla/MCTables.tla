------------------------------ MODULE MCTables ------------------------------
(***************************************************************************)
(* The tables the agent keeps from what the kernel and the cluster tell it *)
(* (SockTrack, NatTable, PodCache, OomWatch) for TLC.  They share no       *)
(* state, so that a property of one of them is about its own steps only: a *)
(* behaviour is of one part, and the others rest in their initial states.  *)
(***************************************************************************)
EXTENDS MCSockTrack, NatTable, PodCache, OomWatch

VARIABLE part

\* Two connections of a client, one after the other, and a DNS query.
MCSourceOf == <<"client", "client", "resolver">>
MCSPort == <<40000, 40000, 40001>>
MCDPort == <<80, 443, 53>>

MCSymmetry ==
    Symmetry \cup Permutations(Context) \cup Permutations(Task) \cup Permutations(UID)

TablesInit ==
    /\ part \in {"sockets", "nat", "pods", "services", "processes", "kills"}
    /\ Init
    /\ NatInit
    /\ PodInit(IF part = "services" THEN {"services"} ELSE {"pods"})
    /\ OomInit

TablesNext ==
    \/ /\ part = "sockets"
       /\ Next
       /\ UNCHANGED <<part, natVars, podVars, oomVars>>
    \/ /\ part = "nat"
       /\ NatProbes \/ NatGather
       /\ UNCHANGED <<part, vars, podVars, oomVars>>
    \/ /\ part = "pods"
       /\ PodsNext \/ RefreshLoop
       /\ UNCHANGED <<part, vars, natVars, oomVars>>
    \/ /\ part = "services"
       /\ ServicesNext \/ RefreshLoop
       /\ UNCHANGED <<part, vars, natVars, oomVars>>
    \/ /\ part = "processes"
       /\ Lives \/ ProcNext
       /\ UNCHANGED <<part, vars, natVars, podVars>>
    \/ /\ part = "kills"
       /\ Lives \/ KillNext
       /\ UNCHANGED <<part, vars, natVars, podVars>>

TablesSpec ==
    TablesInit /\ [][TablesNext]_<<part, vars, natVars, podVars, oomVars>>

=============================================================================
