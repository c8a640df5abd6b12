--------------------------- MODULE MCHealthChecker ---------------------------
(* Values of the constants of HealthChecker for TLC.                        *)
EXTENDS HealthChecker, TLC

CONSTANTS i1, a1, a2

MCHome == [id \in Ids |-> a1]

MCNetworks == SUBSET Addrs

At(addr) == [id |-> i1, addr |-> addr, on |-> TRUE]

\* One server or none; an interval that works or one that does not.
MCDocuments ==
    {[servers |-> <<At(a1)>>, interval |-> 1, failures |-> 2],
     [servers |-> <<>>, interval |-> 0, failures |-> 1]}

\* No server, one, or one that is in the list twice.
MCDoubles ==
    {[servers |-> list, interval |-> 1, failures |-> 2] :
       list \in {<<>>, <<At(a1)>>, <<At(a1), At(a1)>>}}

MCEdits == [addr : Addrs, on : BOOLEAN]
==============================================================================
