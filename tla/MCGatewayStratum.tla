-------------------------- MODULE MCGatewayStratum --------------------------
(* Connections of one source; a pooled gateway whose difficulty moves, and a *)
(* solo one whose difficulty does not.  A pooled gateway serves one name.    *)
EXTENDS GatewayStratum

MCIpOf == [c \in Conn |-> CHOOSE ip \in Ip : TRUE]

GwCfg(kind, max, jobs, names) ==
  [mode |-> kind, vardiff_min |-> 1, vardiff_start |-> max, vardiff_max |-> max,
   vardiff_step |-> 2, jobs |-> jobs, names |-> names]

Pooled == {GwCfg("pooled", 2, 2, {i}) : i \in Ident}
Solo   == {GwCfg("solo", 1, 2, Ident)}
Both   == Pooled \cup Solo

Symmetric == Permutations(Conn) \cup Permutations(Ident)
=============================================================================
