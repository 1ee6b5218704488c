---------------------------- MODULE MCGatewayLink ----------------------------
EXTENDS GatewayLink, FiniteSetsExt

\* Bound: the value of a template varies, with the transactions in it, on the
\* node's last block only.
ValueVaries == tip < MaxTip /\ pass'.pc = "wait" => pass'.value = Max(Value)

MCSpec == Init /\ [][Next /\ ValueVaries]_vars /\ Fairness
=============================================================================
