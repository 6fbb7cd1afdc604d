--------------------------- MODULE MCErpcSession ----------------------------
(* Instance of ErpcSession for TLC: a request of two packets, a response of   *)
(* two packets, and a request and response of one packet each.                *)
EXTENDS ErpcSession

TwoReqPkts == [r \in Req |-> IF r = 1 THEN 2 ELSE 1]
TwoRespPkts == [r \in Req |-> IF r = 2 THEN 2 ELSE 1]
=============================================================================
