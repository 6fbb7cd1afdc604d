----------------------------- MODULE RpcService -----------------------------
(***************************************************************************)
(* What a session of the RPC layer promises the threads that use it: every *)
(* request given to enqueue_request is executed by the request handler of  *)
(* the other side at most once, with the payload it was sent with, and its *)
(* continuation runs at most once, after the execution, with the response  *)
(* to this request.                                                        *)
(***************************************************************************)
EXTENDS Naturals

CONSTANTS
    Req,        \* requests: the calls of enqueue_request
    NoReq       \* a payload or a response that is of no request

VARIABLES
    issued,     \* requests given to enqueue_request
    executed,   \* how many times the handler ran for each payload
    answer      \* the request whose response each continuation was given

vars == <<issued, executed, answer>>

Init ==
    /\ issued = {}
    /\ executed = [r \in Req \cup {NoReq} |-> 0]
    /\ answer = [r \in Req |-> NoReq]

Issue(r) ==
    /\ r \notin issued
    /\ issued' = issued \cup {r}
    /\ UNCHANGED <<executed, answer>>

Execute(r) ==
    /\ r \in issued
    /\ executed[r] = 0
    /\ executed' = [executed EXCEPT ![r] = 1]
    /\ UNCHANGED <<issued, answer>>

Answer(r) ==
    /\ executed[r] = 1
    /\ answer[r] = NoReq
    /\ answer' = [answer EXCEPT ![r] = r]
    /\ UNCHANGED <<issued, executed>>

Next == \E r \in Req : Issue(r) \/ Execute(r) \/ Answer(r)

Spec == Init /\ [][Next]_vars

=============================================================================
