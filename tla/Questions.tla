------------------------------ MODULE Questions ------------------------------
(***************************************************************************)
(* What the proxy expects of the redirector, whatever is behind it: every  *)
(* question asked on behalf of a client is answered once, in any order.    *)
(* Questions carry nothing but the name of the client, so they are counted.*)
(***************************************************************************)
EXTENDS Naturals

CONSTANT Clients

VARIABLES asked,     \* questions without an answer, per client
          answered   \* answers that the proxy has not read

Init ==
    /\ asked = [c \in Clients |-> 0]
    /\ answered = [c \in Clients |-> 0]

Ask(c) ==
    /\ asked' = [asked EXCEPT ![c] = @ + 1]
    /\ UNCHANGED answered

Answer(c) ==
    /\ asked[c] > 0
    /\ asked' = [asked EXCEPT ![c] = @ - 1]
    /\ answered' = [answered EXCEPT ![c] = @ + 1]

Receive(c) ==
    /\ answered[c] > 0
    /\ answered' = [answered EXCEPT ![c] = @ - 1]
    /\ UNCHANGED asked

Next == \E c \in Clients : Ask(c) \/ Answer(c) \/ Receive(c)

Spec == Init /\ [][Next]_<<asked, answered>>
=============================================================================
