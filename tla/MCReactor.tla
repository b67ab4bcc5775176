----------------------------- MODULE MCReactor -----------------------------
(* Values of the constants of the reactor for model checking.              *)
EXTENDS ReactorProperties, TLC
CONSTANTS c1, c2, c3, c4, c5, c6, c7, l1, l2, l3, l4, l5, l6, d1, d2, d3, h1, h2

\* One client of the proxy server.
OneProxy == c1 :> "proxy"
ProxyListener == l1 :> "proxy"

\* Two clients of the proxy server, two of the icap server, which listens on two
\* sockets, and one of each other server.
EverySource ==
    c1 :> "proxy" @@ c2 :> "proxy" @@ c3 :> "tls" @@ c4 :> "passthrough"
    @@ c5 :> "icap" @@ c6 :> "web" @@ c7 :> "icap"
EveryListener ==
    l1 :> "proxy" @@ l2 :> "tls" @@ l3 :> "passthrough" @@ l4 :> "icap" @@ l6 :> "icap" @@ l5 :> "web"

OneRequest == c1 :> "one"
Answered == c1 :> "answered"
Pipelined == c1 :> "pipelined"

\* The tls and passthrough clients send whenever they are read, the second proxy
\* client never again; the others wait for their answers.
EveryWay ==
    c1 :> "answered" @@ c2 :> "one" @@ c3 :> "pipelined" @@ c4 :> "pipelined"
    @@ c5 :> "answered" @@ c6 :> "answered" @@ c7 :> "one"

\* Downloads are named only to be told apart.
Symmetry == Permutations(Downloads)

OneEach == [s \in Sources |-> 1]
=============================================================================
