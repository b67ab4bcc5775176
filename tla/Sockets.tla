------------------------------- MODULE Sockets -------------------------------
(* The sockets of the proxy process, shared by the reactor's components.   *)
EXTENDS Integers

CONSTANTS Clients,     \* client sockets
          SourceOf,    \* the kind of server each of them connects to
          Listeners,   \* listening sockets
          ListenerOf,  \* the server each of them belongs to
          MaxClients,  \* the connection limit of each server
          Downloads,   \* sockets connected to remote servers
          Hosts,       \* (host, port) pairs of remote servers
          NoClient, NoDownload

Sources == {"proxy", "web", "icap", "tls", "passthrough"}

ASSUME SocketsAssumption ==
    /\ SourceOf \in [Clients -> Sources]
    /\ ListenerOf \in [Listeners -> Sources]
    /\ MaxClients \in [Sources -> Nat \ {0}]
    /\ Hosts # {}
    /\ NoClient \notin Clients
    /\ NoDownload \notin Downloads
=============================================================================
