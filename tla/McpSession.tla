----------------------------- MODULE McpSession -----------------------------
(***************************************************************************)
(* One session of tool servers (mcp-runtime.ts): every configured server   *)
(* is started, connected and asked for its tools in turn, every call goes  *)
(* through the alias of a configured tool, and closing takes all down.     *)
(* What a server really does with a call is `effects', which nobody reads. *)
(***************************************************************************)
EXTENDS Naturals, Sequences, FiniteSets

CONSTANTS Server, Configured, Tool, CallId

VARIABLES servers,     \* the process of each server
          starting,    \* how many have been started, in the order of the file
          fired,       \* the AbortSignal handed to everything below
          issued,      \* call ids handed to a server
          effects      \* call ids a server acted upon

session == <<servers, starting, issued, effects>>

SessionInit ==
    /\ servers = [s \in Server |-> "absent"]
    /\ starting = 0 /\ issued = {} /\ effects = {}

Current == Configured[starting]
AllReady == starting = Len(Configured) /\ \A s \in Server : servers[s] = "ready"

\* Pushed on the lists before it is awaited, so that close() knows of it.
StartServer ==
    /\ ~fired
    /\ starting < Len(Configured)
    /\ \A s \in Server : servers[s] # "starting"
    /\ starting' = starting + 1
    /\ servers' = [servers EXCEPT ![Configured[starting + 1]] = "starting"]
    /\ UNCHANGED <<issued, effects>>

\* connect and listTools succeed and every configured tool is there.
ServerReady ==
    /\ starting > 0 /\ servers[Current] = "starting"
    /\ servers' = [servers EXCEPT ![Current] = "ready"]
    /\ UNCHANGED <<starting, issued, effects>>

\* open() gives up: the signal, a connection, a page too many, a missing tool.
OpenFails ==
    \/ fired /\ ~AllReady
    \/ starting > 0 /\ servers[Current] = "starting"

\* close(): the clients are asked, then every transport is closed anyway.
CloseSession ==
    /\ servers' = [s \in Server |-> IF servers[s] = "absent" THEN "absent" ELSE "gone"]
    /\ UNCHANGED <<starting, issued, effects>>

IssueCall(id) == issued' = issued \cup {id} /\ UNCHANGED <<servers, starting, effects>>

\* A server acts on a call it was given, perhaps after the caller gave up.
ServerActs ==
    \E id \in issued \ effects :
        /\ \E s \in Server : servers[s] = "ready"
        /\ effects' = effects \cup {id}
        /\ UNCHANGED <<servers, starting, issued>>

NoServerLeft == \A s \in Server : servers[s] \in {"absent", "gone"}

SessionTypeOK ==
    /\ servers \in [Server -> {"absent", "starting", "ready", "gone"}]
    /\ starting \in 0..Len(Configured)
    /\ effects \subseteq issued /\ issued \subseteq CallId
=============================================================================
