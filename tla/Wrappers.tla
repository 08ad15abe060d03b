------------------------------ MODULE Wrappers ------------------------------
(***************************************************************************)
(* The shape all RPC wrappers of both clients share.                       *)
(*                                                                         *)
(* A wrapper refuses bad arguments of `checks` before its try statement,   *)
(* builds the request inside it from `builds` and `texts`, calls the stub, *)
(* and returns the wrapped reply; what it catches goes to the error        *)
(* handler or is raised as an RpcOperationError.                           *)
(***************************************************************************)
EXTENDS Arguments

Wrapper(rpc, checks, builds, texts) ==
    [rpc |-> rpc,
     checks |-> checks,          \* arguments validated before the try
     builds |-> builds,          \* arguments validated or converted inside it
     texts |-> texts,            \* arguments only passed on
     flags |-> {},               \* arguments only tested, not sent
     catches |-> {"RpcError"},   \* the exceptions of its except clauses
     stops |-> {},               \* the answers that end the claim's heartbeat
     guarded |-> FALSE]          \* it refuses to run on a closed client

OwnershipLost == {"NOT_FOUND", "FAILED_PRECONDITION", "PERMISSION_DENIED"}

Takes(wrapper) == wrapper.checks \cup wrapper.builds \cup wrapper.texts \cup wrapper.flags

=============================================================================
