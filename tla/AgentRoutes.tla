----------------------------- MODULE AgentRoutes -----------------------------
(***************************************************************************)
(* What every /v1/agent/ route does before its use case runs.  Fastify     *)
(* validates the body before the handler; the handler then wants a bearer  *)
(* token and asks Redis for its scopes.                                    *)
(*                                                                         *)
(* A call is a record with the fields body ("valid" or "invalid") and      *)
(* token ("scoped", "unscoped" or "missing").                              *)
(***************************************************************************)
EXTENDS ErrorCodes

Calls == [body : {"valid", "invalid"}, token : {"scoped", "unscoped", "missing"}]
Accepted == "ACCEPTED"

\* registerValidatorCompiler, then requireAgentToken: both before the first await.
Entry(call) ==
    CASE call.body = "invalid" -> Invalid
      [] call.body = "valid" /\ call.token = "missing" -> ThrownCode("CREDENTIALS_MISSING")
      [] OTHER -> Accepted

\* verifyAgentScope, when Redis answers it or fails.
Scope(call, redis) ==
    CASE redis = "fails" -> Unhandled
      [] redis = "answers" /\ call.token = "unscoped" -> Thrown("InsufficientScopeError")
      [] OTHER -> Accepted
=============================================================================
