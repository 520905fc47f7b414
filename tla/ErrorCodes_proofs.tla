-------------------------- MODULE ErrorCodes_proofs --------------------------
(***************************************************************************)
(* Lemmas about the registry of ErrorCodes: what the codes are that the    *)
(* agent routes answer with, and what they tell a client.                  *)
(***************************************************************************)
EXTENDS ErrorCodes, TLAPS

\* The names in the tables of the registry.
LEMMA Domains ==
    /\ DOMAIN Validation =
        {"MALFORMED_REQUEST_BODY", "SCHEMA_VALIDATION_FAILED", "UNSUPPORTED_MEDIA_TYPE",
         "IDEMPOTENCY_KEY_REQUIRED", "INVALID_MONEY_AMOUNT_OR_CURRENCY",
         "UNKNOWN_CANONICAL_FIELD"}
    /\ DOMAIN Authorization =
        {"CREDENTIALS_MISSING", "CREDENTIALS_INVALID_OR_EXPIRED", "INSUFFICIENT_SCOPE",
         "MTLS_REQUIRED", "SPEND_CAP_EXCEEDED"}
    /\ DOMAIN StateConflict =
        {"IDEMPOTENCY_KEY_REUSED_WITH_DIFFERENT_PAYLOAD", "IDEMPOTENT_REQUEST_IN_PROGRESS",
         "RESOURCE_STATE_CONFLICT", "OPTIMISTIC_LOCK_FAILED", "PAYMENT_REQUIRED",
         "PAYMENT_FAILED"}
    /\ DOMAIN Dependency =
        {"DEPENDENCY_UNAVAILABLE", "DEPENDENCY_TIMEOUT", "RATE_LIMITED",
         "AI_SERVICE_UNAVAILABLE", "SERVICE_UNAVAILABLE", "OUTCOME_INDETERMINATE"}
    /\ DOMAIN PaymentDenial =
        {"PAYMENT_QUOTE_NOT_FOUND", "PAYMENT_QUOTE_EXPIRED",
         "PAYMENT_PRINCIPAL_NOT_AUTHORIZED", "PAYMENT_TRANSACTION_MISMATCH",
         "PAYMENT_INTENT_NOT_FOUND"}
    /\ DOMAIN Wallet =
        {"WALLET_NOT_CONNECTED", "WALLET_NOT_AVAILABLE", "WALLET_CONNECTION_REJECTED",
         "WALLET_PROVIDER_UNAVAILABLE"}
    /\ DOMAIN Internal = {"UNHANDLED_INTERNAL_ERROR", "INVALID_CONFIGURATION_AT_STARTUP"}
BY DEF Validation, Authorization, StateConflict, Dependency, PaymentDenial, Wallet, Internal

\* A code that is in one table only is looked up there.
LEMMA LookUp ==
    ASSUME NEW table \in Tables, NEW name \in DOMAIN table,
           \A other \in Tables : name \in DOMAIN other => other = table
    PROVE  name \in ErrorCode /\ errorCodes[name] = table[name]
<1>1. name \in ErrorCode
  BY DEF ErrorCode
<1>2. (CHOOSE other \in Tables : name \in DOMAIN other) = table
  OBVIOUS
<1> QED
  BY <1>1, <1>2 DEF errorCodes

\* The codes that the agent routes answer with, each in its table.
LEMMA Found ==
    /\ \A name \in {"SPEND_CAP_EXCEEDED", "INSUFFICIENT_SCOPE", "CREDENTIALS_MISSING"} :
        name \in ErrorCode /\ errorCodes[name] = Authorization[name]
    /\ \A name \in {"PAYMENT_REQUIRED", "PAYMENT_FAILED", "RESOURCE_STATE_CONFLICT"} :
        name \in ErrorCode /\ errorCodes[name] = StateConflict[name]
    /\ \A name \in {"RATE_LIMITED", "AI_SERVICE_UNAVAILABLE"} :
        name \in ErrorCode /\ errorCodes[name] = Dependency[name]
    /\ "SCHEMA_VALIDATION_FAILED" \in ErrorCode
    /\ errorCodes["SCHEMA_VALIDATION_FAILED"] = Validation["SCHEMA_VALIDATION_FAILED"]
    /\ "UNHANDLED_INTERNAL_ERROR" \in ErrorCode
    /\ errorCodes["UNHANDLED_INTERNAL_ERROR"] = Internal["UNHANDLED_INTERNAL_ERROR"]
<1>1. ASSUME NEW name \in {"SPEND_CAP_EXCEEDED", "INSUFFICIENT_SCOPE", "CREDENTIALS_MISSING"}
      PROVE  name \in ErrorCode /\ errorCodes[name] = Authorization[name]
  <2>1. \A other \in Tables : name \in DOMAIN other => other = Authorization
    BY Domains DEF Tables
  <2> QED
    BY <2>1, LookUp, Domains DEF Tables
<1>2. ASSUME NEW name \in {"PAYMENT_REQUIRED", "PAYMENT_FAILED", "RESOURCE_STATE_CONFLICT"}
      PROVE  name \in ErrorCode /\ errorCodes[name] = StateConflict[name]
  <2>1. \A other \in Tables : name \in DOMAIN other => other = StateConflict
    BY Domains DEF Tables
  <2> QED
    BY <2>1, LookUp, Domains DEF Tables
<1>3. ASSUME NEW name \in {"RATE_LIMITED", "AI_SERVICE_UNAVAILABLE"}
      PROVE  name \in ErrorCode /\ errorCodes[name] = Dependency[name]
  <2>1. \A other \in Tables : name \in DOMAIN other => other = Dependency
    BY Domains DEF Tables
  <2> QED
    BY <2>1, LookUp, Domains DEF Tables
<1>5. /\ "SCHEMA_VALIDATION_FAILED" \in ErrorCode
      /\ errorCodes["SCHEMA_VALIDATION_FAILED"] = Validation["SCHEMA_VALIDATION_FAILED"]
  <2>1. \A other \in Tables :
            "SCHEMA_VALIDATION_FAILED" \in DOMAIN other => other = Validation
    BY Domains DEF Tables
  <2> QED
    BY <2>1, LookUp, Domains DEF Tables
<1>4. /\ "UNHANDLED_INTERNAL_ERROR" \in ErrorCode
      /\ errorCodes["UNHANDLED_INTERNAL_ERROR"] = Internal["UNHANDLED_INTERNAL_ERROR"]
  <2>1. \A other \in Tables : "UNHANDLED_INTERNAL_ERROR" \in DOMAIN other => other = Internal
    BY Domains DEF Tables
  <2> QED
    BY <2>1, LookUp, Domains DEF Tables
<1> QED
  BY <1>1, <1>2, <1>3, <1>4, <1>5

\* What the error handler makes of the errors of the checkout.
LEMMA ThrownCodes ==
    /\ Thrown("SpendCapExceededError") = "SPEND_CAP_EXCEEDED"
    /\ Thrown("PaymentRequiredError") = "PAYMENT_REQUIRED"
    /\ Thrown("InsufficientScopeError") = "INSUFFICIENT_SCOPE"
    /\ Thrown("PaymentFailedError") = "PAYMENT_FAILED"
    /\ Thrown("NotFoundError") = "RESOURCE_STATE_CONFLICT"
    /\ ThrownCode("RATE_LIMITED") = "RATE_LIMITED"
    /\ Unhandled = "UNHANDLED_INTERNAL_ERROR"
BY DEF Thrown, ThrownCode, Unhandled, Problem, AppError, ClassifyHttpError

\* And of those that only other agent routes meet.
LEMMA RouteCodes ==
    /\ Thrown("AIServiceUnavailableError") = "AI_SERVICE_UNAVAILABLE"
    /\ ThrownCode("CREDENTIALS_MISSING") = "CREDENTIALS_MISSING"
    /\ Limited = "RATE_LIMITED"
    /\ Invalid = "SCHEMA_VALIDATION_FAILED"
<1>1. Thrown("AIServiceUnavailableError") = "AI_SERVICE_UNAVAILABLE"
  BY DEF Thrown, Problem, AppError
<1>2. ThrownCode("CREDENTIALS_MISSING") = "CREDENTIALS_MISSING"
  BY DEF ThrownCode, Problem
<1>3. Limited = "RATE_LIMITED"
  BY DEF Limited, Problem, ClassifyHttpError
<1>4. Invalid = "SCHEMA_VALIDATION_FAILED"
  BY DEF Invalid, Problem
<1> QED
  BY <1>1, <1>2, <1>3, <1>4

\* The delay that a client is told, in seconds.
LEMMA Delays ==
    /\ RetryAfter("RATE_LIMITED") = 60
    /\ RetryAfter("AI_SERVICE_UNAVAILABLE") = 30
    /\ \A code \in {"SCHEMA_VALIDATION_FAILED", "CREDENTIALS_MISSING",
                    "INSUFFICIENT_SCOPE", "UNHANDLED_INTERNAL_ERROR"} :
        RetryAfter(code) = 0
BY Found DEF RetryAfter, Validation, Authorization, Dependency, Internal, Code, Never, Fix,
             Backoff, NoDelay
=============================================================================
