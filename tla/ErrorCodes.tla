----------------------------- MODULE ErrorCodes -----------------------------
(***************************************************************************)
(* The registry of error codes and what the HTTP error handler makes of an *)
(* error.  A code keeps what a client acts on: its number, its status and  *)
(* its declared behaviour.  Titles, i18n keys, the URL of the type, the    *)
(* trace and the time of the envelope are formatting.                      *)
(***************************************************************************)
EXTENDS Naturals, FiniteSets

NoStatus == 0   \* null: the code is not sent over HTTP
NoDelay == 0    \* null: the code declares no retry_after_s

Category(number) ==
    CASE number \in 1000..1999 -> "VALIDATION"
      [] number \in 2000..2999 -> "AUTHN_AUTHZ"
      [] number \in 3000..3999 -> "DECISION_DENY"
      [] number \in 4000..4999 -> "STATE_CONFLICT"
      [] number \in 5000..5999 -> "DEPENDENCY"
      [] number \in 6000..6999 -> "INDETERMINATE"
      [] number \in 9000..9999 -> "INTERNAL"

Retryable == {"never", "safe_if_idempotent", "conditional", "after_reconcile"}
FinancialEffect == {"none", "unknown", "possible_partial"}
HumanAction == {"none", "approve", "step_up", "contact_support"}
AgentHint == {"NONE", "FIX_AND_RETRY", "RETRY_WITH_BACKOFF", "REQUEST_HUMAN_APPROVAL",
              "REQUEST_STEP_UP", "WAIT_FOR_SETTLEMENT", "ABORT_AND_REPORT"}

Code(domain, number, status, retryable, effect, human, hint, after) ==
    [domain |-> domain, number |-> number, category |-> Category(number),
     status |-> status, retryable |-> retryable, effect |-> effect, human |-> human,
     hint |-> hint, after |-> after]

Never(domain, number, status, human, hint) ==
    Code(domain, number, status, "never", "none", human, hint, NoDelay)
Fix(number, status) == Never("CORE", number, status, "none", "FIX_AND_RETRY")
Backoff(domain, number, status, after) ==
    Code(domain, number, status, "safe_if_idempotent", "none", "none",
         "RETRY_WITH_BACKOFF", after)

Validation == [
    MALFORMED_REQUEST_BODY          |-> Fix(1001, 400),
    SCHEMA_VALIDATION_FAILED        |-> Fix(1002, 422),
    UNSUPPORTED_MEDIA_TYPE          |-> Fix(1003, 415),
    IDEMPOTENCY_KEY_REQUIRED        |-> Fix(1004, 400),
    INVALID_MONEY_AMOUNT_OR_CURRENCY |-> Fix(1005, 422),
    UNKNOWN_CANONICAL_FIELD         |-> Fix(1006, 422)]

Authorization == [
    CREDENTIALS_MISSING   |-> Never("CORE", 2001, 401, "none", "NONE"),
    CREDENTIALS_INVALID_OR_EXPIRED |-> Never("CORE", 2002, 401, "none", "NONE"),
    INSUFFICIENT_SCOPE    |-> Never("CORE", 2003, 403, "contact_support", "NONE"),
    MTLS_REQUIRED         |-> Never("CORE", 2004, 401, "contact_support", "NONE"),
    SPEND_CAP_EXCEEDED    |-> Never("CORE", 2005, 403, "contact_support", "NONE")]

StateConflict == [
    IDEMPOTENCY_KEY_REUSED_WITH_DIFFERENT_PAYLOAD |-> Never("CORE", 4001, 409, "none", "NONE"),
    IDEMPOTENT_REQUEST_IN_PROGRESS |-> Backoff("CORE", 4002, 409, NoDelay),
    RESOURCE_STATE_CONFLICT |->
        Code("CORE", 4003, 409, "conditional", "none", "none", "NONE", NoDelay),
    OPTIMISTIC_LOCK_FAILED  |-> Backoff("CORE", 4004, 409, NoDelay),
    PAYMENT_REQUIRED        |->
        Code("PAYMENT", 4020, 402, "conditional", "none", "none", "REQUEST_STEP_UP", NoDelay),
    PAYMENT_FAILED          |->
        Code("PAYMENT", 4022, 402, "conditional", "none", "contact_support",
             "ABORT_AND_REPORT", NoDelay)]

Dependency == [
    DEPENDENCY_UNAVAILABLE  |-> Backoff("CORE", 5001, 502, NoDelay),
    DEPENDENCY_TIMEOUT      |->
        Code("CORE", 5002, 504, "safe_if_idempotent", "unknown", "none",
             "ABORT_AND_REPORT", NoDelay),
    RATE_LIMITED            |-> Backoff("CORE", 5003, 429, 60),
    AI_SERVICE_UNAVAILABLE  |-> Backoff("CORE", 5005, 503, 30),
    SERVICE_UNAVAILABLE     |-> Backoff("CORE", 5004, 503, NoDelay),
    OUTCOME_INDETERMINATE   |->
        Code("CORE", 6001, 409, "after_reconcile", "unknown", "none",
             "WAIT_FOR_SETTLEMENT", NoDelay)]

PaymentDenial == [
    PAYMENT_QUOTE_NOT_FOUND          |-> Never("PAYMENT", 3001, 404, "none", "NONE"),
    PAYMENT_QUOTE_EXPIRED            |-> Never("PAYMENT", 3002, 409, "none", "FIX_AND_RETRY"),
    PAYMENT_PRINCIPAL_NOT_AUTHORIZED |-> Never("PAYMENT", 3003, 403, "contact_support", "NONE"),
    PAYMENT_TRANSACTION_MISMATCH     |-> Never("PAYMENT", 3004, 409, "none", "NONE"),
    PAYMENT_INTENT_NOT_FOUND         |-> Never("PAYMENT", 3005, 404, "none", "NONE")]

Wallet == [
    WALLET_NOT_CONNECTED        |-> Never("WALLET", 3001, 409, "none", "FIX_AND_RETRY"),
    WALLET_NOT_AVAILABLE        |-> Never("WALLET", 3002, 409, "contact_support", "NONE"),
    WALLET_CONNECTION_REJECTED  |-> Never("WALLET", 3003, 403, "none", "NONE"),
    WALLET_PROVIDER_UNAVAILABLE |-> Backoff("WALLET", 5001, 502, NoDelay)]

Internal == [
    UNHANDLED_INTERNAL_ERROR |->
        Code("CORE", 9001, 500, "never", "unknown", "contact_support",
             "ABORT_AND_REPORT", NoDelay),
    INVALID_CONFIGURATION_AT_STARTUP |->
        Never("CORE", 9002, NoStatus, "contact_support", "ABORT_AND_REPORT")]

Tables == {Validation, Authorization, StateConflict, Dependency, PaymentDenial, Wallet,
           Internal}
ErrorCode == UNION {DOMAIN table : table \in Tables}
errorCodes == [name \in ErrorCode |->
    (CHOOSE table \in Tables : name \in DOMAIN table)[name]]

\* defineErrorCode throws, and the server does not start, unless every entry passes.
DefineErrorCode(c) ==
    /\ c.status = NoStatus \/ c.status \in 400..599
    /\ c.number \in 1000..6999 \cup 9000..9999
    /\ c.after \in Nat
    /\ c.retryable \in Retryable /\ c.effect \in FinancialEffect
    /\ c.human \in HumanAction /\ c.hint \in AgentHint

ASSUME RegistryAssumption ==
    /\ \A name \in ErrorCode : DefineErrorCode(errorCodes[name])
    /\ \A name, other \in ErrorCode :
        /\ errorCodes[name].domain = errorCodes[other].domain
        /\ errorCodes[name].number = errorCodes[other].number
        => name = other

\* An AppError is built of a code that can be sent: the constructor throws for others.
Emittable == {name \in ErrorCode : errorCodes[name].status # NoStatus}

\* The errors of the services, by class; a NotFoundError is a state conflict.
AppError == [
    NotFoundError                  |-> "RESOURCE_STATE_CONFLICT",
    PaymentRequiredError           |-> "PAYMENT_REQUIRED",
    PaymentFailedError             |-> "PAYMENT_FAILED",
    InsufficientScopeError         |-> "INSUFFICIENT_SCOPE",
    SpendCapExceededError          |-> "SPEND_CAP_EXCEEDED",
    AIServiceUnavailableError      |-> "AI_SERVICE_UNAVAILABLE",
    WalletNotConnectedError        |-> "WALLET_NOT_CONNECTED",
    WalletNotAvailableError        |-> "WALLET_NOT_AVAILABLE",
    WalletConnectionRejectedError  |-> "WALLET_CONNECTION_REJECTED",
    WalletProviderUnavailableError |-> "WALLET_PROVIDER_UNAVAILABLE"]

\* An error that is neither an AppError nor a ZodError, by its statusCode.  The code
\* of a 400 is told apart from others by whether it is about JSON.
ClassifyHttpError(statusCode, aboutJson) ==
    CASE statusCode = 415 -> "UNSUPPORTED_MEDIA_TYPE"
      [] statusCode = 429 -> "RATE_LIMITED"
      [] statusCode = 503 -> "AI_SERVICE_UNAVAILABLE"
      [] statusCode = 400 /\ aboutJson -> "MALFORMED_REQUEST_BODY"
      [] OTHER -> "UNHANDLED_INTERNAL_ERROR"

\* What the error handler answers an error with: [kind |-> ...] and its code or status.
Problem(error) ==
    CASE error.kind = "app" -> error.code
      [] error.kind = "zod" -> "SCHEMA_VALIDATION_FAILED"
      [] error.kind = "http" -> ClassifyHttpError(error.status, error.json)

Thrown(class) == Problem([kind |-> "app", code |-> AppError[class]])
ThrownCode(code) == Problem([kind |-> "app", code |-> code])
Limited == Problem([kind |-> "http", status |-> 429, json |-> FALSE])
Unhandled == Problem([kind |-> "http", status |-> 500, json |-> FALSE])
Invalid == Problem([kind |-> "zod"])

\* The fields of the envelope and its headers that a client acts on.
AgentHintOf(code) == errorCodes[code].hint
RetryAfter(code) == errorCodes[code].after
=============================================================================
