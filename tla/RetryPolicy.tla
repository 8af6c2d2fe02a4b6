----------------------------- MODULE RetryPolicy -----------------------------
(***************************************************************************)
(* The error taxonomy of orchestrator/errors.py and the delays of          *)
(* orchestrator/retry.py.                                                  *)
(***************************************************************************)
EXTENDS Integers

CONSTANTS
  BaseDelay,      \* base_delay of with_retry
  MaxDelay,       \* max_delay
  RetryAfters     \* values of retry_after, NoHint for None

NoHint == -1

ASSUME DelayAssumption ==
  /\ BaseDelay \in Nat /\ MaxDelay \in Nat
  /\ RetryAfters \subseteq Nat \cup {NoHint}

Retried == {"SchemaViolationError", "ToolError", "ToolTimeoutError", "ToolConnectionError", "LLMError",
            "LLMUnavailableError", "LLMRateLimitError", "ValidationFailedError", "ReviewRejectedError"}
Escalated == {"AgentError", "ToolExecutionError", "LLMBudgetExceededError", "MaxIterationsExceededError",
              "EscalationRequestedError"}
Aborted == {"PreflightError", "IndexStaleError", "RoleForbiddenError", "PersistenceError"}
AgentErrors == Retried \cup Escalated \cup Aborted

\* An exception of another class: what the z-ai call raises, for one.
Foreign == "other"
Errors == AgentErrors \cup {Foreign}

Capped(d) == IF d > MaxDelay THEN MaxDelay ELSE d

\* 2 ** n
Power2[n \in Nat] == IF n = 0 THEN 1 ELSE 2 * Power2[n - 1]

\* _compute_delay before the attempt after the given one.
compute_delay(e, attempt, hint) ==
  CASE e = "LLMRateLimitError" -> Capped(IF hint = NoHint THEN BaseDelay ELSE hint)
    [] e = "ToolConnectionError" -> Capped(BaseDelay * attempt)
    [] OTHER -> Capped(BaseDelay * Power2[attempt - 1])

=============================================================================
