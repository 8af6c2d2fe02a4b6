------------------------------ MODULE MCSession ------------------------------
EXTENDS Session

\* No hint, nothing to wait for, and a long one.
MCRetryAfters == {NoHint, 0, 50}

\* One error of each kind that with_retry tells apart, and an aborting one besides
\* the escalated one.
MCRaised == {"ToolTimeoutError", "ToolConnectionError", "LLMRateLimitError",
             "ToolExecutionError", "IndexStaleError", Foreign}
=============================================================================
