---------------------------- MODULE SessionProofs ----------------------------
(***************************************************************************)
(* What a session leaves behind, and what with_retry does, for any number  *)
(* of calls and attempts and any delays, whichever calls fail and wherever *)
(* the session is cancelled.                                               *)
(***************************************************************************)
EXTENDS Session, SequenceTheorems, WellFoundedInduction, TLAPS

-----------------------------------------------------------------------------
(* The inductive invariant *)

\* A connection is none, or as CloseSaver and the database leave it.
PlaceInv ==
  /\ pc \in {"start", "inside"} \cup Awaits \cup Ended
  /\ conn \in {"none", "open", "lost", "given up"}

\* A cancelled session is over: whatever still runs was cancelled nowhere.
CancelInv == pc \notin Ended => cancelled = Nowhere

\* A process that was killed is over while it is waited for.
ReapInv == pc = "reaping" => child = "exited"

SessionInv == PlaceInv /\ CancelInv /\ ReapInv /\ NothingIsLeftBehind

-----------------------------------------------------------------------------
(* Closing *)

\* _close_saver_cm, successful or not, holds no connection afterwards.
LEMMA Closed == CloseSaver => conn' \in {"none", "given up"}
  BY DEF CloseSaver

\* An exception, and the end of the with block, leave the session closed, and
\* what the call holds as the handler has left it.
LEMMA LeaveStep ==
  ASSUME SessionInv, NEW end \in Ended, Leave(end), UNCHANGED cancelled,
         pc \notin Ended,
         \/ child' # "running" /\ file' = "none"
         \/ pc \notin {"cli", "reaping"} /\ UNCHANGED llmVars
  PROVE  SessionInv'
<1>1. pc' = end /\ conn' \in {"none", "given up"}
  BY Closed DEF Leave
<1>2. (PlaceInv /\ CancelInv /\ ReapInv /\ ConnectionIsClosed)'
  BY <1>1 DEF PlaceInv, CancelInv, ReapInv, ConnectionIsClosed, Ended
<1>3. CallLeavesNothing'
  BY <1>1 DEF SessionInv, NothingIsLeftBehind, CallLeavesNothing, llmVars
<1> QED
  BY <1>2, <1>3 DEF SessionInv, NothingIsLeftBehind

\* A step from one place of the running session to another, with what a call
\* holds unchanged, outside of calls that hold something.
LEMMA MoveStep ==
  ASSUME SessionInv, pc \notin Ended \cup {"cli", "reaping"},
         pc' \in ({"start", "inside"} \cup Awaits) \ {"cli", "reaping"},
         conn' \in {"none", "open", "lost", "given up"},
         UNCHANGED <<llmVars, cancelled>>
  PROVE  SessionInv'
  BY DEF SessionInv, PlaceInv, CancelInv, ReapInv, NothingIsLeftBehind, ConnectionIsClosed,
         CallLeavesNothing, Ended, Awaits, llmVars

-----------------------------------------------------------------------------
(* Steps *)

\* PersistenceManager: entering, leaving, health_check.
LEMMA ManagerStep == SessionInv /\ Manager => SessionInv'
<1> SUFFICES ASSUME SessionInv, Manager PROVE SessionInv'
  OBVIOUS
<1>1. conn \in {"none", "open", "lost", "given up"}
  BY DEF SessionInv, PlaceInv
<1>2. CASE EnterMemory
  BY <1>1, <1>2, MoveStep DEF EnterMemory, Ended, llmVars
<1>3. CASE EnterPostgres
  BY <1>1, <1>3, MoveStep DEF EnterPostgres, pmVars, Ended, Awaits
<1>4. CASE Connect
  <2>1. CASE conn' = "open" /\ pc' = "setup"
    BY <1>4, <2>1, MoveStep DEF Connect, Ended, Awaits
  <2>2. CASE conn' = "none" /\ pc' = "failed"
    BY <1>4, <2>2 DEF Connect, SessionInv, PlaceInv, CancelInv, ReapInv, NothingIsLeftBehind,
                      ConnectionIsClosed, CallLeavesNothing, Ended, llmVars
  <2> QED
    BY <1>4, <2>1, <2>2 DEF Connect
<1>5. CASE Setup
  <2>1. CASE pc' = "inside" /\ UNCHANGED conn
    BY <1>1, <1>5, <2>1, MoveStep DEF Setup, Ended
  <2>2. CASE CloseSaver /\ pc' = "failed"
    BY <1>5, <2>2, Closed DEF Setup, SessionInv, PlaceInv, CancelInv, ReapInv, NothingIsLeftBehind,
                              ConnectionIsClosed, CallLeavesNothing, Ended, llmVars
  <2> QED
    BY <1>5, <2>1, <2>2 DEF Setup
<1>6. CASE Exit
  BY <1>6, LeaveStep DEF Exit, Ended
<1>7. CASE CheckHealth
  BY <1>1, <1>7, MoveStep DEF CheckHealth, pmVars, Ended, Awaits
<1>8. CASE HealthKnown
  BY <1>1, <1>8, MoveStep DEF HealthKnown, pmVars, Ended
<1> QED
  BY <1>2, <1>3, <1>4, <1>5, <1>6, <1>7, <1>8 DEF Manager

\* with_retry holds nothing of its own.
LEMMA RetryStep == SessionInv /\ Retry => SessionInv'
<1> SUFFICES ASSUME SessionInv, Retry PROVE SessionInv'
  OBVIOUS
<1>1. conn \in {"none", "open", "lost", "given up"}
  BY DEF SessionInv, PlaceInv
<1>2. CASE StartRetry
  <2>1. pc = "inside" /\ UNCHANGED <<llmVars, cancelled>>
    BY <1>2 DEF StartRetry
  <2>2. Raise \/ (pc' = "trying" /\ UNCHANGED conn)
    BY <1>2 DEF StartRetry
  <2> QED
    BY <1>1, <2>1, <2>2, MoveStep, LeaveStep DEF Raise, Ended, Awaits
<1>3. CASE Succeeds
  BY <1>1, <1>3, MoveStep DEF Succeeds, pmVars, Ended
<1>4. CASE Fails
  <2>1. pc = "trying" /\ UNCHANGED <<llmVars, cancelled>>
    BY <1>4 DEF Fails
  <2>2. Raise \/ (pc' = "sleeping" /\ UNCHANGED conn)
    BY <1>4 DEF Fails
  <2> QED
    BY <1>1, <2>1, <2>2, MoveStep, LeaveStep DEF Raise, Ended, Awaits
<1>5. CASE Sleep
  BY <1>1, <1>5, MoveStep DEF Sleep, pmVars, Ended, Awaits
<1> QED
  BY <1>2, <1>3, <1>4, <1>5 DEF Retry

\* A z-ai call: its process is over and its file unlinked when it returns or raises.
LEMMA LlmStep == SessionInv /\ Llm => SessionInv'
<1> SUFFICES ASSUME SessionInv, Llm PROVE SessionInv'
  OBVIOUS
<1>1. CASE StartCli
  <2>1. pc = "inside" /\ UNCHANGED cancelled
    BY <1>1 DEF StartCli
  <2>2. CASE pc' = "cli" /\ UNCHANGED conn
    BY <2>1, <2>2 DEF SessionInv, PlaceInv, CancelInv, ReapInv, NothingIsLeftBehind,
                      ConnectionIsClosed, CallLeavesNothing, Ended, Awaits
  <2>3. CASE UNCHANGED llmVars /\ Raise
    BY <2>1, <2>3, LeaveStep DEF Raise, Ended
  <2> QED
    BY <1>1, <2>2, <2>3 DEF StartCli
<1>2. CASE CliAnswers
  <2>1. pc = "cli" /\ child' = "none" /\ file' = "none" /\ UNCHANGED cancelled
    BY <1>2 DEF CliAnswers, Unlink
  <2>2. CASE pc' = "inside" /\ UNCHANGED conn
    BY <2>1, <2>2 DEF SessionInv, PlaceInv, CancelInv, ReapInv, NothingIsLeftBehind,
                      ConnectionIsClosed, CallLeavesNothing, Ended
  <2>3. CASE Raise
    BY <2>1, <2>3, LeaveStep DEF Raise, Ended
  <2> QED
    BY <1>2, <2>2, <2>3 DEF CliAnswers
<1>3. CASE CliTimesOut
  BY <1>3 DEF CliTimesOut, Kill, SessionInv, PlaceInv, CancelInv, ReapInv, NothingIsLeftBehind,
              ConnectionIsClosed, CallLeavesNothing, Ended, Awaits, pmVars
<1>4. CASE Reap
  BY <1>4, LeaveStep DEF Reap, Unlink, Raise, Ended
<1> QED
  BY <1>1, <1>2, <1>3, <1>4 DEF Llm

\* CancelledError: the finally blocks run, the except blocks do not.
LEMMA CancelStep == SessionInv /\ Cancel => SessionInv'
<1> SUFFICES ASSUME SessionInv, Cancel PROVE SessionInv'
  OBVIOUS
<1>1. pc \in Awaits /\ cancelled' = pc /\ pc' = "failed" /\ UNCHANGED child
  BY DEF Cancel
<1>2. /\ conn' \in {"none", "open", "lost", "given up"}
      /\ pc \in Calling => conn' \in {"none", "given up"}
  BY Closed DEF Cancel, SessionInv, PlaceInv
<1>3. (PlaceInv /\ CancelInv /\ ReapInv /\ ConnectionIsClosed)'
  BY <1>1, <1>2 DEF PlaceInv, CancelInv, ReapInv, ConnectionIsClosed, Ended, Awaits, Calling
<1>4. CallLeavesNothing'
  <2>1. CASE pc = "cli"
    BY <1>1, <2>1 DEF CallLeavesNothing
  <2>2. CASE pc = "reaping"
    BY <1>1, <2>2 DEF Cancel, Unlink, SessionInv, ReapInv, CallLeavesNothing
  <2>3. CASE pc \notin {"cli", "reaping"}
    <3>1. UNCHANGED file /\ cancelled = Nowhere
      BY <1>1, <2>3 DEF Cancel, SessionInv, CancelInv, Ended, Awaits
    <3> QED
      BY <1>1, <2>3, <3>1 DEF SessionInv, NothingIsLeftBehind, CallLeavesNothing, Nowhere
  <2> QED
    BY <2>1, <2>2, <2>3
<1> QED
  BY <1>3, <1>4 DEF SessionInv, NothingIsLeftBehind

\* The process writes and ends, the database goes away, at any moment.
LEMMA WorldStep == SessionInv /\ World => SessionInv'
<1> SUFFICES ASSUME SessionInv, World PROVE SessionInv'
  OBVIOUS
<1>1. CASE CliWrites
  BY <1>1 DEF CliWrites, SessionInv, PlaceInv, CancelInv, ReapInv, NothingIsLeftBehind,
              ConnectionIsClosed, CallLeavesNothing, pmVars
<1>2. CASE CliEnds
  BY <1>2 DEF CliEnds, SessionInv, PlaceInv, CancelInv, ReapInv, NothingIsLeftBehind,
              ConnectionIsClosed, CallLeavesNothing, pmVars
<1>3. CASE LoseConnection
  BY <1>3 DEF LoseConnection, SessionInv, PlaceInv, CancelInv, ReapInv, NothingIsLeftBehind,
              ConnectionIsClosed, CallLeavesNothing, llmVars
<1> QED
  BY <1>1, <1>2, <1>3 DEF World

LEMMA SessionInvStep == SessionInv /\ [Next]_vars => SessionInv'
<1>1. SessionInv /\ UNCHANGED vars => SessionInv'
  BY DEF vars, SessionInv, PlaceInv, CancelInv, ReapInv, NothingIsLeftBehind,
         ConnectionIsClosed, CallLeavesNothing
<1> QED
  BY <1>1, ManagerStep, RetryStep, LlmStep, CancelStep, WorldStep DEF Next, Finished

-----------------------------------------------------------------------------
(* Theorems *)

LEMMA SessionInvariance == Spec => []SessionInv
<1>1. Init => SessionInv
  BY DEF Init, SessionInv, PlaceInv, CancelInv, ReapInv, NothingIsLeftBehind, ConnectionIsClosed,
         CallLeavesNothing, Ended
<1> QED
  BY <1>1, SessionInvStep, PTL DEF Spec

\* Whatever fails and wherever a session is cancelled, it leaves no connection,
\* no process and no file, but at the two places NothingIsLeftBehind names
\* (PersistenceManager, with_retry, _call_zai_cli).
THEOREM NothingLeft == Spec => []NothingIsLeftBehind
<1>1. SessionInv => NothingIsLeftBehind
  BY DEF SessionInv
<1> QED
  BY <1>1, SessionInvariance, PTL

-----------------------------------------------------------------------------
(* Powers of two *)

\* A set of natural numbers that is not empty has a least element: what stands
\* in for induction below.
LEMMA LeastNumber ==
  ASSUME NEW S, S \subseteq Nat, S # {}
  PROVE  \E m \in S : \A k \in S : m <= k
<1> DEFINE R == OpToRel(<, Nat)
<1>1. IsWellFoundedOn(R, Nat)
  BY NatLessThanWellFounded
<1>2. \E m \in S : \A k \in S : <<k, m>> \notin R
  <2> HIDE DEF R
  <2> QED
    BY <1>1, WFMin
<1>3. PICK m \in S : \A k \in S : <<k, m>> \notin R
  BY <1>2
<1>4. ASSUME NEW k \in S
      PROVE  m <= k
  <2>1. <<k, m>> \in Nat \X Nat
    OBVIOUS
  <2>2. ~(k < m)
    BY <2>1, <1>3 DEF OpToRel
  <2> QED
    BY <2>2
<1> QED
  BY <1>4

\* g doubles from 1, up to n.
Doubles(g, n) ==
  g \in [0..n -> Nat] /\ g[0] = 1 /\ \A k \in 1..n : g[k] = 2 * g[k - 1]

LEMMA DoublesExist == \A n \in Nat : \E g : Doubles(g, n)
<1> DEFINE Bad == {n \in Nat : ~\E g : Doubles(g, n)}
<1>1. ASSUME Bad # {} PROVE FALSE
  <2>1. PICK m \in Bad : \A k \in Bad : m <= k
    BY <1>1, LeastNumber
  <2>2. m \in Nat /\ ~\E g : Doubles(g, m)
    OBVIOUS
  <2>3. m # 0
    <3> DEFINE g == [k \in 0..0 |-> 1]
    <3>1. Doubles(g, 0)
      BY DEF Doubles
    <3> QED
      BY <2>2, <3>1
  <2>4. m - 1 \in Nat /\ m - 1 \notin Bad
    BY <2>1, <2>2, <2>3
  <2>5. PICK f : Doubles(f, m - 1)
    BY <2>4
  <2>6. f \in [0..(m - 1) -> Nat] /\ f[0] = 1 /\ \A k \in 1..(m - 1) : f[k] = 2 * f[k - 1]
    BY <2>5 DEF Doubles
  <2>7. /\ m - 1 \in 0..(m - 1) /\ \A k \in 0..m : k # m => k \in 0..(m - 1)
        /\ \A k \in 1..m : k \in 0..m /\ k - 1 \in 0..m /\ k - 1 # m /\ (k # m => k \in 1..(m - 1))
    BY <2>2, <2>4
  <2> DEFINE g == [k \in 0..m |-> IF k = m THEN 2 * f[m - 1] ELSE f[k]]
  <2>8. 2 * f[m - 1] \in Nat
    BY <2>6, <2>7
  <2>9. g \in [0..m -> Nat] /\ g[0] = 1
    BY <2>2, <2>3, <2>6, <2>7, <2>8
  <2>10. \A k \in 1..m : g[k] = 2 * g[k - 1]
    BY <2>6, <2>7
  <2> HIDE DEF g
  <2> QED
    BY <2>2, <2>9, <2>10 DEF Doubles
<1> QED
  BY <1>1

LEMMA DoublesAgree ==
  ASSUME NEW n \in Nat, NEW m \in Nat, NEW g, NEW h, Doubles(g, n), Doubles(h, m), n <= m
  PROVE  g[n] = h[n]
<1> DEFINE Bad == {k \in 0..n : g[k] # h[k]}
<1>1. ASSUME Bad # {} PROVE FALSE
  <2>1. PICK k \in Bad : \A i \in Bad : k <= i
    <3>1. Bad \subseteq Nat
      OBVIOUS
    <3> QED
      BY <1>1, <3>1, LeastNumber
  <2>2. k \in 0..n /\ g[k] # h[k]
    OBVIOUS
  <2>3. k # 0
    BY <2>2 DEF Doubles
  <2>4. k \in 1..n /\ k \in 1..m /\ k - 1 \in 0..n /\ k - 1 < k
    BY <2>2, <2>3
  <2>5. g[k - 1] = h[k - 1]
    BY <2>1, <2>4
  <2> QED
    BY <2>2, <2>4, <2>5 DEF Doubles
<1>2. n \in 0..n
  OBVIOUS
<1> QED
  BY <1>1, <1>2

LEMMA Power2Is == \A n \in Nat : Power2[n] = IF n = 0 THEN 1 ELSE 2 * Power2[n - 1]
<1> DEFINE G(n) == CHOOSE g : Doubles(g, n)
           f == [n \in Nat |-> G(n)[n]]
<1>1. \A n \in Nat : Doubles(G(n), n)
  BY DoublesExist
<1> HIDE DEF G
<1>2. ASSUME NEW n \in Nat
      PROVE  f[n] = IF n = 0 THEN 1 ELSE 2 * f[n - 1]
  <2>1. CASE n = 0
    BY <1>1, <2>1 DEF Doubles
  <2>2. CASE n # 0
    <3>1. n - 1 \in Nat /\ n \in 1..n /\ n - 1 <= n
      BY <2>2
    <3>2. G(n - 1)[n - 1] = G(n)[n - 1]
      BY <1>1, <3>1, DoublesAgree
    <3>3. G(n)[n] = 2 * G(n)[n - 1]
      BY <1>1, <3>1 DEF Doubles
    <3> QED
      BY <2>2, <3>1, <3>2, <3>3
  <2> QED
    BY <2>1, <2>2
<1>3. f = [n \in Nat |-> IF n = 0 THEN 1 ELSE 2 * f[n - 1]]
  BY <1>2
<1> HIDE DEF f
<1>4. Power2 = [n \in Nat |-> IF n = 0 THEN 1 ELSE 2 * Power2[n - 1]]
  BY <1>3 DEF Power2
<1> HIDE DEF Power2
<1> QED
  BY <1>4

LEMMA Power2Type == \A n \in Nat : Power2[n] \in Nat
<1> DEFINE Bad == {n \in Nat : Power2[n] \notin Nat}
<1>1. ASSUME Bad # {} PROVE FALSE
  <2>1. PICK m \in Bad : \A k \in Bad : m <= k
    BY <1>1, LeastNumber
  <2>2. m \in Nat /\ Power2[m] \notin Nat
    OBVIOUS
  <2>3. m # 0
    BY <2>2, Power2Is
  <2>4. m - 1 \in Nat /\ m - 1 < m
    BY <2>2, <2>3
  <2>5. Power2[m - 1] \in Nat
    BY <2>1, <2>4
  <2> QED
    BY <2>2, <2>3, <2>5, Power2Is
<1> QED
  BY <1>1

LEMMA Power2Grows ==
  ASSUME NEW j \in Nat, NEW k \in Nat, j <= k
  PROVE  Power2[j] <= Power2[k]
<1> DEFINE Bad == {i \in Nat : j <= i /\ ~(Power2[j] <= Power2[i])}
<1>1. ASSUME Bad # {} PROVE FALSE
  <2>1. PICK m \in Bad : \A i \in Bad : m <= i
    BY <1>1, LeastNumber
  <2>2. m \in Nat /\ j <= m /\ ~(Power2[j] <= Power2[m])
    OBVIOUS
  <2>3. m # j
    BY <2>2, Power2Type
  <2>4. m - 1 \in Nat /\ m - 1 < m /\ j <= m - 1
    BY <2>2, <2>3
  <2>5. Power2[j] <= Power2[m - 1]
    BY <2>1, <2>4
  <2>6. Power2[m] = 2 * Power2[m - 1]
    BY <2>2, <2>4, Power2Is
  <2>7. Power2[j] \in Nat /\ Power2[m - 1] \in Nat
    BY <2>4, Power2Type
  <2> QED
    BY <2>2, <2>5, <2>6, <2>7
<1> QED
  BY <1>1

-----------------------------------------------------------------------------
(* with_retry *)

\* Doubling outruns counting.
LEMMA Power2Bound == \A n \in Nat : n < Power2[n]
<1> DEFINE Bad == {n \in Nat : ~(n < Power2[n])}
<1>1. ASSUME Bad # {} PROVE FALSE
  <2>1. PICK m \in Bad : \A k \in Bad : m <= k
    BY <1>1, LeastNumber
  <2>2. m \in Nat /\ ~(m < Power2[m])
    OBVIOUS
  <2>3. m # 0
    BY <2>2, Power2Is
  <2>4. m - 1 \in Nat /\ m - 1 < m
    BY <2>2, <2>3
  <2>5. m - 1 < Power2[m - 1] /\ Power2[m - 1] \in Nat
    BY <2>1, <2>4, Power2Type
  <2>6. Power2[m] = 2 * Power2[m - 1]
    BY <2>2, <2>3, Power2Is
  <2> QED
    BY <2>2, <2>4, <2>5, <2>6
<1> QED
  BY <1>1

\* The delay grows with the attempt, but where a connection error follows an
\* error of another kind: linearly, by doubling, and from the one to the other.
LEMMA DelayGrows ==
  ASSUME NEW d \in Retried \ {"LLMRateLimitError"}, NEW e \in Retried \ {"LLMRateLimitError"},
         e = "ToolConnectionError" => d = "ToolConnectionError",
         NEW j \in Nat \ {0}, NEW k \in Nat \ {0}, j < k, NEW g, NEW h
  PROVE  compute_delay(d, j, g) <= compute_delay(e, k, h)
<1> DEFINE x == Power2[j - 1]
           y == Power2[k - 1]
<1>1. BaseDelay \in Nat /\ MaxDelay \in Nat
  BY DelayAssumption
<1>2. \A a, b \in Nat : a <= b => Capped(BaseDelay * a) <= Capped(BaseDelay * b)
  <2>1. \A a, b \in Nat : a <= b => Capped(a) <= Capped(b)
    BY <1>1 DEF Capped
  <2>2. \A a, b \in Nat : a <= b => BaseDelay * a \in Nat /\ BaseDelay * b \in Nat /\ BaseDelay * a <= BaseDelay * b
    BY <1>1
  <2> QED
    BY <2>1, <2>2
<1>3. x \in Nat /\ y \in Nat /\ x <= y /\ j <= y
  <2>1. j - 1 \in Nat /\ k - 1 \in Nat /\ j - 1 <= k - 1 /\ j <= k - 1
    OBVIOUS
  <2>2. Power2[k - 1] \in Nat /\ k - 1 < Power2[k - 1]
    BY <2>1, Power2Type, Power2Bound
  <2> QED
    BY <2>1, <2>2, Power2Type, Power2Grows
<1>4. /\ compute_delay(d, j, g) = IF d = "ToolConnectionError" THEN Capped(BaseDelay * j) ELSE Capped(BaseDelay * x)
      /\ compute_delay(e, k, h) = IF e = "ToolConnectionError" THEN Capped(BaseDelay * k) ELSE Capped(BaseDelay * y)
  BY DEF compute_delay
<1> HIDE DEF x, y
<1>5. /\ Capped(BaseDelay * j) <= Capped(BaseDelay * k) /\ Capped(BaseDelay * j) <= Capped(BaseDelay * y)
      /\ Capped(BaseDelay * x) <= Capped(BaseDelay * y)
  BY <1>2, <1>3
<1> QED
  BY <1>4, <1>5

LEMMA DelayType ==
  ASSUME NEW e, NEW k \in Nat \ {0}, NEW h \in RetryAfters
  PROVE  compute_delay(e, k, h) \in 0..MaxDelay
<1>1. BaseDelay \in Nat /\ MaxDelay \in Nat /\ h \in Nat \cup {NoHint}
  BY DelayAssumption
<1>2. \A x \in Nat : Capped(x) \in 0..MaxDelay
  BY <1>1 DEF Capped
<1>3. k - 1 \in Nat /\ Power2[k - 1] \in Nat
  BY Power2Type
<1>4. BaseDelay * k \in Nat /\ BaseDelay * Power2[k - 1] \in Nat
  BY <1>1, <1>3
<1>5. CASE e = "LLMRateLimitError"
  BY <1>1, <1>2, <1>5 DEF compute_delay
<1>6. CASE e = "ToolConnectionError"
  BY <1>2, <1>4, <1>6 DEF compute_delay
<1>7. CASE e \notin {"LLMRateLimitError", "ToolConnectionError"}
  BY <1>2, <1>4, <1>7 DEF compute_delay
<1> QED
  BY <1>5, <1>6, <1>7

Tries == Seq([error : Errors, delay : 0..MaxDelay])

\* Every attempt but the last raised a retryable error; each delay that was slept
\* and that no rate limit dictated is the one of its attempt.
TriesInv ==
  /\ max_attempts \in Nat /\ tries \in Tries /\ Len(tries) =< max_attempts
  /\ \A k \in 1..Len(tries) - 1 : tries[k].error \in Retried
  /\ \A k \in 1..Len(tries) : tries[k].error \in Retried \ {"LLMRateLimitError"} /\ k # max_attempts =>
       \E h : tries[k].delay = compute_delay(tries[k].error, k, h)

\* While with_retry runs, the last attempt was to be retried too and there is one
\* left; when the session is over, it was what ended it.
LastTryInv ==
  /\ pc \in {"trying", "sleeping"} =>
       Len(tries) < max_attempts /\ \A k \in 1..Len(tries) : tries[k].error \in Retried
  /\ pc = "sleeping" => Len(tries) > 0
  /\ pc \notin {"trying", "sleeping"} \cup Ended => tries = <<>>
  /\ pc = "failed" /\ cancelled = Nowhere /\ Len(tries) > 0 =>
       tries[Len(tries)].error \notin Retried \/ Len(tries) = max_attempts

RetryInv == TriesInv /\ LastTryInv

LEMMA NoTries == <<>> \in Tries /\ Len(<<>>) = 0
  BY DEF Tries

LEMMA LenNat == RetryInv => Len(tries) \in Nat
  BY DEF RetryInv, TriesInv, Tries

\* An attempt fails, as one of the errors with_retry may see.
LEMMA FailsStep == RetryInv /\ Fails => RetryInv'
<1> SUFFICES ASSUME RetryInv, Fails PROVE RetryInv'
  OBVIOUS
<1> DEFINE n == Len(tries)
<1>1. PICK e \in Raised, h \in RetryAfters :
        LET again == WorthRetrying(e) /\ ~LastAttempt
            delay == IF again THEN compute_delay(e, Len(tries) + 1, h) ELSE 0
        IN /\ e # "LLMRateLimitError" => h = NoHint
           /\ tries' = Append(tries, [error |-> e, delay |-> delay])
           /\ IF again THEN pc' = "sleeping" /\ UNCHANGED <<conn, saver>> ELSE Raise
  BY DEF Fails
<1> DEFINE delay == IF WorthRetrying(e) /\ ~LastAttempt THEN compute_delay(e, n + 1, h) ELSE 0
           r == [error |-> e, delay |-> delay]
<1>2. /\ tries' = Append(tries, r)
      /\ WorthRetrying(e) /\ ~LastAttempt => pc' = "sleeping"
      /\ ~(WorthRetrying(e) /\ ~LastAttempt) => pc' = "failed"
  BY <1>1 DEF Raise, Leave
<1>3. UNCHANGED max_attempts /\ pc = "trying"
  BY DEF Fails
<1>4. n \in Nat /\ tries \in Tries /\ max_attempts \in Nat
  BY LenNat DEF RetryInv, TriesInv
<1>5. n < max_attempts /\ \A k \in 1..n : tries[k].error \in Retried
  BY <1>3 DEF RetryInv, LastTryInv
<1>6. delay \in 0..MaxDelay /\ (e \in Retried /\ n + 1 # max_attempts => delay = compute_delay(e, n + 1, h))
  <2>1. n + 1 \in Nat \ {0}
    BY <1>4
  <2>2. compute_delay(e, n + 1, h) \in 0..MaxDelay
    BY <2>1, DelayType
  <2>3. 0 \in 0..MaxDelay
    BY DelayAssumption
  <2> QED
    BY <2>2, <2>3 DEF WorthRetrying, LastAttempt
<1> HIDE DEF delay
<1>7. r \in [error : Errors, delay : 0..MaxDelay] /\ r.error = e /\ r.delay = delay
  BY <1>6, SessionAssumption
<1> HIDE DEF r
<1>8. /\ tries' \in Tries /\ Len(tries') = n + 1
      /\ \A k \in 1..n : tries'[k] = tries[k]
      /\ tries'[n + 1] = r
  BY <1>2, <1>4, <1>7, AppendProperties DEF Tries
<1>9. \A k \in 1..(n + 1) : k = n + 1 \/ k \in 1..n
  BY <1>4
<1>10. TriesInv'
  <2>1. \A k \in 1..Len(tries') - 1 : tries'[k].error \in Retried
    <3>1. Len(tries') - 1 = n
      BY <1>4, <1>8
    <3> QED
      BY <1>5, <1>8, <3>1
  <2>2. ASSUME NEW k \in 1..(n + 1), tries'[k].error \in Retried \ {"LLMRateLimitError"}, k # max_attempts
        PROVE  \E g : tries'[k].delay = compute_delay(tries'[k].error, k, g)
    <3>1. CASE k = n + 1
      BY <1>6, <1>7, <1>8, <2>2, <3>1
    <3>2. CASE k \in 1..n
      BY <1>8, <2>2, <3>2 DEF RetryInv, TriesInv
    <3> QED
      BY <1>9, <3>1, <3>2
  <2>3. n + 1 <= max_attempts
    BY <1>4, <1>5
  <2> QED
    BY <1>3, <1>4, <1>8, <2>1, <2>2, <2>3 DEF TriesInv
<1>11. LastTryInv'
  <2>1. n + 1 \in Nat /\ n + 1 > 0
    BY <1>4
  <2>2. CASE WorthRetrying(e) /\ ~LastAttempt
    <3>1. n + 1 < max_attempts
      BY <1>4, <1>5, <2>2 DEF LastAttempt
    <3>2. \A k \in 1..(n + 1) : tries'[k].error \in Retried
      BY <1>5, <1>7, <1>8, <1>9, <2>2 DEF WorthRetrying
    <3> QED
      BY <1>2, <1>3, <1>8, <2>1, <2>2, <3>1, <3>2 DEF LastTryInv
  <2>3. CASE ~(WorthRetrying(e) /\ ~LastAttempt)
    <3>1. tries'[n + 1].error \notin Retried \/ n + 1 = max_attempts
      BY <1>7, <1>8, <2>3 DEF WorthRetrying, LastAttempt
    <3> QED
      BY <1>2, <1>3, <1>8, <2>3, <3>1 DEF LastTryInv, Ended
  <2> QED
    BY <2>2, <2>3
<1> QED
  BY <1>10, <1>11 DEF RetryInv

\* A step that leaves with_retry alone: outside of it, within it, or into the end.
LEMMA AsideStep ==
  ASSUME RetryInv, UNCHANGED retryVars,
         \/ pc = "sleeping" /\ pc' = "trying"
         \/ pc \notin {"trying", "sleeping"} \cup Ended /\ pc' \notin {"trying", "sleeping"}
         \/ UNCHANGED <<pc, cancelled>>
         \/ cancelled' # Nowhere /\ pc' = "failed"
  PROVE  RetryInv'
<1>1. TriesInv'
  BY DEF RetryInv, TriesInv, retryVars
<1>2. LastTryInv'
  BY NoTries, LenNat DEF RetryInv, LastTryInv, retryVars, Ended
<1> QED
  BY <1>1, <1>2 DEF RetryInv

LEMMA StartRetryStep == RetryInv /\ StartRetry => RetryInv'
<1> SUFFICES ASSUME RetryInv, StartRetry PROVE RetryInv'
  OBVIOUS
<1>1. max_attempts' \in Nat /\ tries' = <<>>
  BY SessionAssumption DEF StartRetry
<1>2. (pc' = "trying" /\ max_attempts' # 0) \/ pc' = "failed"
  BY DEF StartRetry, Raise, Leave
<1>3. TriesInv'
  BY <1>1, NoTries DEF TriesInv
<1>4. LastTryInv'
  BY <1>1, <1>2, NoTries DEF LastTryInv, Ended
<1> QED
  BY <1>3, <1>4 DEF RetryInv

LEMMA SucceedsStep == RetryInv /\ Succeeds => RetryInv'
<1> SUFFICES ASSUME RetryInv, Succeeds PROVE RetryInv'
  OBVIOUS
<1>1. max_attempts' = 0 /\ tries' = <<>> /\ pc' = "inside"
  BY DEF Succeeds
<1> QED
  BY <1>1, NoTries DEF RetryInv, TriesInv, LastTryInv

LEMMA RetryInvStep == RetryInv /\ [Next]_vars => RetryInv'
<1> SUFFICES ASSUME RetryInv, [Next]_vars PROVE RetryInv'
  OBVIOUS
<1>1. CASE Manager
  BY <1>1, AsideStep DEF Manager, EnterMemory, EnterPostgres, Connect, Setup, Exit, CheckHealth,
       HealthKnown, Leave, Ended
<1>2. CASE Llm
  BY <1>2, AsideStep DEF Llm, StartCli, CliAnswers, CliTimesOut, Reap, Raise, Leave, Ended
<1>3. CASE Cancel
  BY <1>3, AsideStep DEF Cancel, Awaits, Nowhere
<1>4. CASE World \/ UNCHANGED vars \/ Finished
  BY <1>4, AsideStep DEF World, CliWrites, CliEnds, LoseConnection, Finished, vars, retryVars
<1>5. CASE Sleep
  BY <1>5, AsideStep DEF Sleep
<1> QED
  BY <1>1, <1>2, <1>3, <1>4, <1>5, StartRetryStep, SucceedsStep, FailsStep DEF Next, Retry

-----------------------------------------------------------------------------
(* What with_retry promises *)

LEMMA RetryInvariance == Spec => []RetryInv
<1>1. Init => RetryInv
  BY NoTries DEF Init, RetryInv, TriesInv, LastTryInv, Ended
<1> QED
  BY <1>1, RetryInvStep, PTL DEF Spec

\* with_retry goes on exactly after retryable errors while an attempt is left, for
\* any number of attempts and any base and cap.  Its delays get shorter only where
\* a rate limit dictates one, or where a connection error follows another error.
THEOREM RetryHolds == Spec => []RetryKeepsItsWord
<1>1. RetryInv => RetryKeepsItsWord
  <2> SUFFICES ASSUME RetryInv PROVE RetryKeepsItsWord
    OBVIOUS
  <2> DEFINE n == Len(tries)
  <2>1. n \in Nat /\ max_attempts \in Nat /\ n <= max_attempts /\ tries \in Tries
    BY LenNat DEF RetryInv, TriesInv
  <2>2. \A k \in 1..n - 1 : tries[k].error \in Retried
    BY DEF RetryInv, TriesInv
  <2>3. pc = "failed" /\ cancelled = Nowhere /\ n > 0 => tries[n].error \notin Retried \/ n = max_attempts
    BY DEF RetryInv, LastTryInv
  <2>4. pc = "sleeping" => n < max_attempts /\ tries[n].error \in Retried
    BY <2>1 DEF RetryInv, LastTryInv
  <2>5. ASSUME NEW j \in 1..n, NEW k \in 1..n, j < k, k < n \/ pc = "sleeping",
               tries[j].error # "LLMRateLimitError", tries[k].error # "LLMRateLimitError",
               tries[k].error = "ToolConnectionError" => tries[j].error = "ToolConnectionError"
        PROVE  ~(tries[k].delay < tries[j].delay)
    <3>1. j \in 1..n - 1 /\ (k \in 1..n - 1 \/ (k = n /\ pc = "sleeping"))
      BY <2>1, <2>5
    <3>2. tries[j].error \in Retried /\ tries[k].error \in Retried
      BY <2>2, <2>4, <3>1
    <3>3. j # max_attempts /\ k # max_attempts
      BY <2>1, <2>4, <3>1
    <3>4. PICK g : tries[j].delay = compute_delay(tries[j].error, j, g)
      BY <2>5, <3>2, <3>3 DEF RetryInv, TriesInv
    <3>5. PICK h : tries[k].delay = compute_delay(tries[k].error, k, h)
      BY <2>5, <3>2, <3>3 DEF RetryInv, TriesInv
    <3>6. j \in Nat \ {0} /\ k \in Nat \ {0}
      BY <2>1, <2>5
    <3>7. compute_delay(tries[j].error, j, g) <= compute_delay(tries[k].error, k, h)
      BY <2>5, <3>2, <3>6, DelayGrows
    <3>8. tries[j].delay \in Int /\ tries[k].delay \in Int
      <4> DEFINE Try == [error : Errors, delay : 0..MaxDelay]
      <4>1. tries \in Seq(Try)
        BY <2>1 DEF Tries
      <4> HIDE DEF Try
      <4>2. tries[j] \in Try /\ tries[k] \in Try
        BY <4>1, ElementOfSeq
      <4> QED
        BY <4>2 DEF Try
    <3> QED
      BY <3>4, <3>5, <3>7, <3>8
  <2> HIDE DEF n
  <2> QED
    BY <2>1, <2>2, <2>3, <2>4, <2>5 DEF RetryKeepsItsWord, n
<1> QED
  BY <1>1, RetryInvariance, PTL

-----------------------------------------------------------------------------
(* Types *)

\* What neither of the two invariants needs.
RestInv ==
  /\ dsn \in BOOLEAN /\ tables \in BOOLEAN
  /\ saver \in {"none", "memory", "postgres"}
  /\ max_attempts \in Attempts \cup {0}
  /\ child \in {"none", "running", "exited"} /\ file \in {"none", "empty", "written"}
  /\ calls \in 0..MaxCalls /\ cancelled \in Awaits \cup {Nowhere}

LEMMA RestInvStep == RestInv /\ [Next]_vars => RestInv'
<1> SUFFICES ASSUME RestInv, [Next]_vars PROVE RestInv'
  OBVIOUS
<1> USE DEF RestInv, pmVars, retryVars, llmVars, Leave, Raise
<1>1. ASSUME calls < MaxCalls, calls' = calls + 1
      PROVE  calls' \in 0..MaxCalls
  BY <1>1, SessionAssumption
<1>2. CASE Manager
  BY <1>1, <1>2 DEF Manager, EnterMemory, EnterPostgres, Connect, Setup, Exit, CheckHealth, HealthKnown
<1>3. CASE Retry
  BY <1>1, <1>3 DEF Retry, StartRetry, Succeeds, Fails, Sleep
<1>4. CASE Llm
  BY <1>1, <1>4 DEF Llm, StartCli, CliAnswers, CliTimesOut, Reap, Kill, Unlink
<1>5. CASE Cancel
  BY <1>5 DEF Cancel, Unlink
<1>6. CASE World \/ UNCHANGED vars \/ Finished
  BY <1>6 DEF World, CliWrites, CliEnds, LoseConnection, Finished, vars
<1> QED
  BY <1>2, <1>3, <1>4, <1>5, <1>6 DEF Next

\* The types of a session; that there are no more tries than attempts and that
\* no delay is longer than max_delay needs the invariant of with_retry.
THEOREM Types == Spec => []TypeOK
<1>1. Init => RestInv
  BY SessionAssumption DEF Init, RestInv
<1>2. SessionInv /\ RetryInv /\ RestInv => TypeOK
  <2> SUFFICES ASSUME SessionInv, RetryInv, RestInv PROVE TypeOK
    OBVIOUS
  <2>1. Len(tries) =< max_attempts /\ tries \in Tries
    BY DEF RetryInv, TriesInv
  <2>2. \A k \in 1..Len(tries) : tries[k] \in [error : Errors, delay : 0..MaxDelay]
    BY <2>1, ElementOfSeq DEF Tries
  <2> QED
    BY <2>1, <2>2 DEF SessionInv, PlaceInv, RestInv, TypeOK
<1> QED
  BY <1>1, <1>2, SessionInvariance, RetryInvariance, RestInvStep, PTL DEF Spec

=============================================================================
