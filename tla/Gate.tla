-------------------------------- MODULE Gate --------------------------------
(***************************************************************************)
(* What the validations of pieces of code promise, whoever validates and   *)
(* however many validations overlap: checkers report in any order, each    *)
(* once, any findings; when all have reported, the gate opens exactly if   *)
(* nobody reported a critical finding, and whoever repairs the code is     *)
(* told every finding that is not mere information.  The process may die   *)
(* before that, and with it all its validations.                           *)
(***************************************************************************)
EXTENDS FiniteSets

CONSTANTS Validations, Checkers, Findings, SeverityOf

VARIABLES reports,    \* validation -> checker -> the findings it reported
          verdict,    \* validation -> "idle", "checking", "open" or "closed"
          told        \* validation -> the findings passed on

gateVars == <<reports, verdict, told>>

Begin(n) ==
  /\ verdict[n] # "checking"
  /\ verdict' = [verdict EXCEPT ![n] = "checking"]
  /\ reports' = [reports EXCEPT ![n] = <<>>]
  /\ told' = [told EXCEPT ![n] = {}]

Report(n, c) ==
  /\ verdict[n] = "checking"
  /\ c \notin DOMAIN reports[n]
  /\ DOMAIN reports' = Validations
  /\ \A m \in Validations \ {n} : reports'[m] = reports[m]
  /\ DOMAIN reports'[n] = DOMAIN reports[n] \cup {c}
  /\ reports'[n][c] \subseteq Findings
  /\ \A d \in DOMAIN reports[n] : reports'[n][d] = reports[n][d]
  /\ UNCHANGED <<verdict, told>>

Judge(n) ==
  /\ verdict[n] = "checking"
  /\ DOMAIN reports[n] = Checkers
  /\ LET found == UNION {reports[n][c] : c \in Checkers} IN
       /\ verdict' = [verdict EXCEPT ![n] =
                        IF \E f \in found : SeverityOf[f] = "critical" THEN "closed" ELSE "open"]
       /\ told' = [told EXCEPT ![n] = {f \in found : SeverityOf[f] # "info"}]
  /\ UNCHANGED reports

Nothing == reports = [n \in Validations |-> <<>>] /\ told = [n \in Validations |-> {}]

GateInit == verdict = [n \in Validations |-> "idle"] /\ Nothing

Die == verdict' = [n \in Validations |-> "idle"] /\ Nothing'

GateNext == Die \/ \E n \in Validations : Begin(n) \/ Judge(n) \/ \E c \in Checkers : Report(n, c)

GateSpec == GateInit /\ [][GateNext]_gateVars

=============================================================================
