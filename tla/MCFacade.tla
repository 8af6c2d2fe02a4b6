------------------------------ MODULE MCFacade ------------------------------
(***************************************************************************)
(* Instances of Facade for TLC.                                            *)
(***************************************************************************)
EXTENDS Facade, TLC

\* Two plans without a subtask id in common.
MCDistinct == "p1" :> {<<"a", "b">>, <<"a">>} @@ "p2" :> {<<"c">>}

\* Two plans whose subtasks the LLM gave the same id.
MCSameId == "p1" :> {<<"a">>} @@ "p2" :> {<<"a">>}

\* One plan of two subtasks.
MCOnePlan == "p1" :> {<<"a", "b">>}

\* Clients are interchangeable: no action and no property names one.
MCClients == Permutations(Clients)
=============================================================================
