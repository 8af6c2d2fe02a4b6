----------------------------- MODULE ChunkStore -----------------------------
(***************************************************************************)
(* What a vector store promises (VectorStoreProtocol): a map from chunk    *)
(* ids to chunks, written by upsert_chunks and delete_by_source.           *)
(***************************************************************************)
EXTENDS Naturals

CONSTANTS
  Ids,            \* chunk_id
  Id(_),          \* the chunk_id of a chunk
  Scopes,         \* what delete_by_source is given: a source, and a version or none
  From(_, _)      \* an id is in a scope

VARIABLES
  store,          \* id -> its chunk, as a set of none or one
  given           \* chunks the last call of upsert_chunks was given

Init == store = [i \in Ids |-> {}]

Last(b, k) == \A j \in DOMAIN b : k < j => Id(b[j]) # Id(b[k])

\* An id has the last chunk given for it, and what was there if none was.
Upsert ==
  /\ \A k \in DOMAIN given' : Last(given', k) => store'[Id(given'[k])] = {given'[k]}
  /\ \A i \in Ids \ {Id(given'[k]) : k \in DOMAIN given'} : store'[i] = store[i]

\* All chunks of one source, and no others, disappear.
Delete(scope) == store' = [i \in Ids |-> IF From(i, scope) THEN {} ELSE store[i]]

Spec == Init /\ [][Upsert \/ \E scope \in Scopes : Delete(scope)]_store

=============================================================================
