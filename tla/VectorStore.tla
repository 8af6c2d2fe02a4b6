----------------------------- MODULE VectorStore -----------------------------
(***************************************************************************)
(* The chunk stores of mcp_servers/codebase: InMemoryVectorStore, a list,  *)
(* and PgVectorStore, a table several processes share, given the same      *)
(* calls, and the hybrid search of codebase.semantic_search over either.   *)
(* The chunks are those of embeddings_indexer.py.                          *)
(*                                                                         *)
(* Operations on the list are atomic.  Every row of the table is a         *)
(* statement of its own (autocommit), and a hybrid search is two queries.  *)
(***************************************************************************)
EXTENDS Integers, Sequences, FiniteSets, SequencesExt

CONSTANTS
  Sources,        \* source_config
  Versions,       \* source_version
  Objects,        \* object_ref
  Kinds,          \* module_kind
  Codes,          \* code_text with its embedding
  Matches,        \* code -> its score in a full-text search, 0: no match
  Similarity,     \* code -> its cosine similarity, NoEmbedding without an embedding
  NoEmbedding,
  MaxBatch,       \* bound: chunks of one call of upsert_chunks
  MaxChunks,      \* bound: chunks written in a behaviour
  MaxDeletes,     \* bound: deletes
  TopK            \* values of top_k

ASSUME StoreAssumption ==
  /\ Matches \in [Codes -> Nat] /\ Similarity \in [Codes -> Int] /\ NoEmbedding \in Int
  /\ TopK \subseteq Nat \ {0} /\ MaxBatch \in Nat

VARIABLES
  chunks,         \* InMemoryVectorStore._chunks
  rows,           \* table code_chunks: its rows
  batch,          \* chunks the running PgVectorStore.upsert_chunks has left
  reader,         \* a hybrid search of the table, in another process
  written, deletes,
  failed          \* observed: ids of chunks the table refused, or never got

vars == <<chunks, rows, batch, reader, written, deletes, failed>>

Chunk == [source : Sources, version : Versions, object : Objects, kind : Kinds, code : Codes]

\* chunk_id is f"{config_name}_{config_version}_{object_ref}_{method}": the
\* modules of one object (ObjectModule, ManagerModule) are not told apart.  One
\* method name stands for all.
Id(c) == <<c.source, c.version, c.object>>
Ids == Sources \X Versions \X Objects

AnyVersion == "any"
Of(S, i) == {c \in S : Id(c) = i}

Scopes == Sources \X (Versions \cup {AnyVersion})
From(i, scope) == i[1] = scope[1] /\ scope[2] \in {AnyVersion, i[2]}

-----------------------------------------------------------------------------
(* Filters and searches *)

\* search_filters of semantic_search: config and version, and what the caller adds.
Filters == [source : Sources, version : Versions, kinds : {Kinds} \cup {{k} : k \in Kinds}]

Passes(c, f) == c.source = f.source /\ c.version = f.version /\ c.kind \in f.kinds

First(s, n) == SubSeq(s, 1, IF Len(s) < n THEN Len(s) ELSE n)

\* The elements of T in an order, given as the set of pairs of one before another.
Arranged(T, order) ==
  CHOOSE t \in [1..Cardinality(T) -> T] :
    \A i, j \in 1..Cardinality(T) : i < j => <<t[i], t[j]>> \in order

\* The entries of s at some positions, in an order of the positions.
Picked(s, at, order) ==
  LET t == Arranged(at, order) IN [k \in 1..Cardinality(at) |-> s[t[k]]]

\* [c for c in s if ...]: the order stays.
Kept(s, at) == Picked(s, at, {p \in at \X at : p[1] < p[2]})

\* Mutant: reverse=True is missing.
Ascending(x, y) == x < y

Outranks(x, y) == x > y

\* results.sort(key=score, reverse=True)[:top_k], which keeps the order of equals.
StableTop(s, score, n) ==
  LET x(i) == score[s[i].code]
      before == {p \in (DOMAIN s) \X (DOMAIN s) :
                   Outranks(x(p[1]), x(p[2])) \/ (x(p[1]) = x(p[2]) /\ p[1] < p[2])}
  IN First(Picked(s, DOMAIN s, before), n)

\* ORDER BY score DESC LIMIT n: rows of equal score come in any order.
Sorted(s, score) == \A i, j \in DOMAIN s : i < j => score[s[i].code] >= score[s[j].code]
AnyTop(S, score, n) ==
  {First(s, n) : s \in {t \in [1..Cardinality(S) -> S] : Range(t) = S /\ Sorted(t, score)}}

Found(S, score, none) == {c \in S : score[c.code] # none}

\* The list as a search sees it: what passes, without what it has no score for.
Seen(f, score, none) ==
  Kept(chunks, {k \in DOMAIN chunks : Passes(chunks[k], f) /\ score[chunks[k].code] # none})

mem_bm25(f, n) == StableTop(Seen(f, Matches, 0), Matches, n)
mem_vector(f, n) == StableTop(Seen(f, Similarity, NoEmbedding), Similarity, n)

\* Mutant: a search sees the rows of every version.
RowsOfSource(f) == {c \in rows : c.source = f.source}

Rows(f) == {c \in rows : Passes(c, f)}
pg_bm25(f, n) == AnyTop(Found(Rows(f), Matches, 0), Matches, n)
pg_vector(f, n) == AnyTop(Found(Rows(f), Similarity, NoEmbedding), Similarity, n)

-----------------------------------------------------------------------------
(* Reciprocal rank fusion, with rrf_k = 60 *)

\* Position of an id in a result list, 0 if it is not there.
Rank(s, i) == IF \E k \in DOMAIN s : Id(s[k]) = i THEN CHOOSE k \in DOMAIN s : Id(s[k]) = i ELSE 0

RrfK == 60

\* 1 / (rrf_k + rank) for the ranks of an id in the two lists, summed: a fraction.
Share(k, m) ==
  IF k = 0 THEN <<1, RrfK + m>>
  ELSE IF m = 0 THEN <<1, RrfK + k>>
  ELSE <<(RrfK + k) + (RrfK + m), (RrfK + k) * (RrfK + m)>>

\* x is the greater fraction.
Exceeds(x, y) == Outranks(x[1] * y[2], y[1] * x[2])

\* Ids in the order of their scores, then of their appearance, the first list's
\* first; the data of an id is the first list's.
Fuse(bm25, vector, n) ==
  LET all == bm25 \o Kept(vector, {k \in DOMAIN vector : Rank(bm25, Id(vector[k])) = 0})
      score(i) == Share(Rank(bm25, Id(all[i])), Rank(vector, Id(all[i])))
      before == {p \in (DOMAIN all) \X (DOMAIN all) :
                   \/ Exceeds(score(p[1]), score(p[2]))
                   \/ ~Exceeds(score(p[2]), score(p[1])) /\ p[1] < p[2]}
  IN First(Picked(all, DOMAIN all, before), n)

\* search_hybrid asks each search for twice as many.
mem_hybrid(f, n) == Fuse(mem_bm25(f, 2 * n), mem_vector(f, 2 * n), n)

-----------------------------------------------------------------------------
(* Writing *)

\* Mutant: a chunk is put beside the one of the same id.
Beside(s, c) == Append(s, c)

Replaced(s, c) == Append(Kept(s, {k \in DOMAIN s : Id(s[k]) # Id(c)}), c)

UpsertAll(s, b) ==
  LET list[k \in 0..Len(b)] == IF k = 0 THEN s ELSE Replaced(list[k - 1], b[k])
  IN list[Len(b)]

\* upsert_chunks of both stores begins, with the chunks of one index: the list
\* takes the batch at once.
Upsert ==
  /\ batch = <<>>
  /\ \E n \in 1..MaxBatch : \E b \in [1..n -> Chunk] :
       /\ written + n =< MaxChunks
       /\ \A k \in 1..n : b[k].source = b[1].source /\ b[k].version = b[1].version
       /\ written' = written + n
       /\ chunks' = UpsertAll(chunks, b)
       /\ batch' = b
  /\ UNCHANGED <<rows, reader, deletes, failed>>

\* Mutant: ON CONFLICT DO NOTHING.
Ignored(old, c) == old

\* ON CONFLICT (chunk_id) DO UPDATE SET code_text, tsvector, embedding, model:
\* the row keeps its other columns, module_kind among them.
OnConflict(old, c) == [old EXCEPT !.code = c.code]

\* One INSERT.  A chunk without an embedding is passed as the text NULL, which
\* ::vector refuses: the exception ends the batch, what was written stays.
InsertRow ==
  /\ batch # <<>>
  /\ LET c == Head(batch) IN
       IF Similarity[c.code] = NoEmbedding
         THEN /\ failed' = failed \cup {Id(d) : d \in Range(batch)}
              /\ batch' = <<>>
              /\ UNCHANGED rows
         ELSE /\ rows' = IF Of(rows, Id(c)) = {} THEN rows \cup {c}
                       ELSE {IF Id(r) = Id(c) THEN OnConflict(r, c) ELSE r : r \in rows}
              /\ batch' = Tail(batch)
              /\ UNCHANGED failed
  /\ UNCHANGED <<chunks, reader, written, deletes>>

\* The process that writes dies, or its connection is lost.
Break ==
  /\ batch # <<>>
  /\ failed' = failed \cup {Id(d) : d \in Range(batch)}
  /\ batch' = <<>>
  /\ UNCHANGED <<chunks, rows, reader, written, deletes>>

\* delete_by_source, in both.
Delete ==
  /\ batch = <<>>
  /\ deletes < MaxDeletes
  /\ deletes' = deletes + 1
  /\ \E scope \in Scopes :
       /\ chunks' = Kept(chunks, {k \in DOMAIN chunks : ~From(Id(chunks[k]), scope)})
       /\ rows' = {c \in rows : ~From(Id(c), scope)}
       /\ failed' = {i \in failed : ~From(i, scope)}
  /\ UNCHANGED <<batch, reader, written>>

-----------------------------------------------------------------------------
(* PgVectorStore.search_hybrid, between the writer's statements *)

NoSearch == [phase |-> "idle", filter |-> {}, top_k |-> 0, bm25 |-> <<>>, vector |-> <<>>, answer |-> <<>>]

QueryBm25 ==
  /\ reader.phase = "idle"
  /\ \E f \in Filters, n \in TopK : \E s \in pg_bm25(f, 2 * n) :
       reader' = [NoSearch EXCEPT !.phase = "bm25", !.filter = {f}, !.top_k = n, !.bm25 = s]
  /\ UNCHANGED <<chunks, rows, batch, written, deletes, failed>>

QueryVector ==
  /\ reader.phase = "bm25"
  /\ \E f \in reader.filter : \E s \in pg_vector(f, 2 * reader.top_k) :
       reader' = [reader EXCEPT !.phase = "answered", !.vector = s, !.answer = Fuse(reader.bm25, s, reader.top_k)]
  /\ UNCHANGED <<chunks, rows, batch, written, deletes, failed>>

Answer ==
  /\ reader.phase = "answered"
  /\ reader' = NoSearch
  /\ UNCHANGED <<chunks, rows, batch, written, deletes, failed>>

Init ==
  /\ chunks = <<>> /\ rows = {} /\ batch = <<>> /\ reader = NoSearch
  /\ written = 0 /\ deletes = 0 /\ failed = {}

Next ==
  \/ Upsert \/ InsertRow \/ Break \/ Delete
  \/ QueryBm25 \/ QueryVector \/ Answer

Spec == Init /\ [][Next]_vars

-----------------------------------------------------------------------------
(* Properties *)

TypeOK ==
  /\ chunks \in Seq(Chunk) /\ rows \subseteq Chunk /\ batch \in Seq(Chunk)
  /\ reader \in [phase : {"idle", "bm25", "answered"}, filter : SUBSET Filters, top_k : Nat,
                 bm25 : Seq(Chunk), vector : Seq(Chunk), answer : Seq(Chunk)]
  /\ written \in Nat /\ deletes \in Nat
  /\ failed \subseteq Ids

\* The list is the promised map: whatever sequence of batches, conflicts and
\* deletes there was, an id has one chunk, the last one written for it.
Abstract == INSTANCE ChunkStore WITH
  store <- LET all == Range(chunks) IN [i \in Ids |-> Of(all, i)],
  given <- batch

ImplementsStore == Abstract!Spec

\* Once a batch is in, table and list hold the same code for the same ids, apart
\* from chunks the table refused; only the other columns may be an older chunk's.
StoresAgree ==
  batch = <<>> =>
    \A i \in Ids \ failed :
      {r.code : r \in Of(rows, i)} = {c.code : c \in Of(Range(chunks), i)}

\* A hybrid answer respects both searches: a chunk that neither list puts
\* behind another, and one puts before it, is never answered after it or
\* left out for it.  (What the table's processes do leaves the list as it is.)
Behind(k, m) == k # 0 /\ (m = 0 \/ k < m)
Better(a, b, bm25, vector) ==
  LET worse(s) == Behind(Rank(s, b), Rank(s, a))
      better(s) == Behind(Rank(s, a), Rank(s, b))
  IN ~worse(bm25) /\ ~worse(vector) /\ (better(bm25) \/ better(vector))

Respects(answer, bm25, vector) ==
  \A a, b \in {Id(c) : c \in Range(bm25) \cup Range(vector)} :
    Rank(answer, b) # 0 /\ Better(a, b, bm25, vector) => Behind(Rank(answer, a), Rank(answer, b))

HybridRespectsBoth ==
  /\ reader.phase = "idle" /\ batch = <<>> =>
       \A f \in Filters, n \in TopK : Respects(mem_hybrid(f, n), mem_bm25(f, 2 * n), mem_vector(f, 2 * n))
  /\ reader.phase = "answered" => Respects(reader.answer, reader.bm25, reader.vector)

\* An answer never holds a chunk twice or a chunk of another configuration,
\* version or kind, although the table is written between the two queries.
AnswersAreClean ==
  reader.phase = "answered" =>
    /\ Cardinality({Id(c) : c \in Range(reader.answer)}) = Len(reader.answer)
    /\ \A c \in Range(reader.answer) : \A f \in reader.filter : Passes(c, f)

=============================================================================
