------------------------------ MODULE Retrieval ------------------------------
(***************************************************************************)
(* Dense retrieval and reranking: services/search.py, the reading half of  *)
(* SQLiteVecIndexStore in storage/sqlite_vec.py, storage/index_readiness,  *)
(* and NVIDIAReranker with the reading of its replies.                     *)
(*                                                                         *)
(* Readiness, the embedding of the query and the search are separate       *)
(* steps, and operators may replace the file between them; each look at    *)
(* the file is one transaction.                                            *)
(*                                                                         *)
(* Abstracted: rows are numbered by their distance to the query; a row is  *)
(* its domain; scores are small numbers.                                   *)
(***************************************************************************)
EXTENDS Naturals, Sequences, FiniteSets, SequencesExt

CONSTANTS
    Domains,
    MaxRows,           \* bound: rows of an index
    TopKs,             \* what is asked for
    Pool,              \* _DEFAULT_RERANK_CANDIDATE_POOL
    DomainMultiplier,  \* _DOMAIN_CANDIDATE_MULTIPLIER
    MinDomain,         \* _MIN_DOMAIN_CANDIDATES
    MaxScore,          \* bound: scores
    MaxReplaced        \* bound: replacements of the file

RetrievalAssumption ==
    /\ MaxRows \in Nat /\ TopKs \subseteq Nat \ {0} /\ Pool \in Nat \ {0}
    /\ DomainMultiplier \in Nat \ {0} /\ MinDomain \in Nat /\ MaxScore \in Nat /\ MaxReplaced \in Nat

VARIABLES
    file,     \* the index at the path
    query,    \* top_k and the domain, or "any"
    pc,
    rows,     \* the rows in the transaction of the search
    limit,    \* candidate_limit
    found,    \* dense candidates: numbers of rows
    reply,    \* the reranker's reply: its rows
    hits,     \* [row, score], the answer
    replaced  \* replacements since readiness, counted

vars == <<file, query, pc, rows, limit, found, reply, hits, replaced>>

\* Rows, the version of the schema, the completion marker, the embedding, and
\* whether vectors and chunks are the same rows.
Index == [kind : {"file"}, rows : BoundedSeq(Domains, MaxRows), schema : {"none", "1", "2"},
          complete : {"true", "false", "absent"}, ours : BOOLEAN, paired : BOOLEAN]
Other(kind) == [kind |-> kind, rows |-> <<>>, schema |-> "none", complete |-> "absent", ours |-> FALSE, paired |-> TRUE]

\* Any file with one domain at most, or a whole index of ours.
Files ==
    {Other(kind) : kind \in {"missing", "directory"}}
        \cup {i \in Index : Len(i.rows) <= 1 \/ (i.schema = "2" /\ i.complete = "true" /\ i.ours /\ i.paired)}

Init ==
    /\ file \in Files
    /\ query \in [k : TopKs, domain : Domains \cup {"any"}]
    /\ pc = "ready" /\ rows = <<>> /\ limit = 0 /\ found = <<>> /\ reply = <<>> /\ hits = <<>>
    /\ replaced = 0

Go(next) == pc' = next

-----------------------------------------------------------------------------
(* Readiness.                                                              *)

\* _read_identity: nothing that is missing is inferred.
HasIdentity(f, empty) ==
    f.schema = "2" /\ f.complete # "absent" /\ f.paired /\ (empty \/ f.rows # <<>>)

Readiness(f) ==
    IF f.kind # "file" THEN f.kind
    ELSE IF f.schema = "none" THEN "invalid"
    ELSE IF ~HasIdentity(f, TRUE) THEN IF f.rows = <<>> THEN "invalid" ELSE "incompatible"
    ELSE IF f.complete = "false" THEN "incomplete"
    ELSE IF ~f.ours THEN "incompatible"
    ELSE IF f.rows = <<>> THEN "empty"
    ELSE "ready"

\* require_index_ready, before the provider is asked for the embedding.
Inspect ==
    /\ pc = "ready"
    /\ Go(IF Readiness(file) = "ready" THEN "embed" ELSE "refused")
    /\ UNCHANGED <<file, query, rows, limit, found, reply, hits, replaced>>

\* The provider's embedding of the query, or its error.
Embed ==
    /\ pc = "embed"
    /\ \E ok \in BOOLEAN : Go(IF ok THEN "open" ELSE "failed")
    /\ UNCHANGED <<file, query, rows, limit, found, reply, hits, replaced>>

-----------------------------------------------------------------------------
(* search.                                                                 *)

Least(a, b) == IF a < b THEN a ELSE b
Most(a, b) == IF a > b THEN a ELSE b

Asked == Most(query.k, Pool)

\* _candidate_limit
FirstLimit ==
    IF query.domain = "any" THEN Asked ELSE Most(Most(Asked, Asked * DomainMultiplier), MinDomain)

\* _require_connection and _validate_identity, in the transaction of the search.
Usable(f) == f.kind = "file" /\ HasIdentity(f, FALSE) /\ f.ours /\ f.complete = "true"

OpenSearch ==
    /\ pc = "open"
    /\ IF Usable(file)
       THEN Go("search") /\ rows' = file.rows /\ limit' = Least(FirstLimit, Len(file.rows))
       ELSE Go("failed") /\ UNCHANGED <<rows, limit>>
    /\ UNCHANGED <<file, query, found, reply, hits, replaced>>

\* The nearest rows within the limit, those of the domain only.
Matches == SelectSeq([i \in 1 .. limit |-> i], LAMBDA i : query.domain \in {"any", rows[i]})

Widen == query.domain # "any" /\ Len(Matches) < Asked /\ limit < Len(rows)

Search ==
    /\ pc = "search"
    /\ IF Widen
       THEN limit' = Least(Len(rows), Most(limit * 2, limit + Asked)) /\ UNCHANGED <<pc, found>>
       ELSE /\ found' = SubSeq(Matches, 1, Least(Asked, Len(Matches)))
            /\ Go(IF Matches = <<>> THEN "answered" ELSE "rerank") /\ UNCHANGED limit
    /\ UNCHANGED <<file, query, rows, reply, hits, replaced>>

-----------------------------------------------------------------------------
(* The reranker's reply.                                                   *)

None == MaxRows + 1  \* no index in the row

\* Rows with an index, perhaps of no passage, or with a rank, or with neither.
ReplyRows ==
    {r \in [index : 0 .. Len(found) \cup {None}, rank : BOOLEAN, score : 0 .. MaxScore] :
       r.rank => r.index = None}

\* The passage that the row at a position speaks of: by its index, or by its
\* position if it has a rank.
Addressed(r, n) == IF r[n].index # None THEN r[n].index ELSE IF r[n].rank THEN n - 1 ELSE None

\* _extract_scores_from_list: the last row that speaks of a passage counts.
Indexed(r) ==
    FoldLeft(LAMBDA scores, n : IF Addressed(r, n) = None THEN scores
                                ELSE [p \in DOMAIN scores \cup {Addressed(r, n)} |->
                                        IF p = Addressed(r, n) THEN r[n].score ELSE scores[p]],
             [p \in {} |-> 0], [n \in DOMAIN r |-> n])

Plain(r) == [p \in 0 .. Len(r) - 1 |-> r[p + 1].score]

\* As many passages as candidates, or an invalid response; a passage that no
\* row speaks of is an error of another kind.
Scores(r) == IF DOMAIN Indexed(r) # {} THEN Indexed(r) ELSE Plain(r)
Accepted(r) == Cardinality(DOMAIN Scores(r)) = Len(found) /\ DOMAIN Scores(r) = 0 .. Len(found) - 1

\* Before another in the ranking: a higher score, or the same and nearer.
Precedes(a, b) == a.score > b.score \/ (a.score = b.score /\ a.row < b.row)

\* The ranking of all candidates, and the first of them.
Rerank ==
    /\ pc = "rerank"
    /\ reply' \in BoundedSeq(ReplyRows, Len(found) + 1)
    /\ IF Accepted(reply')
       THEN LET scored == {[row |-> found[i], score |-> Scores(reply')[i - 1]] : i \in DOMAIN found}
                ranking == SetToSortSeq(scored, Precedes)
            IN hits' = SubSeq(ranking, 1, Least(query.k, Len(ranking))) /\ Go("answered")
       ELSE Go("failed") /\ UNCHANGED hits
    /\ UNCHANGED <<file, query, rows, limit, found, replaced>>

-----------------------------------------------------------------------------
\* An operator replaces the file while the retrieval is under way; a search
\* that has begun does not see it.
Replace ==
    /\ pc \in {"embed", "open"} /\ replaced < MaxReplaced
    /\ file' \in Files \ {file} /\ replaced' = replaced + 1
    /\ UNCHANGED <<query, pc, rows, limit, found, reply, hits>>

Next == Inspect \/ Embed \/ OpenSearch \/ Search \/ Rerank \/ Replace

Spec == Init /\ [][Next]_vars

-----------------------------------------------------------------------------
(* Properties.                                                             *)

TypeOK ==
    /\ pc \in {"ready", "embed", "open", "search", "rerank", "answered", "refused", "failed"}
    /\ rows \in Seq(Domains) /\ limit \in 0 .. Len(rows)
    /\ found \in Seq(1 .. Len(rows)) /\ Len(found) <= Asked
    /\ hits \in Seq([row : 1 .. Len(rows), score : 0 .. MaxScore]) /\ Len(hits) <= query.k
    /\ replaced \in 0 .. MaxReplaced

InDomain(n) == {i \in 1 .. n : query.domain \in {"any", rows[i]}}

\* The dense candidates are the nearest rows of the domain, however many rows
\* of other domains lie before them; and an index that was reported as ready
\* and has not been replaced can be searched.
NearestOfDomain ==
    /\ pc \in {"rerank", "answered"} =>
         found = SetToSortSeq({i \in InDomain(Len(rows)) : Cardinality(InDomain(i - 1)) < Asked}, <)
    /\ pc = "open" /\ replaced = 0 => Usable(file)

\* Every hit has the score that the reply gave to its passage, in the last row
\* that speaks of it, and no candidate left out has a higher one - in whatever
\* order and form the reply came.
HitsFollowReply ==
    LET addressing(p) == {n \in DOMAIN reply : Addressed(reply, n) = p}
        speaksOf(p) == IF UNION {addressing(q) : q \in 0 .. Len(found)} = {} THEN {p + 1} ELSE addressing(p)
        last(p) == CHOOSE n \in speaksOf(p) : \A m \in speaksOf(p) : m <= n
        scoreOf(i) == reply[last(i - 1)].score
    IN pc = "answered" =>
         \A h \in DOMAIN hits : \E i \in DOMAIN found :
            /\ found[i] = hits[h].row /\ hits[h].score = scoreOf(i)
            /\ \A j \in DOMAIN found :
                 (\A g \in DOMAIN hits : hits[g].row # found[j]) => scoreOf(j) <= scoreOf(i)

=============================================================================
