---------------------------- MODULE VectorReplica ----------------------------
(***************************************************************************)
(* External vector replicas: storage/vectors.py, the Qdrant and pgvector   *)
(* adapters, ExternalVectorIndexStore and services/vector_storage.py.      *)
(*                                                                         *)
(* A replica holds the vectors of one generation in a namespace of its     *)
(* own.  Publication fills a namespace that does not exist and then reads  *)
(* it back; what exists is read back only, never completed.  `vector sync` *)
(* does the same without the publisher's lock.  A command may die between  *)
(* two batches, and whoever has the credentials may change the remote.     *)
(*                                                                         *)
(* Abstracted: a record is its key, the keys numbered by their distance to *)
(* the query; a stored record is right, altered (vector or domain), or     *)
(* bound to another generation.  The scroll over pages is one step.        *)
(***************************************************************************)
EXTENDS Naturals, FiniteSets

CONSTANTS
    Sealed,      \* the generations
    NoGeneration,
    Publishers,  \* commands that publish and synchronize
    Searches,    \* searches by readers
    Backends,    \* of "qdrant" and "pgvector"
    KeyCount,    \* records of a generation
    BatchSize,   \* the 128 of a Qdrant upload
    TopK,
    MaxTampers   \* bound: changes by others

ReplicaAssumption ==
    /\ NoGeneration \notin Sealed /\ Backends \subseteq {"qdrant", "pgvector"}
    /\ KeyCount \in Nat \ {0} /\ BatchSize \in Nat \ {0} /\ TopK \in Nat /\ MaxTampers \in Nat

Keys == 1 .. KeyCount
Stranger == KeyCount + 1  \* a key that no generation has
Slots == Keys \cup {Stranger}
NoReplica == [k \in Slots |-> "none"]
Empty == [k \in Slots |-> "absent"]
Complete == [k \in Slots |-> IF k = Stranger THEN "absent" ELSE "right"]

VARIABLES
    backend,
    selected, \* the active generation
    remote,   \* Sealed -> replica
    command,  \* Publishers -> what the command does
    search,   \* Searches -> what the search does
    ready,    \* history: generations that a command has reported as replicated
    tampered, \* history: generations whose replica others have changed
    tampers   \* changes by others so far

vars == <<backend, selected, remote, command, search, ready, tampered, tampers>>

Idle == [pc |-> "idle", of |-> NoGeneration, sent |-> 0, publishes |-> FALSE]
NoSearch == [pc |-> "idle", of |-> NoGeneration, domain |-> {}, answer |-> {}]

Init ==
    /\ backend \in Backends
    /\ selected = NoGeneration
    /\ remote = [g \in Sealed |-> NoReplica]
    /\ command = [p \in Publishers |-> Idle]
    /\ search = [q \in Searches |-> NoSearch]
    /\ ready = {} /\ tampered = {} /\ tampers = 0

Goes(p, next) == command' = [command EXCEPT ![p].pc = next]
End(p) == command' = [command EXCEPT ![p] = Idle]
Begin(p, g, publishes) ==
    command' = [command EXCEPT ![p] = [pc |-> "discover", of |-> g, sent |-> 0, publishes |-> publishes]]

Local == <<backend, search, tampered, tampers>>

-----------------------------------------------------------------------------
(* prepare_vector_generation.                                              *)

\* A publication has sealed g in its staging; only one publishes at a time.
StartPublication(p) ==
    /\ command[p] = Idle
    /\ \A other \in Publishers : ~command[other].publishes
    /\ \E g \in Sealed : Begin(p, g, TRUE)
    /\ UNCHANGED <<selected, remote, ready, Local>>

\* `vector sync` pins the active generation.
StartSync(p) ==
    /\ command[p] = Idle /\ selected # NoGeneration
    /\ Begin(p, selected, FALSE)
    /\ UNCHANGED <<selected, remote, ready, Local>>

\* prepare looks for the namespace.
Discover(p) ==
    /\ command[p].pc = "discover"
    /\ Goes(p, IF remote[command[p].of] = NoReplica THEN "create" ELSE "validate")
    /\ UNCHANGED <<selected, remote, ready, Local>>

\* Qdrant confirms the creation to one of those who ask for it.
CreateCollection(p) ==
    /\ backend = "qdrant" /\ command[p].pc = "create"
    /\ IF remote[command[p].of] = NoReplica
       THEN remote' = [remote EXCEPT ![command[p].of] = Empty] /\ Goes(p, "upload")
       ELSE End(p) /\ UNCHANGED remote
    /\ UNCHANGED <<selected, ready, Local>>

Batch(p) == Keys \cap (command[p].sent + 1) .. (command[p].sent + BatchSize)

\* One batch of the upload.
UploadBatch(p) ==
    /\ command[p].pc = "upload" /\ remote[command[p].of] # NoReplica
    /\ remote' = [remote EXCEPT ![command[p].of] =
                    [k \in Slots |-> IF k \in Batch(p) THEN "right" ELSE @[k]]]
    /\ command' = [command EXCEPT ![p].sent = @ + BatchSize,
                                  ![p].pc = IF KeyCount \in Batch(p) THEN "validate" ELSE @]
    /\ UNCHANGED <<selected, ready, Local>>

\* What was read back is right: a publication goes on, a sync reports success.
Verified(p) ==
    IF command[p].publishes
    THEN Goes(p, "activate") /\ UNCHANGED ready
    ELSE End(p) /\ ready' = ready \cup {command[p].of}

\* pgvector creates, fills and reads back the table in one transaction, which
\* fails where another has committed the table in between.
PublishTable(p) ==
    /\ backend = "pgvector" /\ command[p].pc = "create"
    /\ IF remote[command[p].of] = NoReplica
       THEN remote' = [remote EXCEPT ![command[p].of] = Complete] /\ Verified(p)
       ELSE End(p) /\ UNCHANGED <<remote, ready>>
    /\ UNCHANGED <<selected, Local>>

\* Mutant of Validate: a namespace of the right name is adopted.
ValidateName(p) ==
    /\ command[p].pc = "validate"
    /\ Verified(p)
    /\ UNCHANGED <<selected, remote, Local>>

\* The read back: as many records as the generation has, each with its key,
\* domain, generation and vector.
Validate(p) ==
    /\ command[p].pc = "validate"
    /\ IF remote[command[p].of] = Complete THEN Verified(p) ELSE End(p) /\ UNCHANGED ready
    /\ UNCHANGED <<selected, remote, Local>>

\* The publication replaces the pointer and reports success.
Activate(p) ==
    /\ command[p].pc = "activate"
    /\ selected' = command[p].of /\ ready' = ready \cup {command[p].of}
    /\ End(p)
    /\ UNCHANGED <<remote, Local>>

\* `generation activate`, `rollback` and bundle import select without a network.
Select(g) ==
    /\ \A p \in Publishers : ~command[p].publishes
    /\ selected # g /\ selected' = g
    /\ UNCHANGED <<remote, command, ready, Local>>

\* A request fails or the command dies: what has been uploaded stays.
Fail(p) ==
    /\ command[p] # Idle
    /\ End(p)
    /\ UNCHANGED <<selected, remote, ready, Local>>

-----------------------------------------------------------------------------
(* ExternalVectorIndexStore.                                               *)

Remote == <<backend, selected, remote, command, ready, tampered, tampers>>

Turns(q, next, answer) == search' = [search EXCEPT ![q].pc = next, ![q].answer = answer]

\* A reader holds the active generation and searches all of it or one domain.
Open(q, domain) ==
    /\ search[q].pc = "idle" /\ selected # NoGeneration
    /\ search' = [search EXCEPT ![q] = [pc |-> "check", of |-> selected, domain |-> domain, answer |-> {}]]
    /\ UNCHANGED Remote

Stored(g) == {k \in Slots : remote[g][k] \in {"right", "altered", "unscoped"}}
Scoped(g) == {k \in Stored(g) : remote[g][k] # "unscoped"}

\* check: the schema, the count of all records and of the generation's.
CountsAgree(g) ==
    remote[g] # NoReplica /\ Cardinality(Stored(g)) = KeyCount /\ Cardinality(Scoped(g)) = KeyCount

Check(q) ==
    /\ search[q].pc = "check"
    /\ Turns(q, IF CountsAgree(search[q].of) THEN "query" ELSE "refused", {})
    /\ UNCHANGED Remote

\* The n nearest of some keys.
Nearest(S, n) == {k \in S : Cardinality({other \in S : other < k}) < n}

\* What the backend may reply: the nearest of the stored records in scope,
\* where an altered record may lie anywhere and in any domain.
Replies(g, domain) ==
    LET altered == {k \in Scoped(g) : remote[g][k] = "altered"}
    IN {Nearest({k \in domain : remote[g][k] = "right"}, TopK - Cardinality(some)) \cup some :
          some \in {s \in SUBSET altered : Cardinality(s) <= TopK}}

\* validate_records: a match has the key and the vector of a canonical record.
Genuine(g, k) == k \in Keys /\ remote[g][k] = "right"

\* One genuine match after the other in the domain asked for, or nothing;
\* scores and texts are those of the local generation.
Search(q) ==
    LET g == search[q].of IN
    /\ search[q].pc = "query" /\ remote[g] # NoReplica
    /\ \E matches \in Replies(g, search[q].domain) :
         IF \A k \in matches : k \in search[q].domain /\ Genuine(g, k)
         THEN Turns(q, "answered", matches)
         ELSE Turns(q, "refused", {})
    /\ UNCHANGED Remote

\* The remote cannot be reached, or the namespace is gone.
Unreachable(q) ==
    /\ search[q].pc \in {"check", "query"}
    /\ Turns(q, "refused", {})
    /\ UNCHANGED Remote

Close(q) ==
    /\ search[q].pc \in {"answered", "refused"}
    /\ search' = [search EXCEPT ![q] = NoSearch]
    /\ UNCHANGED Remote

-----------------------------------------------------------------------------
\* Somebody drops the namespace, or adds, alters or removes a record of it.
Tamper(g) ==
    /\ remote[g] # NoReplica
    /\ tampers < MaxTampers /\ tampers' = tampers + 1
    /\ tampered' = tampered \cup {g}
    /\ \/ remote' = [remote EXCEPT ![g] = NoReplica]
       \/ \E k \in Slots, value \in {"absent", "altered", "unscoped"} :
            remote[g][k] # value /\ remote' = [remote EXCEPT ![g][k] = value]
    /\ UNCHANGED <<backend, selected, command, search, ready>>

-----------------------------------------------------------------------------
Command(p) ==
    \/ StartPublication(p) \/ StartSync(p) \/ Discover(p) \/ CreateCollection(p) \/ UploadBatch(p)
    \/ PublishTable(p) \/ Validate(p) \/ Activate(p) \/ Fail(p)

Reader(q) ==
    \/ \E domain \in {Keys, {k \in Keys : k % 2 = 0}} : Open(q, domain)
    \/ Check(q) \/ Search(q) \/ Unreachable(q) \/ Close(q)

Next ==
    \/ \E p \in Publishers : Command(p)
    \/ \E q \in Searches : Reader(q)
    \/ \E g \in Sealed : Select(g) \/ Tamper(g)

Spec == Init /\ [][Next]_vars

-----------------------------------------------------------------------------
(* Properties.                                                             *)

Records == {"none", "absent", "right", "altered", "unscoped"}

TypeOK ==
    /\ backend \in Backends
    /\ selected \in Sealed \cup {NoGeneration}
    /\ remote \in [Sealed -> [Slots -> Records]]
    /\ command \in [Publishers -> [pc : {"idle", "discover", "create", "upload", "validate", "activate"},
                                    of : Sealed \cup {NoGeneration}, sent : 0 .. KeyCount + BatchSize,
                                    publishes : BOOLEAN]]
    /\ search \in [Searches -> [pc : {"idle", "check", "query", "answered", "refused"},
                                 of : Sealed \cup {NoGeneration}, domain : SUBSET Keys,
                                 answer : SUBSET Keys]]
    /\ ready \subseteq Sealed /\ tampered \subseteq Sealed /\ tampers \in 0 .. MaxTampers

\* A replica that a publication or a sync has reported is whole, unless others
\* have changed it: an upload that broke off is never taken for a replica, by
\* whichever command finds it.
ReportedReplicaIsWhole == \A g \in ready \ tampered : remote[g] = Complete

\* A search answers with the nearest records of its generation and domain or
\* refuses: it never answers from a part of a replica, and what others have
\* put into the replica is never in an answer.
AnswersComeFromWhole ==
    \A q \in Searches : search[q].pc = "answered" =>
        /\ search[q].answer \subseteq search[q].domain
        /\ search[q].of \notin tampered => search[q].answer = Nearest(search[q].domain, TopK)

=============================================================================
