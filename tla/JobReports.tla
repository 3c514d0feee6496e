------------------------------ MODULE JobReports ------------------------------
(***************************************************************************)
(* How the report of an evaluation job is sealed, kept and fetched:        *)
(* storage/evaluation_jobs.py, for one job that is ending or has ended     *)
(* under an older version of the store.                                    *)
(*                                                                         *)
(* A report is too long for one answer.  A client fetches a manifest, which*)
(* verifies the whole report, and then fragments, each verified by itself  *)
(* against a digest that was kept when the report was sealed.  A report of *)
(* an older version has no such digests until the first fragment is asked  *)
(* for.  Each check is a transaction of its own; between them other readers*)
(* work, the retention ends, and the disk may damage what it keeps.        *)
(*                                                                         *)
(* Abstracted: a digest is what it digests; a damaged text or digest is    *)
(* equal to no other; the contents of cases and of the snapshot are intact *)
(* or not.  Damages that agree with each other, as of a report and of the  *)
(* number of its fragments, are beyond the checks.  Who ends the job, and  *)
(* when, is in EvaluationJobs.                                             *)
(***************************************************************************)
EXTENDS Naturals, Sequences

CONSTANTS
    Readers,  \* requests of the owner; every look at the row refuses the others
    Parts,    \* fragments of a sealed report
    MaxDamage \* bound: damages of the disk

ReportsAssumption == Parts \in Nat \ {0} /\ MaxDamage \in Nat

VARIABLES
    version,  \* PRAGMA user_version
    state,    \* of the job
    inputs,   \* the snapshot and the results of cases are as they were recorded
    report,   \* report_json, fragment by fragment; <<>> is NULL
    sum,      \* report_sha256
    count,    \* report_part_count; 0 is NULL
    parts,    \* evaluation_job_report_parts: fragment -> digest
    due,      \* expires_at has passed
    expired,  \* result_expired
    damage,   \* damages so far
    pc,       \* Readers -> position in report_manifest or report_part
    want,     \* Readers -> the fragment that is asked for, from 1
    got       \* history: Readers -> [part, text, count] that were answered

stored == <<version, state, inputs, report, sum, count, parts, due, expired>>
asked == <<pc, want, got>>
vars == <<stored, damage, asked>>

Sealed == [p \in 1 .. Parts |-> p]
Noise == Parts + 1    \* a damaged text
Blot == Parts + 2     \* a damaged digest
NoParts == [p \in {} |-> 0]

\* A job that runs, or one that an older version has ended and whose fragments,
\* kept by that version, need not be those of its report.
Init ==
    /\ \/ version = 5 /\ state = "running" /\ report = <<>> /\ sum = <<>> /\ count = 0 /\ parts = NoParts
       \/ /\ version \in {3, 4} /\ state = "completed" /\ report = Sealed /\ sum = Sealed
          /\ IF version = 4 THEN count = Parts /\ parts \in {Sealed, [Sealed EXCEPT ![1] = Noise]}
             ELSE count = 0 /\ parts = NoParts
    /\ inputs = TRUE /\ due = FALSE /\ expired = FALSE /\ damage = 0
    /\ pc = [r \in Readers |-> "idle"] /\ want = [r \in Readers |-> 1] /\ got = [r \in Readers |-> {}]

At(r, step) == pc[r] = step /\ version = 5
Goto(r, step) == pc' = [pc EXCEPT ![r] = step]

-----------------------------------------------------------------------------
(* The store.                                                              *)

\* The store is opened by this version: fragments of an older one are dropped.
Upgrade ==
    /\ version < 5
    /\ version' = 5 /\ count' = 0 /\ parts' = NoParts
    /\ UNCHANGED <<state, inputs, report, sum, due, expired, damage, asked>>

\* _finish: the report and the digests of its fragments commit with the state;
\* a job whose artifacts were changed fails without a report.
Seal ==
    /\ state = "running"
    /\ IF inputs THEN state' = "completed" /\ report' = Sealed /\ sum' = Sealed /\ count' = Parts /\ parts' = Sealed
       ELSE state' = "failed" /\ UNCHANGED <<report, sum, count, parts>>
    /\ UNCHANGED <<version, inputs, due, expired, damage, asked>>

RetentionEnds ==
    /\ state # "running" /\ ~due
    /\ due' = TRUE
    /\ UNCHANGED <<version, state, inputs, report, sum, count, parts, expired, damage, asked>>

\* Mutant of Purge: the digests of the fragments stay.
PurgeReportOnly ==
    /\ version = 5 /\ due /\ ~expired
    /\ expired' = TRUE /\ report' = <<>>
    /\ UNCHANGED <<version, state, inputs, sum, count, parts, due, damage, asked>>

\* purge_expired.
Purge ==
    /\ version = 5 /\ due /\ ~expired
    /\ expired' = TRUE /\ report' = <<>> /\ parts' = NoParts
    /\ UNCHANGED <<version, state, inputs, sum, count, due, damage, asked>>

\* The disk returns something else than was written.
Damage ==
    /\ damage < MaxDamage /\ damage' = damage + 1
    /\ \/ inputs' = FALSE /\ UNCHANGED <<report, sum, count, parts>>
       \/ /\ report # <<>>
          /\ \/ report' \in {[report EXCEPT ![p] = Noise] : p \in DOMAIN report}
             \/ report' = SubSeq(report, 1, Len(report) - 1)
          /\ UNCHANGED <<inputs, sum, count, parts>>
       \/ sum # <<>> /\ sum' = <<Blot>> /\ UNCHANGED <<inputs, report, count, parts>>
       \/ count' \in 1 .. Parts + 1 /\ UNCHANGED <<inputs, report, sum, parts>>
       \/ /\ parts' \in {[parts EXCEPT ![p] = Blot] : p \in DOMAIN parts}
          /\ UNCHANGED <<inputs, report, sum, count>>
    /\ UNCHANGED <<version, state, due, expired, asked>>

-----------------------------------------------------------------------------
(* A reader.                                                               *)

\* What every look at the row requires.
Open == ~due /\ ~expired /\ state # "running"

\* result: the whole report has the digest that was kept with it.
Verified == Open /\ report # <<>> /\ report = sum

Give(r, p) == got' = [got EXCEPT ![r] = @ \cup {[part |-> p, text |-> report[p], count |-> count]}]

\* eval_result and the manifest resource: the report is verified, and its first
\* fragment asked for.  The resource of a fragment: any index.
Ask(r) ==
    /\ At(r, "idle")
    /\ \/ want' = [want EXCEPT ![r] = 1] /\ Goto(r, IF Verified THEN "part" ELSE "idle")
       \/ \E p \in 1 .. Parts + 1 : want' = [want EXCEPT ![r] = p] /\ Goto(r, "part")
    /\ UNCHANGED <<stored, damage, got>>

\* report_part reads the row, the digest and the fragment in one transaction.
\* A report whose fragments are not known has to be verified first.
ReadPart(r) ==
    /\ At(r, "part")
    /\ IF Open /\ count = 0 THEN Goto(r, "verify") /\ UNCHANGED got
       ELSE /\ Goto(r, "idle")
            /\ IF /\ Open /\ want[r] <= count /\ report # <<>> /\ count = Len(report)
                  /\ want[r] \in DOMAIN parts /\ parts[want[r]] = report[want[r]]
               THEN Give(r, want[r])
               ELSE UNCHANGED got
    /\ UNCHANGED <<stored, damage, want>>

VerifyReport(r) ==
    /\ At(r, "verify")
    /\ Goto(r, IF Verified THEN "migrate" ELSE "idle")
    /\ UNCHANGED <<stored, damage, want, got>>

\* Mutant of Migrate: the report was verified a moment ago.
MigrateVerified(r) ==
    /\ At(r, "migrate")
    /\ IF due \/ expired \/ report = <<>> THEN Goto(r, "idle") /\ UNCHANGED <<count, parts>>
       ELSE /\ Goto(r, "part")
            /\ IF count = 0 THEN count' = Len(report) /\ parts' = report ELSE UNCHANGED <<count, parts>>
    /\ UNCHANGED <<version, state, inputs, report, sum, due, expired, damage, want, got>>

\* Mutant of Migrate: the number of fragments is not kept.
MigrateUncounted(r) ==
    /\ At(r, "migrate")
    /\ IF due \/ expired \/ report = <<>> \/ report # sum THEN Goto(r, "idle") /\ UNCHANGED parts
       ELSE Goto(r, "part") /\ parts' = report
    /\ UNCHANGED <<version, state, inputs, report, sum, count, due, expired, damage, want, got>>

\* Mutant of Migrate: each reader that has verified the report adds its fragments.
MigrateAgain(r) ==
    /\ At(r, "migrate")
    /\ IF due \/ expired \/ report = <<>> \/ report # sum THEN Goto(r, "idle") /\ UNCHANGED <<count, parts>>
       ELSE Goto(r, "part") /\ parts' = report /\ count' = count + Len(report)
    /\ UNCHANGED <<version, state, inputs, report, sum, due, expired, damage, want, got>>

\* The digests of the fragments are written by the first reader that comes to
\* it, from a report that it verifies once more.
Migrate(r) ==
    /\ At(r, "migrate")
    /\ IF due \/ expired \/ (count = 0 /\ (report = <<>> \/ report # sum))
       THEN Goto(r, "idle") /\ UNCHANGED <<count, parts>>
       ELSE /\ Goto(r, "part")
            /\ IF count = 0 THEN count' = Len(report) /\ parts' = report ELSE UNCHANGED <<count, parts>>
    /\ UNCHANGED <<version, state, inputs, report, sum, due, expired, damage, want, got>>

Read(r) == Ask(r) \/ ReadPart(r) \/ VerifyReport(r) \/ Migrate(r)
Next == Upgrade \/ Seal \/ RetentionEnds \/ Purge \/ Damage \/ \E r \in Readers : Read(r)

\* A reader that has asked is answered.
Fairness == \A r \in Readers : WF_vars(ReadPart(r) \/ VerifyReport(r) \/ Migrate(r))
Spec == Init /\ [][Next]_vars
FairSpec == Spec /\ Fairness

-----------------------------------------------------------------------------
(* Properties.                                                             *)

Texts == 1 .. Parts + 2

TypeOK ==
    /\ version \in 3 .. 5 /\ state \in {"running", "completed", "failed"} /\ inputs \in BOOLEAN
    /\ report \in Seq(Texts) /\ Len(report) <= Parts /\ sum \in Seq(Texts) /\ count \in 0 .. Parts + 1
    /\ DOMAIN parts \subseteq 1 .. Parts /\ \A p \in DOMAIN parts : parts[p] \in Texts
    /\ due \in BOOLEAN /\ expired \in BOOLEAN /\ damage \in 0 .. MaxDamage
    /\ pc \in [Readers -> {"idle", "part", "verify", "migrate"}] /\ want \in [Readers -> 1 .. Parts + 1]
    /\ got \in [Readers -> SUBSET [part : 1 .. Parts, text : Texts, count : 1 .. Parts + 1]]

\* Whatever a reader was given, at whatever time, is a fragment of the report
\* that was sealed, at its place in it, out of as many as there are: the disk
\* may damage the report, the digests or the artifacts at any moment, the
\* fragments of an older version may be wrong, other readers may migrate the
\* report - then nothing is given, never another text.  (The number of fragments
\* has no digest: a second damage may make it agree with a report cut short.)
FragmentsAreSealed ==
    \A r \in Readers : \A fragment \in got[r] :
        fragment.text = fragment.part /\ (damage <= 1 => fragment.count = Parts)

\* Once the payloads of a job are purged nothing of its report is left, also
\* when a reader was about to write the digests of its fragments.
PurgedLeavesNothing == expired => report = <<>> /\ DOMAIN parts = {}

\* A request for a fragment is answered or refused: the way back from the
\* migration to the reading is taken once, not for ever.
ReadersAreAnswered == \A r \in Readers : pc[r] # "idle" ~> pc[r] = "idle"

=============================================================================
