------------------------------- MODULE Versions -------------------------------
(***************************************************************************)
(* The versions of one case's contract: how save_result numbers, renders,  *)
(* uploads and records a document (app/agent/nodes.py, app/contract_docx.  *)
(* py, app/storage.py, app/db/crud.py), and what the download route serves *)
(* for a version (app/cases/routes.py, app/cases/docx_paths.py).           *)
(*                                                                         *)
(* AgentGraph takes save_result in one step.  Here it is a sequence of     *)
(* calls to the database, the disk and the storage, because the runs of a  *)
(* case can overlap: a run that the watchdog has given up goes on in its   *)
(* thread while the next turn's run is under way.  The number of the file  *)
(* and the number of the row come from two reads of the table, and neither *)
(* is unique by a constraint.                                              *)
(***************************************************************************)
EXTENDS Integers

CONSTANTS
  Runs,        \* runs that reach save_result with a contract to deliver
  Legacy,      \* stands for the author of a version of the time before S3
  VersionNumbers      \* version numbers in use, an initial segment of 1, 2, ...

Missing == "missing"     \* no document

ASSUME VersionsAssumption ==
  /\ Legacy \notin Runs /\ Missing \notin Runs \cup {Legacy}
  /\ VersionNumbers \subseteq Nat \ {0} /\ 1 \in VersionNumbers

VARIABLES
  s3,          \* settings.s3_enabled
  rows,        \* contract_versions of the case
  object,      \* object[n]: whose document is at contracts/<case>/v<n>.docx
  written,     \* written[n]: the same on disk, where contract_docx writes
  served,      \* served[n]: the same on disk, where docx_paths looks
  saving,      \* saving[r]: how far save_result of run r has come
  overlapped   \* history: the runs whose save was under way with another's

versionVars == <<s3, rows, object, written, served, saving, overlapped>>

Authors == Runs \cup {Legacy}
Files == [VersionNumbers -> Authors \cup {Missing}]
NoFiles == [n \in VersionNumbers |-> Missing]

\* The place of docx_path: an s3:// URI, a path on disk, or NULL.
Row == [run : Authors, number : VersionNumbers, place : {"s3", "disk", "null"}, key : VersionNumbers]

Before == [pc |-> "before"]
Done == [pc |-> "done"]
Step(pc, n) == [pc |-> pc, key |-> n]
Inserting(n, m) == [pc |-> "insert", key |-> n, number |-> m]
Stages == {Before, Done} \cup [pc : {"render", "upload", "unlink", "number"}, key : VersionNumbers]
          \cup [pc : {"insert"}, key : VersionNumbers, number : VersionNumbers]
Busy(r) == saving[r] \notin {Before, Done}

VersionsInit ==
  /\ s3 \in BOOLEAN
  /\ object = NoFiles
  /\ written = NoFiles
  /\ saving = [r \in Runs |-> Before]
  /\ overlapped = {}
  /\ \/ rows = {} /\ served = NoFiles
     \/ /\ \E place \in {"disk", "null"} :
             rows = {[run |-> Legacy, number |-> 1, place |-> place, key |-> 1]}
        /\ served = [NoFiles EXCEPT ![1] = Legacy]

-----------------------------------------------------------------------------
(* save_result *)

\* Mutant: the greatest number itself.
IsNext_Latest(n) ==
  /\ \A row \in rows : row.number <= n
  /\ \/ rows = {} /\ n = 1
     \/ \E row \in rows : row.number = n

\* One more than the greatest number, 1 when there is none.
IsNext(n) ==
  /\ \A row \in rows : row.number < n
  /\ n = 1 \/ \E row \in rows : row.number = n - 1

\* get_latest_version gives the number of the file.
Look(r) ==
  /\ saving[r] = Before
  /\ \E n \in VersionNumbers : IsNext(n) /\ saving' = [saving EXCEPT ![r] = Step("render", n)]
  /\ overlapped' = IF \E q \in Runs : Busy(q)
                   THEN overlapped \cup {r} \cup {q \in Runs : Busy(q)} ELSE overlapped
  /\ UNCHANGED <<s3, rows, object, written, served>>

\* generate_docx.
Render(r) ==
  /\ saving[r].pc = "render"
  /\ written' = [written EXCEPT ![saving[r].key] = r]
  /\ saving' = [saving EXCEPT ![r] = Step(IF s3 THEN "upload" ELSE "number", saving[r].key)]
  /\ UNCHANGED <<s3, rows, object, served, overlapped>>

\* upload_contract_docx sends what the file holds by now.
Upload(r) ==
  /\ saving[r].pc = "upload"
  /\ written[saving[r].key] # Missing
  /\ object' = [object EXCEPT ![saving[r].key] = written[saving[r].key]]
  /\ saving' = [saving EXCEPT ![r] = Step("unlink", saving[r].key)]
  /\ UNCHANGED <<s3, rows, written, served, overlapped>>

\* unlink(missing_ok=True); its failure is logged and passed over.
Unlink(r) ==
  /\ saving[r].pc = "unlink"
  /\ written' \in {written, [written EXCEPT ![saving[r].key] = Missing]}
  /\ saving' = [saving EXCEPT ![r] = Step("number", saving[r].key)]
  /\ UNCHANGED <<s3, rows, object, served, overlapped>>

\* save_contract_version numbers the row by a read of its own.
Number(r) ==
  /\ saving[r].pc = "number"
  /\ \E n \in VersionNumbers :
       IsNext(n) /\ saving' = [saving EXCEPT ![r] = Inserting(saving[r].key, n)]
  /\ UNCHANGED <<s3, rows, object, written, served, overlapped>>

\* The transaction that has read the number commits the row.
Insert(r) ==
  /\ saving[r].pc = "insert"
  /\ rows' = rows \cup {[run |-> r, number |-> saving[r].number, key |-> saving[r].key,
                          place |-> IF s3 THEN "s3" ELSE "disk"]}
  /\ saving' = [saving EXCEPT ![r] = Done]
  /\ UNCHANGED <<s3, object, written, served, overlapped>>

\* A call raises, which save_result swallows, or the process dies: what was
\* written stays.
Abandon(r) ==
  /\ Busy(r)
  /\ saving' = [saving EXCEPT ![r] = Done]
  /\ UNCHANGED <<s3, rows, object, written, served, overlapped>>

VersionsNext ==
  \E r \in Runs : Look(r) \/ Render(r) \/ Upload(r) \/ Unlink(r) \/ Number(r)
                  \/ Insert(r) \/ Abandon(r)

VersionsSpec == VersionsInit /\ [][VersionsNext]_versionVars

-----------------------------------------------------------------------------
(* GET /api/cases/{case_id}/versions/{version_number}/download *)

\* docx_path is parsed back into the key the document was stored under.
Stored(row) == object[row.key]

\* version_dto and case_summary offer a link.
Offered(row) == row.place # "null" \/ served[row.number] # Missing

\* canonical_docx_path goes by the number of the row; resolve_docx_path by
\* the path, moved under the directory of docx_paths.
OnDisk(row) ==
  IF served[row.number] # Missing THEN served[row.number] ELSE served[row.key]

Download(row) ==
  CASE row.place = "null" -> served[row.number]
    [] row.place = "s3"   -> Stored(row)
    [] row.place = "disk" -> OnDisk(row)

-----------------------------------------------------------------------------
(* Properties *)

VersionsTypeOK ==
  /\ s3 \in BOOLEAN
  /\ rows \subseteq Row
  /\ object \in Files /\ written \in Files /\ served \in Files
  /\ saving \in [Runs -> Stages]
  /\ overlapped \subseteq Runs

\* A version that was saved while no other save of the case was under way has
\* a number of its own, is offered, and its link gives its own document for
\* good: not one that a later, a failed or an overlapping save has put under
\* the same name.  Without S3 the rows are left out: contract_docx writes under
\* a directory that docx_paths does not look in.
VersionServesItself ==
  \A row \in rows :
    row.run \notin overlapped /\ (row.place = "disk" => row.run = Legacy)
      => /\ \A other \in rows : other.number = row.number => other = row
         /\ Offered(row)
         /\ Download(row) = row.run
=============================================================================
