--------------------------- MODULE PrivacyExport ---------------------------
(***************************************************************************)
(* The package a data export leaves in privacy_jobs, from its assembly by  *)
(* runExport (privacy-execution.service.ts) to its download by the bearer  *)
(* of the mailed link, its expiry and its purge.                           *)
(*                                                                         *)
(* Every run of runExport has a row of its own, which it saves as a whole  *)
(* from the entity it holds: a save is one step that overwrites the row.   *)
(* The lifetime of a package, 24 hours from its assembly, is a single      *)
(* event, Expire.  What the package contains is left out.                  *)
(***************************************************************************)
CONSTANTS Export,   \* runs of runExport, each with its row
          Reader,   \* requests for a download that may be under way at once
          Prompt,   \* exports whose link may be opened before their run is over
          Nothing

ASSUME ExportAssumption == Prompt \subseteq Export /\ Nothing \notin Export

VARIABLES
    row,      \* privacy_jobs
    run,      \* invocations of runExport, with the entity they hold
    mailed,   \* links that have reached a mailbox
    late,     \* packages older than EXPORT_TTL_MS
    reader,   \* invocations of downloadExport
    served    \* readers that were handed a package

vars == <<row, run, mailed, late, reader, served>>

\* token: downloadTokenHash is set; expires: downloadExpiresAt is.
Row == [status : {"none", "running", "succeeded", "retry_required"},
        package : BOOLEAN, token : BOOLEAN, expires : BOOLEAN,
        downloaded : BOOLEAN]

NoRow == [status |-> "none", package |-> FALSE, token |-> FALSE,
          expires |-> FALSE, downloaded |-> FALSE]

RunPc == {"idle", "assemble", "mail", "finish", "record", "failing", "over"}

Run == [pc : RunPc, held : Row, delivered : BOOLEAN]

ReaderState == [pc : {"idle", "take"}, export : Export \cup {Nothing}]

TypeOK ==
    /\ row \in [Export -> Row]
    /\ run \in [Export -> Run]
    /\ mailed \subseteq Export
    /\ late \subseteq Export
    /\ reader \in [Reader -> ReaderState]
    /\ \A r \in Reader : reader[r].pc = "take" => reader[r].export \in Export
    /\ served \in [Export -> SUBSET Reader]

Away == [pc |-> "idle", export |-> Nothing]

Init ==
    /\ row = [x \in Export |-> NoRow]
    /\ run = [x \in Export |-> [pc |-> "idle", held |-> NoRow,
                                delivered |-> FALSE]]
    /\ mailed = {}
    /\ late = {}
    /\ reader = [r \in Reader |-> Away]
    /\ served = [x \in Export |-> {}]

-----------------------------------------------------------------------------
(* runExport.                                                              *)

\* The run saves the entity e and goes on at pc.
SaveEntity(x, e, pc) ==
    /\ row' = [row EXCEPT ![x] = e]
    /\ run' = [run EXCEPT ![x].held = e, ![x].pc = pc]

Goto(x, pc) == run' = [run EXCEPT ![x].pc = pc] /\ UNCHANGED row

NewJob(x) ==
    /\ run[x].pc = "idle"
    /\ SaveEntity(x, [NoRow EXCEPT !.status = "running"], "assemble")
    /\ UNCHANGED <<mailed, late, reader, served>>

\* The package, the hash of its token and its expiry are saved.
Assemble(x) ==
    /\ run[x].pc = "assemble"
    /\ SaveEntity(x, [run[x].held EXCEPT !.package = TRUE, !.token = TRUE,
                                         !.expires = TRUE], "mail")
    /\ UNCHANGED <<mailed, late, reader, served>>

\* The mail goes out; or the call fails, although it may have gone out.
Mail(x) ==
    /\ run[x].pc = "mail"
    /\ \/ /\ mailed' = mailed \cup {x}
          /\ run' = [run EXCEPT ![x] = [@ EXCEPT !.pc = "finish",
                                                 !.delivered = TRUE]]
          /\ UNCHANGED row
       \/ /\ mailed' \in {mailed, mailed \cup {x}}
          /\ Goto(x, "failing")
    /\ UNCHANGED <<late, reader, served>>

Finish(x) ==
    /\ run[x].pc = "finish"
    /\ SaveEntity(x, [run[x].held EXCEPT !.status = "succeeded"], "record")
    /\ UNCHANGED <<mailed, late, reader, served>>

\* recordFulfilment, see PrivacyFulfilment.
Record(x) ==
    /\ run[x].pc = "record"
    /\ Goto(x, "over")
    /\ UNCHANGED <<mailed, late, reader, served>>

\* Any call throws.
Throws(x) ==
    /\ run[x].pc \in {"assemble", "finish", "record"}
    /\ Goto(x, "failing")
    /\ UNCHANGED <<mailed, late, reader, served>>

\* The catch block: what was delivered stays, or all is taken back; this save
\* may fail as well.
GiveUp(x) ==
    /\ run[x].pc = "failing"
    /\ \/ SaveEntity(x, [run[x].held EXCEPT
                           !.status = "retry_required",
                           !.package = @ /\ run[x].delivered,
                           !.token = @ /\ run[x].delivered,
                           !.expires = @ /\ run[x].delivered], "over")
       \/ Goto(x, "over")
    /\ UNCHANGED <<mailed, late, reader, served>>

\* The worker dies: whatever the row says is what stays.
Dies(x) ==
    /\ run[x].pc \notin {"idle", "over"}
    /\ Goto(x, "over")
    /\ UNCHANGED <<mailed, late, reader, served>>

-----------------------------------------------------------------------------
(* downloadExport.                                                         *)

\* The row is found by its token and judged without a lock.
Fetch(r, x) ==
    /\ reader[r].pc = "idle"
    /\ x \in mailed
    /\ x \in Prompt \/ run[x].pc = "over"
    /\ row[x].token /\ row[x].expires /\ x \notin late /\ row[x].package
    /\ reader' = [reader EXCEPT ![r] = [pc |-> "take", export |-> x]]
    /\ UNCHANGED <<row, run, mailed, late, served>>

Used(x) == [row[x] EXCEPT !.downloaded = TRUE, !.token = FALSE,
                          !.expires = FALSE, !.package = FALSE]

\* Mutant of Take: the row is not looked at again under the lock.
TakeUnchecked(r) ==
    LET x == reader[r].export IN
    /\ reader[r].pc = "take"
    /\ row' = [row EXCEPT ![x] = Used(x)]
    /\ served' = [served EXCEPT ![x] = @ \cup {r}]
    /\ reader' = [reader EXCEPT ![r] = Away]
    /\ UNCHANGED <<run, mailed, late>>

\* The row is locked and read again: the first to get there is served.  The
\* transaction may also fail.
Take(r) ==
    LET x == reader[r].export IN
    /\ reader[r].pc = "take"
    /\ \/ /\ ~row[x].downloaded
          /\ row' = [row EXCEPT ![x] = Used(x)]
          /\ served' = [served EXCEPT ![x] = @ \cup {r}]
       \/ UNCHANGED <<row, served>>
    /\ reader' = [reader EXCEPT ![r] = Away]
    /\ UNCHANGED <<run, mailed, late>>

-----------------------------------------------------------------------------
(* Time.                                                                   *)

Expire(x) ==
    /\ x \notin late
    /\ run[x].pc \notin {"idle", "assemble"}
    /\ late' = late \cup {x}
    /\ UNCHANGED <<row, run, mailed, reader, served>>

Purgeable == {x \in Export : row[x].expires /\ x \in late /\ row[x].package}

\* Mutant of Purge: only exports that succeeded are looked at.
PurgeSucceeded ==
    LET old == {x \in Purgeable : row[x].status = "succeeded"} IN
    /\ old # {}
    /\ row' = [x \in Export |->
                 IF x \in old
                 THEN [row[x] EXCEPT !.token = FALSE, !.package = FALSE]
                 ELSE row[x]]
    /\ UNCHANGED <<run, mailed, late, reader, served>>

\* purgeExpiredExportPackages: one UPDATE, hourly and before every run and
\* download.
Purge ==
    /\ Purgeable # {}
    /\ row' = [x \in Export |->
                 IF x \in Purgeable
                 THEN [row[x] EXCEPT !.token = FALSE, !.package = FALSE]
                 ELSE row[x]]
    /\ UNCHANGED <<run, mailed, late, reader, served>>

-----------------------------------------------------------------------------
Next ==
    \/ \E x \in Export :
         \/ NewJob(x) \/ Assemble(x) \/ Mail(x) \/ Finish(x) \/ Record(x)
         \/ Throws(x) \/ GiveUp(x) \/ Dies(x) \/ Expire(x)
         \/ \E r \in Reader : Fetch(r, x)
    \/ \E r \in Reader : Take(r)
    \/ Purge

Spec == Init /\ [][Next]_vars

\* Time passes, and an API process with its hourly timer is up.
FairSpec == Spec /\ WF_vars(Purge) /\ \A x \in Export : WF_vars(Expire(x))

-----------------------------------------------------------------------------
(* Properties.                                                             *)

\* A package whose link is opened when its run is over is handed out once,
\* however many requests for it are under way.
SettledSingleUse ==
    \A x \in Export \ Prompt : \A r, s \in served[x] : r = s

\* The purge looks at rows with an expiry only: a package without one would
\* stay for good.  No failure, download or late save leaves such a row.
PackageExpires == \A x \in Export : row[x].package => row[x].expires

\* "The package is stored only until download/expiry": whatever fails, and
\* whoever saves the row again, it is gone in the end.
PackageErased == \A x \in Export : <>[]~row[x].package

=============================================================================
