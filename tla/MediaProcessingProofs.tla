------------------------- MODULE MediaProcessingProofs -------------------------
(* Proofs about MediaProcessing, for any number of assets, pictures, handler   *)
(* runs and requests, with every crash, timeout and repeated delivery.  The    *)
(* invariant says what a run knows at each await: a run that is about to       *)
(* complete an asset has left a row behind (or a picture of that content has   *)
(* vanished), and the asset a run has read keeps its checksum.  Most steps     *)
(* disturb none of it: what the tables never lose (WorldKept) is shown once    *)
(* per step and carries the invariant of every other run and request over.     *)
(* A second invariant (AllFit) is about one asset at a time: who is at work on *)
(* it and who may still call the provider for it.                              *)
EXTENDS MediaProcessing, FiniteSetTheorems, TLAPS

-------------------------------------------------------------------------------
(* The inductive invariant                                                     *)

Result(a) == row[a] # None \/ \E o \in vanished : picture[o] = asset[a].content

\* An asset that was never uploaded has no row and no job; one that was has a
\* checksum.
Fresh ==
    \A a \in Asset : asset[a].status = "none" =>
        row[a] = None /\ \A k \in Key : job[a][k] = "none"
Hashed == \A a \in Asset : asset[a].status # "none" => asset[a].content \in Content

Rows == \A a \in Asset : row[a] # None => picture[row[a]] = asset[a].content

RunOK(r) ==
    run[r].pc # "idle" =>
        LET a == run[r].asset
        IN /\ a \in Asset /\ run[r].key \in Key /\ asset[a].status # "none"
           /\ run[r].pc \in {"marking", "completing", "failing"} =>
                 run[r].seen \in AssetRow /\ run[r].seen.content = asset[a].content
           /\ run[r].pc = "save" =>
                 run[r].object \in Object /\ picture[run[r].object] = asset[a].content
           /\ run[r].pc \in {"done", "completing"} => Result(a)
RunsOK == \A r \in Run : RunOK(r)

RequestOK(q) ==
    request[q].pc # "idle" =>
        LET a == request[q].asset
        IN /\ a \in Asset /\ asset[a].status # "none"
           /\ request[q].pc \in {"exists", "saveExists", "saveRepit"} =>
                 /\ request[q].object \in Object
                 /\ picture[request[q].object] = asset[a].content
RequestsOK == \A q \in Request : RequestOK(q)

Finished == \A a \in Asset : asset[a].status = "completed" => Result(a)

IInv == TypeOK /\ Fresh /\ Hashed /\ Rows /\ RunsOK /\ RequestsOK /\ Finished

-------------------------------------------------------------------------------
(* What a step keeps                                                           *)

\* Assets stay uploaded and keep their checksum, pictures keep what they show,
\* and results are not lost.
WorldKept ==
    /\ \A a \in Asset : asset[a].status # "none" =>
          asset'[a].status # "none" /\ asset'[a].content = asset[a].content
    /\ \A o \in Object : picture[o] # None => picture'[o] = picture[o]
    /\ \A a \in Asset : asset[a].status # "none" /\ Result(a) => Result(a)'

LEMMA StatusSet ==
    Status = {"none", "uploaded", "queued", "processing", "failed",
              "retry_required", "completed", "cancelled"}
BY DEF Status, Transitions

LEMMA NoneIsNot ==
    /\ None \notin Content /\ None \notin Object /\ None \notin Asset
BY MediaAssumption

\* A row goes only when its picture has vanished; then the vanished picture
\* stands for the result.
LEMMA ResultsKept ==
    ASSUME TypeOK, Hashed, Rows,
           \A a \in Asset : asset[a].status # "none" =>
               asset'[a].status # "none" /\ asset'[a].content = asset[a].content,
           \A o \in Object : picture[o] # None => picture'[o] = picture[o],
           vanished \subseteq vanished',
           \A a \in Asset : row[a] = None \/ row'[a] # None \/ row[a] \notin Stored
    PROVE  WorldKept
<1> SUFFICES ASSUME NEW a \in Asset, asset[a].status # "none", Result(a)
             PROVE  Result(a)'
  BY DEF WorldKept
<1>1. asset[a].content \in Content /\ asset'[a].content = asset[a].content
  BY DEF Hashed
<1>2. CASE \E o \in vanished : picture[o] = asset[a].content
  <2>1. PICK o \in vanished : picture[o] = asset[a].content
    BY <1>2
  <2>2. o \in Object /\ o \in vanished' /\ picture'[o] = picture[o]
    BY <2>1, <1>1, NoneIsNot DEF TypeOK
  <2> QED
    BY <2>1, <2>2, <1>1 DEF Result
<1>3. CASE row[a] # None
  <2>1. CASE row'[a] # None
    BY <2>1 DEF Result
  <2>2. CASE row[a] \notin Stored
    <3>1. row[a] \in Object /\ picture[row[a]] = asset[a].content
      BY <1>3 DEF TypeOK, Rows
    <3>2. row[a] \in vanished
      BY <2>2, <3>1, <1>1, NoneIsNot DEF Stored
    <3> QED
      BY <3>1, <3>2, <1>2
  <2> QED
    BY <2>1, <2>2, <1>3
<1> QED
  BY <1>2, <1>3 DEF Result

LEMMA RunKept ==
    ASSUME TypeOK, Hashed, WorldKept, NEW r \in Run, RunOK(r), run'[r] = run[r]
    PROVE  RunOK(r)'
<1> SUFFICES ASSUME run[r].pc # "idle" PROVE RunOK(r)'
  BY DEF RunOK
<1> DEFINE a == run[r].asset
<1>1. /\ a \in Asset /\ run[r].key \in Key
      /\ asset[a].status # "none" /\ asset'[a].status # "none"
      /\ asset'[a].content = asset[a].content /\ asset[a].content \in Content
  BY DEF RunOK, WorldKept, Hashed
<1>2. run[r].pc \in {"marking", "completing", "failing"} =>
        run[r].seen \in AssetRow /\ run[r].seen.content = asset'[a].content
  BY <1>1 DEF RunOK
<1>3. run[r].pc = "save" =>
        run[r].object \in Object /\ picture'[run[r].object] = asset'[a].content
  BY <1>1, NoneIsNot DEF RunOK, WorldKept
<1>4. run[r].pc \in {"done", "completing"} => Result(a)'
  BY <1>1 DEF RunOK, WorldKept
<1> QED
  BY <1>1, <1>2, <1>3, <1>4 DEF RunOK, Result

LEMMA RequestKept ==
    ASSUME TypeOK, Hashed, WorldKept, NEW q \in Request, RequestOK(q),
           request'[q] = request[q]
    PROVE  RequestOK(q)'
BY NoneIsNot DEF RequestOK, WorldKept, Hashed

-------------------------------------------------------------------------------
(* The forms in which runs and requests change                                 *)

RunPCs == {"idle", "load", "mark", "marking", "succeeded", "gaveUp", "threw"} \cup Working

LEMMA RunTyped ==
    ASSUME TypeOK, NEW r \in Run, NEW x \in Execution, run' = [run EXCEPT ![r] = x]
    PROVE  /\ run' \in [Run -> Execution] /\ run'[r] = x
           /\ \A s \in Run \ {r} : run'[s] = run[s]
BY DEF TypeOK

LEMMA RequestTyped ==
    ASSUME TypeOK, NEW q \in Request, NEW x \in Errand, request' = [request EXCEPT ![q] = x]
    PROVE  /\ request' \in [Request -> Errand] /\ request'[q] = x
           /\ \A p \in Request \ {q} : request'[p] = request[p]
BY DEF TypeOK

LEMMA GoesForm ==
    \A x \in Execution, pc \in RunPCs :
        LET y == [x EXCEPT !.pc = pc, !.seen = None, !.object = None]
        IN /\ y \in Execution /\ y.pc = pc /\ y.asset = x.asset /\ y.key = x.key
           /\ y.holds = x.holds
BY DEF Execution, RunPCs

LEMMA RunGoesForm ==
    ASSUME TypeOK, NEW r \in Run, NEW pc \in RunPCs, RunGoes(r, pc)
    PROVE  /\ run' \in [Run -> Execution]
           /\ run'[r].pc = pc /\ run'[r].asset = run[r].asset /\ run'[r].key = run[r].key
           /\ run'[r].holds = run[r].holds
           /\ \A s \in Run \ {r} : run'[s] = run[s]
<1>1. run[r] \in Execution
  BY DEF TypeOK
<1> DEFINE x == [run[r] EXCEPT !.pc = pc, !.seen = None, !.object = None]
<1>2. /\ x \in Execution /\ x.pc = pc /\ x.asset = run[r].asset /\ x.key = run[r].key
      /\ x.holds = run[r].holds
  BY <1>1, GoesForm
<1>3. run' = [run EXCEPT ![r] = x]
  BY DEF RunGoes, TypeOK
<1> HIDE DEF x
<1> QED
  BY <1>2, <1>3, RunTyped

\* The pcs at which the invariant asks nothing of a run but its asset.
Plain_PCs == {"load", "mark", "succeeded", "gaveUp", "threw", "reuse", "content",
              "provider", "fail"}

LEMMA RunGoesOK ==
    ASSUME TypeOK, Hashed, WorldKept, NEW r \in Run, RunOK(r), run[r].pc # "idle",
           NEW pc \in RunPCs, RunGoes(r, pc),
           pc \in Plain_PCs \/ (pc = "done" /\ Result(run[r].asset)')
    PROVE  RunOK(r)'
<1>1. /\ run'[r].pc = pc /\ run'[r].asset = run[r].asset /\ run'[r].key = run[r].key
  BY RunGoesForm
<1>2. run[r].asset \in Asset /\ run[r].key \in Key /\ asset'[run[r].asset].status # "none"
  BY DEF RunOK, WorldKept
<1> QED
  BY <1>1, <1>2 DEF RunOK, Plain_PCs, Result

\* setStatus either goes to one of two pcs or remembers the row it has read.
LEMMA ReadsForForm ==
    ASSUME TypeOK, NEW r \in Run, NEW to, NEW there, NEW allowed, NEW refused,
           ReadsFor(r, to, there, allowed, refused)
    PROVE  \/ RunGoes(r, there) \/ RunGoes(r, refused)
           \/ run' = [run EXCEPT ![r] =
                [run[r] EXCEPT !.pc = allowed, !.seen = asset[run[r].asset]]]
BY DEF ReadsFor

LEMMA ReadForm ==
    ASSUME TypeOK, NEW r \in Run, NEW pc \in {"marking", "completing", "failing"},
           run[r].asset \in Asset,
           run' = [run EXCEPT ![r] = [run[r] EXCEPT !.pc = pc, !.seen = asset[run[r].asset]]]
    PROVE  /\ run' \in [Run -> Execution]
           /\ run'[r].pc = pc /\ run'[r].asset = run[r].asset /\ run'[r].key = run[r].key
           /\ run'[r].seen = asset[run[r].asset] /\ run'[r].holds = run[r].holds
           /\ \A s \in Run \ {r} : run'[s] = run[s]
<1> DEFINE old == run[r]
           now == asset[run[r].asset]
           x == [old EXCEPT !.pc = pc, !.seen = now]
<1>1. old \in Execution /\ now \in AssetRow /\ pc \in RunPCs
  BY DEF TypeOK, RunPCs, Working
<1>2. run' = [run EXCEPT ![r] = x]
  OBVIOUS
<1> HIDE DEF old, now
<1>3. /\ x \in Execution /\ x.pc = pc /\ x.asset = old.asset /\ x.key = old.key /\ x.seen = now
      /\ x.holds = old.holds
  BY <1>1 DEF Execution, RunPCs
<1> HIDE DEF x
<1>4. run' \in [Run -> Execution] /\ run'[r] = x /\ \A s \in Run \ {r} : run'[s] = run[s]
  BY <1>2, <1>3, RunTyped
<1> QED
  BY <1>3, <1>4 DEF old, now

LEMMA ReadOK ==
    ASSUME TypeOK, Hashed, WorldKept, NEW r \in Run, RunOK(r), run[r].pc # "idle",
           NEW pc \in {"marking", "completing", "failing"},
           run' = [run EXCEPT ![r] = [run[r] EXCEPT !.pc = pc, !.seen = asset[run[r].asset]]],
           pc = "completing" => run[r].pc = "done", UNCHANGED asset
    PROVE  RunOK(r)'
<1> DEFINE a == run[r].asset
<1>1. /\ a \in Asset /\ run[r].key \in Key /\ asset'[a].status # "none"
      /\ asset[a].status # "none" /\ asset[a] \in AssetRow
  BY DEF RunOK, WorldKept, TypeOK
<1>2. /\ run'[r].pc = pc /\ run'[r].asset = a /\ run'[r].key = run[r].key
      /\ run'[r].seen = asset[a]
  BY <1>1, ReadForm
<1>3. pc = "completing" => Result(a)'
  BY <1>1 DEF RunOK, WorldKept
<1> QED
  BY <1>1, <1>2, <1>3 DEF RunOK, Result

\* A step that takes one run to a plain pc keeps the invariant of all runs.
LEMMA RunsAfterGoing ==
    ASSUME TypeOK, Hashed, RunsOK, WorldKept, NEW r \in Run, run[r].pc # "idle",
           NEW pc \in RunPCs, RunGoes(r, pc),
           pc \in Plain_PCs \/ (pc = "done" /\ Result(run[r].asset)')
    PROVE  RunsOK' /\ run' \in [Run -> Execution]
<1>1. RunOK(r)' /\ \A s \in Run \ {r} : run'[s] = run[s]
  BY RunGoesForm, RunGoesOK DEF RunsOK
<1>2. \A s \in Run : RunOK(s)'
  BY <1>1, RunKept DEF RunsOK
<1> QED
  BY <1>2, RunGoesForm DEF RunsOK

\* setStatus is called where its outcome is plain, or with a result at hand.
LEMMA RunsAfterReading ==
    ASSUME TypeOK, Hashed, RunsOK, WorldKept, NEW r \in Run, run[r].pc # "idle",
           NEW to, NEW there \in Plain_PCs, NEW refused \in Plain_PCs,
           NEW allowed \in {"marking", "completing", "failing"},
           ReadsFor(r, to, there, allowed, refused),
           allowed = "completing" => run[r].pc = "done", UNCHANGED asset
    PROVE  RunsOK' /\ run' \in [Run -> Execution]
<1>0. there \in RunPCs /\ refused \in RunPCs
  BY DEF Plain_PCs, RunPCs, Working
<1>1. CASE RunGoes(r, there)
  BY <1>0, <1>1, RunsAfterGoing
<1>2. CASE RunGoes(r, refused)
  BY <1>0, <1>2, RunsAfterGoing
<1>3. CASE run' = [run EXCEPT ![r] =
              [run[r] EXCEPT !.pc = allowed, !.seen = asset[run[r].asset]]]
  <2>1. RunOK(r) /\ run[r].asset \in Asset
    BY DEF RunsOK, RunOK
  <2>2. run' \in [Run -> Execution] /\ \A s \in Run \ {r} : run'[s] = run[s]
    BY <1>3, <2>1, ReadForm
  <2>3. RunOK(r)'
    BY <1>3, <2>1, ReadOK
  <2>4. \A s \in Run : RunOK(s)'
    BY <2>2, <2>3, RunKept DEF RunsOK
  <2> QED
    BY <2>2, <2>4 DEF RunsOK
<1> QED
  BY <1>1, <1>2, <1>3, ReadsForForm

\* A step that gives one run the row x.
LEMMA RunsAfterReplacing ==
    ASSUME TypeOK, Hashed, RunsOK, WorldKept, NEW r \in Run, NEW x \in Execution,
           run' = [run EXCEPT ![r] = x], run'[r] = x => RunOK(r)'
    PROVE  RunsOK' /\ run' \in [Run -> Execution]
<1>1. run'[r] = x /\ run' \in [Run -> Execution] /\ \A s \in Run \ {r} : run'[s] = run[s]
  BY RunTyped
<1>2. \A s \in Run : RunOK(s)'
  BY <1>1, RunKept DEF RunsOK
<1> QED
  BY <1>1, <1>2 DEF RunsOK

LEMMA RunsUnchanged ==
    ASSUME TypeOK, Hashed, RunsOK, WorldKept, UNCHANGED run
    PROVE  RunsOK' /\ run' \in [Run -> Execution]
<1>1. \A s \in Run : RunOK(s)'
  BY RunKept DEF RunsOK
<1> QED
  BY <1>1 DEF RunsOK, TypeOK

LEMMA RequestsUnchanged ==
    ASSUME TypeOK, Hashed, RequestsOK, WorldKept, UNCHANGED request
    PROVE  RequestsOK' /\ request' \in [Request -> Errand]
<1>1. \A s \in Request : RequestOK(s)'
  BY RequestKept DEF RequestsOK
<1> QED
  BY <1>1 DEF RequestsOK, TypeOK

LEMMA RequestsAfterReplacing ==
    ASSUME TypeOK, Hashed, RequestsOK, WorldKept, NEW q \in Request, NEW x \in Errand,
           request' = [request EXCEPT ![q] = x], request'[q] = x => RequestOK(q)'
    PROVE  RequestsOK' /\ request' \in [Request -> Errand]
<1>1. request'[q] = x /\ request' \in [Request -> Errand]
      /\ \A p \in Request \ {q} : request'[p] = request[p]
  BY RequestTyped
<1>2. \A s \in Request : RequestOK(s)'
  BY <1>1, RequestKept DEF RequestsOK
<1> QED
  BY <1>1, <1>2 DEF RequestsOK

-------------------------------------------------------------------------------
(* Steps that leave assets, rows and pictures alone                            *)

LEMMA WorldSame ==
    ASSUME IInv, UNCHANGED <<asset, row, picture, vanished>>
    PROVE  WorldKept /\ Hashed' /\ Rows' /\ Finished'
<1>1. WorldKept
  BY DEF WorldKept, Result
<1> QED
  BY <1>1 DEF IInv, Hashed, Rows, Finished, Result

\* Jobs of assets that were uploaded may change.
LEMMA FreshWithJobs ==
    ASSUME IInv, UNCHANGED <<asset, row>>, NEW a \in Asset, asset[a].status # "none",
           NEW k \in Key, NEW s \in JobStatus,
           job' = [job EXCEPT ![a] = [@ EXCEPT ![k] = s]]
    PROVE  Fresh' /\ job' \in [Asset -> [Key -> JobStatus]]
BY DEF IInv, Fresh, TypeOK

LEMMA JobHasAsset ==
    ASSUME IInv, NEW a \in Asset, NEW k \in Key, job[a][k] # "none"
    PROVE  asset[a].status # "none"
BY DEF IInv, Fresh

LEMMA RequestOnly ==
    ASSUME IInv, UNCHANGED <<asset, row, picture, vanished, job, run, owed, disturbed>>,
           NEW q \in Request, NEW x \in Errand, request' = [request EXCEPT ![q] = x],
           request'[q] = x => RequestOK(q)'
    PROVE  IInv'
<1>1. WorldKept /\ Hashed' /\ Rows' /\ Finished'
  BY WorldSame
<1>2. Fresh'
  BY DEF IInv, Fresh
<1>3. RunsOK' /\ run' \in [Run -> Execution]
  BY <1>1, RunsUnchanged DEF IInv
<1>4. RequestsOK' /\ request' \in [Request -> Errand]
  BY <1>1, RequestsAfterReplacing DEF IInv
<1> QED
  BY <1>1, <1>2, <1>3, <1>4 DEF IInv, TypeOK

LEMMA IdleErrand == IdleRequest \in Errand
BY StatusSet DEF IdleRequest, Errand

LEMMA GoesIdle ==
    ASSUME IInv, NEW q \in Request, request' = [request EXCEPT ![q] = IdleRequest]
    PROVE  (request'[q] = IdleRequest) => RequestOK(q)'
BY DEF RequestOK, IdleRequest

LEMMA ResolveKeeps ==
    ASSUME IInv, NEW q \in Request, NEW a \in Asset, NEW again \in BOOLEAN, Resolve(q, a, again)
    PROVE  IInv'
<1> DEFINE x == [IdleRequest EXCEPT !.pc = "row", !.asset = a, !.retryFailed = again,
                                    !.current = asset[a].status]
<1>1. asset[a].status \in Status
  BY DEF IInv, TypeOK, AssetRow
<1>2. x \in Errand /\ x.pc = "row" /\ x.asset = a
  BY <1>1 DEF Errand, IdleRequest
<1>3. request' = [request EXCEPT ![q] = x] /\ asset[a].status # "none" /\ UNCHANGED asset
  BY DEF Resolve
<1> HIDE DEF x
<1>4. request'[q] = x => RequestOK(q)'
  BY <1>2, <1>3 DEF RequestOK
<1> QED
  BY <1>2, <1>3, <1>4, RequestOnly DEF Resolve

LEMMA FindRowKeeps ==
    ASSUME IInv, NEW q \in Request, FindRow(q) PROVE IInv'
<1> DEFINE a == request[q].asset
           found == IF request[q].current = "completed" THEN row[a] ELSE None
           pc == IF request[q].current # "completed" THEN "start"
                 ELSE IF row[a] = None THEN "update" ELSE "exists"
           x == [request[q] EXCEPT !.pc = pc, !.object = found]
<1>1. /\ request[q] \in Errand /\ a \in Asset /\ asset[a].status # "none"
  BY DEF IInv, TypeOK, RequestsOK, RequestOK, FindRow
<1>2. found \in Object \cup {None} /\ pc \in {"start", "update", "exists"}
  BY <1>1 DEF IInv, TypeOK
<1>3. pc = "exists" => found \in Object /\ picture[found] = asset[a].content
  BY <1>1 DEF IInv, TypeOK, Rows
<1>4. request' = [request EXCEPT ![q] = x]
  BY <1>1 DEF FindRow, IInv, TypeOK
<1> HIDE DEF found, pc
<1>5. x \in Errand /\ x.pc = pc /\ x.asset = a /\ x.object = found
  BY <1>1, <1>2 DEF Errand
<1> HIDE DEF x
<1>6. request'[q] = x => RequestOK(q)'
  BY <1>1, <1>2, <1>3, <1>5 DEF RequestOK, FindRow
<1> QED
  BY <1>4, <1>5, <1>6, RequestOnly DEF FindRow

LEMMA RereadKeeps ==
    ASSUME IInv, NEW q \in Request, Reread(q) PROVE IInv'
<1> DEFINE a == request[q].asset
           status == asset[a].status
           x == [request[q] EXCEPT !.pc = "start", !.current = status]
<1>1. request[q] \in Errand /\ a \in Asset /\ status # "none" /\ status \in Status
  BY DEF IInv, TypeOK, RequestsOK, RequestOK, Reread, AssetRow
<1>2. request' = [request EXCEPT ![q] = x]
  BY DEF Reread, IInv, TypeOK
<1>3. x \in Errand /\ x.pc = "start" /\ x.asset = a
  BY <1>1 DEF Errand
<1> HIDE DEF x
<1>4. request'[q] = x => RequestOK(q)'
  BY <1>1, <1>3 DEF RequestOK, Reread
<1> QED
  BY <1>2, <1>3, <1>4, RequestOnly DEF Reread

LEMMA BeginSaveKeeps ==
    ASSUME IInv, NEW q \in Request, NEW a \in Asset, BeginSave(q, a) PROVE IInv'
<1> DEFINE x == [IdleRequest EXCEPT !.pc = "saveRow", !.asset = a, !.current = "completed"]
<1>1. x \in Errand /\ x.pc = "saveRow" /\ x.asset = a
  BY StatusSet DEF Errand, IdleRequest
<1>2. request' = [request EXCEPT ![q] = x] /\ asset[a].status # "none" /\ UNCHANGED asset
  BY DEF BeginSave
<1> HIDE DEF x
<1>3. request'[q] = x => RequestOK(q)'
  BY <1>1, <1>2 DEF RequestOK
<1> QED
  BY <1>1, <1>2, <1>3, RequestOnly DEF BeginSave

LEMMA MatchRowKeeps ==
    ASSUME IInv, NEW q \in Request, NEW shown \in Object, MatchRow(q, shown) PROVE IInv'
<1> DEFINE a == request[q].asset
           x == [request[q] EXCEPT !.pc = "saveExists", !.object = shown]
<1>1. request[q] \in Errand /\ a \in Asset /\ asset[a].status # "none"
  BY DEF IInv, TypeOK, RequestsOK, RequestOK, MatchRow
<1>2. picture[shown] = asset[a].content
  BY <1>1, NoneIsNot DEF IInv, Rows, MatchRow
<1>3. request' = [request EXCEPT ![q] = x]
  BY DEF MatchRow, IInv, TypeOK
<1>4. x \in Errand /\ x.pc = "saveExists" /\ x.asset = a /\ x.object = shown
  BY <1>1 DEF Errand
<1> HIDE DEF x
<1>5. request'[q] = x => RequestOK(q)'
  BY <1>1, <1>2, <1>4 DEF RequestOK, MatchRow
<1> QED
  BY <1>3, <1>4, <1>5, RequestOnly DEF MatchRow

LEMMA CheckPictureKeeps ==
    ASSUME IInv, NEW q \in Request, CheckPicture(q) PROVE IInv'
<1> DEFINE a == request[q].asset
           x == [request[q] EXCEPT !.pc = "saveRepit"]
<1>1. /\ request[q] \in Errand /\ a \in Asset /\ asset[a].status # "none"
      /\ request[q].object \in Object /\ picture[request[q].object] = asset[a].content
  BY DEF IInv, TypeOK, RequestsOK, RequestOK, CheckPicture
<1>2. request' = [request EXCEPT ![q] = x]
  BY DEF CheckPicture, IInv, TypeOK
<1>3. x \in Errand /\ x.pc = "saveRepit" /\ x.asset = a /\ x.object = request[q].object
  BY <1>1 DEF Errand
<1> HIDE DEF x
<1>4. request'[q] = x => RequestOK(q)'
  BY <1>1, <1>3 DEF RequestOK, CheckPicture
<1> QED
  BY <1>2, <1>3, <1>4, RequestOnly DEF CheckPicture

LEMMA EndsKeep ==
    ASSUME IInv, NEW q \in Request, AnswerReady(q) \/ SaveRepit(q) \/ Abandon(q)
    PROVE  IInv'
<1>1. /\ request' = [request EXCEPT ![q] = IdleRequest]
      /\ UNCHANGED <<asset, row, picture, vanished, job, run, owed, disturbed>>
  BY DEF AnswerReady, SaveRepit, Abandon
<1> QED
  BY <1>1, IdleErrand, GoesIdle, RequestOnly

-------------------------------------------------------------------------------
(* Steps that move an asset                                                    *)

\* The row of one asset is replaced by x, which keeps the checksum.
LEMMA AssetReplaced ==
    ASSUME IInv, NEW a \in Asset, asset[a].status # "none",
           NEW x \in AssetRow, x.status # "none", x.content = asset[a].content,
           asset' = [asset EXCEPT ![a] = x],
           UNCHANGED <<row, picture, vanished>>,
           x.status = "completed" => Result(a)
    PROVE  /\ WorldKept /\ Hashed' /\ Rows' /\ Finished' /\ asset' \in [Asset -> AssetRow]
           /\ \A b \in Asset : asset'[b].status # "none" <=> asset[b].status # "none"
<1>1. /\ asset' \in [Asset -> AssetRow]
      /\ \A b \in Asset : asset'[b] = IF b = a THEN x ELSE asset[b]
  BY DEF IInv, TypeOK
<1>2. \A b \in Asset : /\ asset'[b].content = asset[b].content
                       /\ asset'[b].status # "none" <=> asset[b].status # "none"
                       /\ asset'[b].status = "completed" => Result(b)
  BY <1>1 DEF IInv, Finished
<1>3. \A b \in Asset : Result(b)' <=> Result(b)
  BY <1>2 DEF Result
<1>4. WorldKept
  BY <1>2, <1>3 DEF WorldKept
<1>5. Hashed' /\ Rows' /\ Finished'
  BY <1>2, <1>3 DEF IInv, Hashed, Rows, Finished
<1> QED
  BY <1>1, <1>2, <1>4, <1>5

LEMMA EnqueuedKeeps ==
    ASSUME IInv, NEW a \in Asset, asset[a].status # "none", NEW k \in Key,
           job' = Enqueued(a, k), UNCHANGED row,
           \A b \in Asset : asset'[b].status # "none" <=> asset[b].status # "none"
    PROVE  Fresh' /\ job' \in [Asset -> [Key -> JobStatus]]
BY DEF IInv, TypeOK, Fresh, Enqueued, JobStatus

\* A queueing by itself, whoever asked for it.
LEMMA QueueKeeps ==
    ASSUME IInv, NEW a \in Asset, NEW increment \in BOOLEAN, Queue(a, increment),
           UNCHANGED <<row, picture, vanished>>
    PROVE  /\ WorldKept /\ Hashed' /\ Rows' /\ Finished' /\ Fresh'
           /\ asset' \in [Asset -> AssetRow] /\ job' \in [Asset -> [Key -> JobStatus]]
           /\ owed' \in [Asset -> Int]
<1> DEFINE n == asset[a].retries + (IF increment THEN 1 ELSE 0)
           x == [asset[a] EXCEPT !.status = "queued", !.retries = n]
<1>1. asset[a] \in AssetRow /\ asset[a].status # "none" /\ MaxRetry \in Nat
  BY MediaAssumption DEF IInv, TypeOK, Queue, Reprocessable
<1>2. asset[a].retries \in 0 .. MaxRetry
  BY <1>1 DEF AssetRow
<1>3. n \in 0 .. MaxRetry
  BY <1>1, <1>2 DEF Queue
<1>4. asset' = [asset EXCEPT ![a] = x] /\ job' = Enqueued(a, Plain(n))
  BY DEF Queue, IInv, TypeOK
<1> HIDE DEF n
<1>5. x \in AssetRow /\ x.status = "queued" /\ x.content = asset[a].content
  BY <1>1, <1>3 DEF AssetRow, Status, Transitions
<1> HIDE DEF x
<1>6. /\ WorldKept /\ Hashed' /\ Rows' /\ Finished' /\ asset' \in [Asset -> AssetRow]
      /\ \A b \in Asset : asset'[b].status # "none" <=> asset[b].status # "none"
  BY <1>1, <1>4, <1>5, AssetReplaced
<1>7. Plain(n) \in Key
  BY <1>3 DEF Key
<1>8. Fresh' /\ job' \in [Asset -> [Key -> JobStatus]]
  BY <1>1, <1>4, <1>6, <1>7, EnqueuedKeeps
<1>9. owed' \in [Asset -> Int]
  BY DEF Queue, IInv, TypeOK
<1> QED
  BY <1>6, <1>8, <1>9

LEMMA RetryKeeps ==
    ASSUME IInv, NEW a \in Asset, Retry(a) PROVE IInv'
<1>1. /\ WorldKept /\ Hashed' /\ Rows' /\ Finished' /\ Fresh'
      /\ asset' \in [Asset -> AssetRow] /\ job' \in [Asset -> [Key -> JobStatus]]
      /\ owed' \in [Asset -> Int]
  BY QueueKeeps DEF Retry
<1>2. RunsOK' /\ run' \in [Run -> Execution]
  BY <1>1, RunsUnchanged DEF IInv, Retry
<1>3. RequestsOK' /\ request' \in [Request -> Errand]
  BY <1>1, RequestsUnchanged DEF IInv, Retry
<1> QED
  BY <1>1, <1>2, <1>3 DEF IInv, TypeOK, Retry

LEMMA RegenerateKeeps ==
    ASSUME IInv, NEW a \in Asset, Regenerate(a) PROVE IInv'
<1> DEFINE x == [asset[a] EXCEPT !.status = "queued"]
<1>1. asset[a] \in AssetRow /\ asset[a].status # "none"
  BY DEF IInv, TypeOK, Regenerate
<1>2. x \in AssetRow /\ x.status = "queued" /\ x.content = asset[a].content
  BY <1>1 DEF AssetRow, Status, Transitions
<1>3. asset' = [asset EXCEPT ![a] = x]
  BY DEF Regenerate, IInv, TypeOK
<1> HIDE DEF x
<1>4. /\ WorldKept /\ Hashed' /\ Rows' /\ Finished' /\ asset' \in [Asset -> AssetRow]
      /\ \A b \in Asset : asset'[b].status # "none" <=> asset[b].status # "none"
  BY <1>1, <1>2, <1>3, AssetReplaced DEF Regenerate
<1>5. PICK n \in 1 .. MaxRegen : job' = Enqueued(a, Regen(n))
  BY DEF Regenerate
<1>6. Regen(n) \in Key
  BY DEF Key
<1>7. Fresh' /\ job' \in [Asset -> [Key -> JobStatus]]
  BY <1>1, <1>4, <1>5, <1>6, EnqueuedKeeps DEF Regenerate
<1>8. RunsOK' /\ run' \in [Run -> Execution]
  BY <1>4, RunsUnchanged DEF IInv, Regenerate
<1>9. RequestsOK' /\ request' \in [Request -> Errand]
  BY <1>4, RequestsUnchanged DEF IInv, Regenerate
<1>10. owed' \in [Asset -> Int]
  BY DEF Regenerate, IInv, TypeOK
<1> QED
  BY <1>4, <1>7, <1>8, <1>9, <1>10 DEF IInv, TypeOK, Regenerate

LEMMA RegisterKeeps ==
    ASSUME IInv, NEW a \in Asset, NEW c \in Content, Register(a, c) PROVE IInv'
<1> DEFINE x == [status |-> "uploaded", retries |-> 0, content |-> c]
<1>1. x \in AssetRow /\ x.status = "uploaded" /\ x.content = c
  BY MediaAssumption DEF AssetRow, Status, Transitions
<1>2. asset' = [asset EXCEPT ![a] = x] /\ asset[a].status = "none"
      /\ UNCHANGED <<row, picture, vanished, job, run, request, owed, disturbed>>
  BY DEF Register
<1> HIDE DEF x
<1>3. /\ asset' \in [Asset -> AssetRow]
      /\ \A b \in Asset : asset'[b] = IF b = a THEN x ELSE asset[b]
  BY <1>1, <1>2 DEF IInv, TypeOK
<1>4. \A b \in Asset : asset[b].status # "none" =>
          asset'[b].status # "none" /\ asset'[b].content = asset[b].content
  BY <1>2, <1>3
<1>5. WorldKept
  BY <1>2, <1>4, ResultsKept DEF IInv
<1>6. Hashed' /\ Fresh' /\ Rows'
  BY <1>1, <1>2, <1>3 DEF IInv, Hashed, Fresh, Rows
<1>7. Finished'
  BY <1>1, <1>2, <1>3, <1>5 DEF IInv, Finished, WorldKept
<1>8. RunsOK' /\ run' \in [Run -> Execution]
  BY <1>2, <1>5, RunsUnchanged DEF IInv
<1>9. RequestsOK' /\ request' \in [Request -> Errand]
  BY <1>2, <1>5, RequestsUnchanged DEF IInv
<1> QED
  BY <1>2, <1>3, <1>5, <1>6, <1>7, <1>8, <1>9 DEF IInv, TypeOK

LEMMA AutoStartKeeps ==
    ASSUME IInv, NEW q \in Request, AutoStart(q) PROVE IInv'
<1> DEFINE a == request[q].asset
<1>1. a \in Asset
  BY DEF AutoStart, IInv, RequestsOK, RequestOK
<1>2. request' = [request EXCEPT ![q] = IdleRequest]
      /\ UNCHANGED <<row, picture, vanished, run, disturbed>>
  BY DEF AutoStart
<1>3. CASE Queue(a, request[q].current # "uploaded")
  <2>1. /\ WorldKept /\ Hashed' /\ Rows' /\ Finished' /\ Fresh'
        /\ asset' \in [Asset -> AssetRow] /\ job' \in [Asset -> [Key -> JobStatus]]
        /\ owed' \in [Asset -> Int]
    BY <1>1, <1>2, <1>3, QueueKeeps
  <2>2. RunsOK' /\ run' \in [Run -> Execution]
    BY <1>2, <2>1, RunsUnchanged DEF IInv
  <2>3. RequestsOK' /\ request' \in [Request -> Errand]
    BY <1>2, <2>1, GoesIdle, IdleErrand, RequestsAfterReplacing DEF IInv
  <2> QED
    BY <1>2, <2>1, <2>2, <2>3 DEF IInv, TypeOK
<1>4. CASE UNCHANGED <<asset, job, owed>>
  BY <1>2, <1>4, GoesIdle, IdleErrand, RequestOnly
<1> QED
  BY <1>3, <1>4 DEF AutoStart

LEMMA RecoverKeeps ==
    ASSUME IInv, NEW q \in Request, Recover(q) PROVE IInv'
<1> DEFINE a == request[q].asset
           dropped == request[q].pc = "exists" /\ row[a] = request[q].object
           x == [request[q] EXCEPT !.pc = "reread", !.recovered = TRUE, !.object = None]
<1>1. /\ request[q] \in Errand /\ a \in Asset /\ asset[a].status # "none"
      /\ asset[a] \in AssetRow
  BY DEF IInv, TypeOK, RequestsOK, RequestOK, Recover
<1>2. /\ asset' \in [Asset -> AssetRow]
      /\ \A b \in Asset : /\ asset'[b].content = asset[b].content
                          /\ asset'[b].status # "none" <=> asset[b].status # "none"
                          /\ asset'[b].status = "completed" => asset[b].status = "completed"
  <2>1. CASE asset[a].status = "completed"
    <3> DEFINE y == [asset[a] EXCEPT !.status = "retry_required"]
    <3>1. y \in AssetRow /\ y.status = "retry_required" /\ y.content = asset[a].content
      BY <1>1 DEF AssetRow, Status, Transitions
    <3>2. asset' = [asset EXCEPT ![a] = y]
      BY <2>1 DEF Recover, IInv, TypeOK
    <3> HIDE DEF y
    <3> QED
      BY <1>1, <3>1, <3>2 DEF IInv, TypeOK
  <2>2. CASE asset[a].status # "completed"
    BY <2>2 DEF Recover, IInv, TypeOK
  <2> QED
    BY <2>1, <2>2
<1>3. /\ row' = IF dropped THEN [row EXCEPT ![a] = None] ELSE row
      /\ dropped => row[a] \notin Stored
      /\ UNCHANGED <<picture, vanished, job, run, owed, disturbed>>
  BY DEF Recover
<1>4. \A b \in Asset : row[b] = None \/ row'[b] # None \/ row[b] \notin Stored
  BY <1>1, <1>3 DEF IInv, TypeOK
<1>5. WorldKept
  BY <1>2, <1>3, <1>4, ResultsKept DEF IInv
<1>6. row' \in [Asset -> Object \cup {None}] /\ \A b \in Asset : row'[b] \in {row[b], None}
  BY <1>1, <1>3 DEF IInv, TypeOK
<1>7. Hashed' /\ Rows' /\ Fresh' /\ Finished'
  <2>1. Hashed' /\ Rows'
    BY <1>2, <1>3, <1>6 DEF IInv, Hashed, Rows
  <2>2. Fresh'
    BY <1>2, <1>3, <1>6 DEF IInv, Fresh
  <2>3. Finished'
    BY <1>2, <1>5 DEF IInv, Finished, WorldKept
  <2> QED
    BY <2>1, <2>2, <2>3
<1>8. RunsOK' /\ run' \in [Run -> Execution]
  BY <1>3, <1>5, RunsUnchanged DEF IInv
<1>9. request' = [request EXCEPT ![q] = x]
  BY DEF Recover, IInv, TypeOK
<1>10. x \in Errand /\ x.pc = "reread" /\ x.asset = a
  BY <1>1 DEF Errand
<1> HIDE DEF x, dropped
<1>11. request'[q] = x => RequestOK(q)'
  BY <1>1, <1>2, <1>10 DEF RequestOK
<1>12. RequestsOK' /\ request' \in [Request -> Errand]
  BY <1>5, <1>9, <1>10, <1>11, RequestsAfterReplacing DEF IInv
<1> QED
  BY <1>2, <1>3, <1>5, <1>6, <1>7, <1>8, <1>12 DEF IInv, TypeOK

-------------------------------------------------------------------------------
(* Steps of a run that change no table but the jobs                            *)

\* A run moves, and the jobs of an asset that was uploaded may move with it.
LEMMA RunOnly ==
    ASSUME IInv, UNCHANGED <<asset, row, picture, vanished, request>>,
           RunsOK', run' \in [Run -> Execution],
           Fresh', job' \in [Asset -> [Key -> JobStatus]],
           owed' \in [Asset -> Int], disturbed' \subseteq Asset
    PROVE  IInv'
<1>1. WorldKept /\ Hashed' /\ Rows' /\ Finished'
  BY WorldSame
<1>2. RequestsOK' /\ request' \in [Request -> Errand]
  BY <1>1, RequestsUnchanged DEF IInv
<1> QED
  BY <1>1, <1>2 DEF IInv, TypeOK

\* What stays as it is when a run moves alone.
LEMMA JobsSame ==
    ASSUME IInv, UNCHANGED <<asset, row, job>>
    PROVE  Fresh' /\ job' \in [Asset -> [Key -> JobStatus]]
BY DEF IInv, Fresh, TypeOK

LEMMA RunHasAsset ==
    ASSUME IInv, NEW r \in Run, run[r].pc # "idle"
    PROVE  /\ run[r] \in Execution /\ RunOK(r)
           /\ run[r].asset \in Asset /\ run[r].key \in Key
           /\ asset[run[r].asset].status # "none"
           /\ asset[run[r].asset] \in AssetRow
BY DEF IInv, RunsOK, RunOK, TypeOK

LEMMA IdleExecution == IdleRun \in Execution
BY DEF IdleRun, Execution

\* The run goes to a plain pc; only owed and disturbed may change beside it.
LEMMA GoingKeeps ==
    ASSUME IInv, NEW r \in Run, run[r].pc # "idle", NEW pc \in Plain_PCs, RunGoes(r, pc),
           UNCHANGED <<asset, row, picture, vanished, job, request>>,
           owed' \in [Asset -> Int], disturbed' \subseteq Asset
    PROVE  IInv'
<1>1. WorldKept
  BY WorldSame
<1>2. pc \in RunPCs
  BY DEF Plain_PCs, RunPCs, Working
<1>3. RunsOK' /\ run' \in [Run -> Execution]
  BY <1>1, <1>2, RunsAfterGoing DEF IInv
<1> QED
  BY <1>3, JobsSame, RunOnly

LEMMA ClaimKeeps ==
    ASSUME IInv, NEW r \in Run, NEW a \in Asset, NEW k \in Key, Claim(r, a, k) PROVE IInv'
<1> DEFINE x == [IdleRun EXCEPT !.pc = "load", !.asset = a, !.key = k, !.holds = TRUE]
<1>1. asset[a].status # "none"
  BY JobHasAsset DEF Claim
<1>2. x \in Execution /\ x.pc = "load" /\ x.asset = a /\ x.key = k
  BY DEF Execution, IdleRun
<1>3. run' = [run EXCEPT ![r] = x]
  BY DEF Claim
<1>4. /\ UNCHANGED <<asset, row, picture, vanished, request, owed, disturbed>>
      /\ job' = [job EXCEPT ![a] = [@ EXCEPT ![k] = "active"]]
  BY DEF Claim
<1> HIDE DEF x
<1>5. WorldKept
  BY <1>4, WorldSame
<1>6. run'[r] = x => RunOK(r)'
  BY <1>1, <1>2, <1>4 DEF RunOK
<1>7. RunsOK' /\ run' \in [Run -> Execution]
  BY <1>2, <1>3, <1>5, <1>6, RunsAfterReplacing DEF IInv
<1>8. "active" \in JobStatus
  BY DEF JobStatus
<1>9. Fresh' /\ job' \in [Asset -> [Key -> JobStatus]]
  BY <1>1, <1>4, <1>8, FreshWithJobs
<1> QED
  BY <1>4, <1>7, <1>9, RunOnly DEF IInv, TypeOK

LEMMA LoadKeeps ==
    ASSUME IInv, NEW r \in Run, Load(r) PROVE IInv'
<1> DEFINE pc == IF asset[run[r].asset].status = "queued" THEN "mark" ELSE "gaveUp"
<1>1. pc \in Plain_PCs /\ RunGoes(r, pc) /\ run[r].pc # "idle"
  BY DEF Load, Plain_PCs
<1>2. /\ UNCHANGED <<asset, row, picture, vanished, job, request>>
      /\ owed' \in [Asset -> Int] /\ disturbed' \subseteq Asset
  BY DEF Load, IInv, TypeOK
<1> HIDE DEF pc
<1> QED
  BY <1>1, <1>2, GoingKeeps

LEMMA ReadsKeep ==
    ASSUME IInv, NEW r \in Run, MarkRead(r) \/ DoneRead(r) \/ FailRead(r) PROVE IInv'
<1>1. /\ UNCHANGED <<asset, row, picture, vanished, job, request>> /\ run[r].pc # "idle"
      /\ owed' \in [Asset -> Int] /\ disturbed' \subseteq Asset
  BY DEF MarkRead, DoneRead, FailRead, IInv, TypeOK
<1>2. WorldKept
  BY <1>1, WorldSame
<1>3. RunsOK' /\ run' \in [Run -> Execution]
  <2>1. CASE MarkRead(r)
    <3>1. ReadsFor(r, "processing", "reuse", "marking", "threw")
      BY <2>1 DEF MarkRead
    <3>2. "reuse" \in Plain_PCs /\ "threw" \in Plain_PCs
      BY DEF Plain_PCs
    <3> QED
      BY <1>1, <1>2, <3>1, <3>2, RunsAfterReading DEF IInv
  <2>2. CASE DoneRead(r)
    <3>1. ReadsFor(r, "completed", "succeeded", "completing", "fail") /\ run[r].pc = "done"
      BY <2>2 DEF DoneRead
    <3>2. "succeeded" \in Plain_PCs /\ "fail" \in Plain_PCs
      BY DEF Plain_PCs
    <3> QED
      BY <1>1, <1>2, <3>1, <3>2, RunsAfterReading DEF IInv
  <2>3. CASE FailRead(r)
    <3>1. ReadsFor(r, "failed", "gaveUp", "failing", "gaveUp")
      BY <2>3 DEF FailRead
    <3>2. "gaveUp" \in Plain_PCs
      BY DEF Plain_PCs
    <3> QED
      BY <1>1, <1>2, <3>1, <3>2, RunsAfterReading DEF IInv
  <2> QED
    BY <2>1, <2>2, <2>3
<1> QED
  BY <1>1, <1>3, JobsSame, RunOnly

LEMMA FailuresKeep ==
    ASSUME IInv, NEW r \in Run, StepFails(r) \/ WriteLost(r) \/ ProviderFails(r) PROVE IInv'
<1> DEFINE a == run[r].asset
<1>1. run[r].pc # "idle" /\ UNCHANGED <<asset, row, picture, vanished, job, request>>
  BY DEF StepFails, WriteLost, ProviderFails
<1>2. a \in Asset
  BY <1>1, RunHasAsset
<1>3. owed' \in [Asset -> Int] /\ disturbed' \subseteq Asset
  BY <1>2 DEF StepFails, WriteLost, ProviderFails, Disturb, IInv, TypeOK
<1>4. \E pc \in Plain_PCs : RunGoes(r, pc)
  BY DEF StepFails, WriteLost, ProviderFails, Plain_PCs
<1> QED
  BY <1>1, <1>3, <1>4, GoingKeeps

LEMMA RunEnds ==
    ASSUME IInv, NEW r \in Run, run' = [run EXCEPT ![r] = IdleRun],
           UNCHANGED <<asset, row, picture, vanished>>
    PROVE  RunsOK' /\ run' \in [Run -> Execution]
<1>1. run'[r] = IdleRun => RunOK(r)'
  BY DEF RunOK, IdleRun
<1> QED
  BY <1>1, WorldSame, IdleExecution, RunsAfterReplacing DEF IInv

LEMMA FinishKeeps ==
    ASSUME IInv, NEW r \in Run, Finish(r) PROVE IInv'
<1> DEFINE a == run[r].asset
           k == run[r].key
<1>1. /\ run[r].pc # "idle" /\ run' = [run EXCEPT ![r] = IdleRun]
      /\ UNCHANGED <<asset, row, picture, vanished, request, owed, disturbed>>
  BY DEF Finish
<1>2. a \in Asset /\ k \in Key /\ asset[a].status # "none"
  BY <1>1, RunHasAsset
<1>3. \/ UNCHANGED job
      \/ \E s \in JobStatus : job' = [job EXCEPT ![a] = [@ EXCEPT ![k] = s]]
  BY DEF Finish, JobStatus
<1> HIDE DEF a, k
<1>4. Fresh' /\ job' \in [Asset -> [Key -> JobStatus]]
  BY <1>1, <1>2, <1>3, JobsSame, FreshWithJobs
<1> QED
  BY <1>1, <1>4, RunEnds, RunOnly DEF IInv, TypeOK

LEMMA CrashKeeps ==
    ASSUME IInv, NEW r \in Run, Crash(r) PROVE IInv'
<1>1. /\ run[r].pc # "idle" /\ run' = [run EXCEPT ![r] = IdleRun]
      /\ UNCHANGED <<asset, row, picture, vanished, job, request, owed>>
      /\ disturbed' = disturbed \cup {run[r].asset}
  BY DEF Crash, Disturb
<1>2. disturbed' \subseteq Asset
  BY <1>1, RunHasAsset DEF IInv, TypeOK
<1> QED
  BY <1>1, <1>2, JobsSame, RunEnds, RunOnly DEF IInv, TypeOK

LEMMA TimeOutKeeps ==
    ASSUME IInv, NEW r \in Run, TimeOut(r) PROVE IInv'
<1> DEFINE a == run[r].asset
           k == run[r].key
           x == [run[r] EXCEPT !.holds = FALSE]
<1>1. /\ run[r].pc # "idle"
      /\ UNCHANGED <<asset, row, picture, vanished, request, owed>>
      /\ disturbed' = disturbed \cup {a}
      /\ \E s \in {"queued", "failed"} : job' = [job EXCEPT ![a] = [@ EXCEPT ![k] = s]]
  BY DEF TimeOut, Disturb
<1>2. a \in Asset /\ k \in Key /\ asset[a].status # "none" /\ run[r] \in Execution /\ RunOK(r)
  BY <1>1, RunHasAsset
<1>3. run' = [run EXCEPT ![r] = x]
  BY DEF TimeOut, IInv, TypeOK
<1>4. /\ x \in Execution /\ x.pc = run[r].pc /\ x.asset = a /\ x.key = k
      /\ x.seen = run[r].seen /\ x.object = run[r].object
  BY <1>2 DEF Execution
<1> HIDE DEF x
<1>5. WorldKept
  BY <1>1, WorldSame
<1>6. run'[r] = x => RunOK(r)'
  BY <1>1, <1>2, <1>4 DEF RunOK, Result
<1>7. RunsOK' /\ run' \in [Run -> Execution]
  BY <1>3, <1>4, <1>5, <1>6, RunsAfterReplacing DEF IInv
<1> HIDE DEF a, k
<1>8. Fresh' /\ job' \in [Asset -> [Key -> JobStatus]]
  BY <1>1, <1>2, FreshWithJobs DEF JobStatus
<1>9. disturbed' \subseteq Asset
  BY <1>1, <1>2 DEF IInv, TypeOK
<1> QED
  BY <1>1, <1>7, <1>8, <1>9, RunOnly DEF IInv, TypeOK

-------------------------------------------------------------------------------
(* Steps of a run that change an asset, a row or a picture                     *)

\* A step of a run that touches no job: what it leaves to be shown.
LEMMA TablesMove ==
    ASSUME IInv, WorldKept, Hashed', Rows', Finished', Fresh',
           RunsOK', run' \in [Run -> Execution],
           asset' \in [Asset -> AssetRow], row' \in [Asset -> Object \cup {None}],
           picture' \in [Object -> Content \cup {None}], vanished' \subseteq Object,
           owed' \in [Asset -> Int], UNCHANGED <<job, request, disturbed>>
    PROVE  IInv'
<1>1. RequestsOK' /\ request' \in [Request -> Errand]
  BY RequestsUnchanged DEF IInv
<1> QED
  BY <1>1 DEF IInv, TypeOK

\* The run saves the asset it has read: the checksum is the one it read, and a
\* completed asset has its result.
LEMMA SavingKeeps ==
    ASSUME IInv, NEW r \in Run,
           NEW to \in {"processing", "completed", "failed"}, SavesAs(r, to),
           run[r].pc \in {"marking", "completing", "failing"},
           to = "completed" => run[r].pc = "completing",
           NEW pc \in Plain_PCs, RunGoes(r, pc),
           UNCHANGED <<row, picture, vanished, job, request, owed, disturbed>>
    PROVE  IInv'
<1> DEFINE a == run[r].asset
           seen == run[r].seen
           x == [seen EXCEPT !.status = to]
<1>1. /\ a \in Asset /\ asset[a].status # "none"
      /\ seen \in AssetRow /\ seen.content = asset[a].content
      /\ run[r].pc = "completing" => Result(a)
  BY RunHasAsset DEF RunOK
<1>2. asset' = [asset EXCEPT ![a] = x]
  BY DEF SavesAs
<1> HIDE DEF seen
<1>3. x \in AssetRow /\ x.status = to /\ x.content = asset[a].content
  BY <1>1 DEF AssetRow, Status, Transitions
<1> HIDE DEF x
<1>4. /\ WorldKept /\ Hashed' /\ Rows' /\ Finished' /\ asset' \in [Asset -> AssetRow]
      /\ \A b \in Asset : asset'[b].status # "none" <=> asset[b].status # "none"
  BY <1>1, <1>2, <1>3, AssetReplaced
<1>5. Fresh'
  BY <1>4 DEF IInv, Fresh
<1>6. pc \in RunPCs /\ run[r].pc # "idle"
  BY DEF Plain_PCs, RunPCs, Working
<1>7. RunsOK' /\ run' \in [Run -> Execution]
  BY <1>4, <1>6, RunsAfterGoing DEF IInv
<1> QED
  BY <1>4, <1>5, <1>7, TablesMove DEF IInv, TypeOK

LEMMA SavesKeep ==
    ASSUME IInv, NEW r \in Run, MarkSave(r) \/ DoneSave(r) \/ FailSave(r) PROVE IInv'
<1>1. "reuse" \in Plain_PCs /\ "succeeded" \in Plain_PCs /\ "gaveUp" \in Plain_PCs
  BY DEF Plain_PCs
<1>2. CASE MarkSave(r)
  BY <1>1, <1>2, SavingKeeps DEF MarkSave
<1>3. CASE DoneSave(r)
  BY <1>1, <1>3, SavingKeeps DEF DoneSave
<1>4. CASE FailSave(r)
  BY <1>1, <1>4, SavingKeeps DEF FailSave
<1> QED
  BY <1>2, <1>3, <1>4

\* The row of asset b becomes o, which is no row at all or shows b's original.
LEMMA RowReplaced ==
    ASSUME IInv, NEW b \in Asset, NEW o \in Object \cup {None},
           row' = [row EXCEPT ![b] = o], UNCHANGED <<asset, picture, vanished, job>>,
           asset[b].status # "none",
           o # None => picture[o] = asset[b].content,
           row[b] = None \/ row[b] \notin Stored
    PROVE  /\ WorldKept /\ Hashed' /\ Rows' /\ Finished' /\ Fresh'
           /\ row' \in [Asset -> Object \cup {None}]
<1>1. /\ row' \in [Asset -> Object \cup {None}]
      /\ \A c \in Asset : row'[c] = IF c = b THEN o ELSE row[c]
  BY DEF IInv, TypeOK
<1>2. \A c \in Asset : row[c] = None \/ row'[c] # None \/ row[c] \notin Stored
  BY <1>1
<1>3. WorldKept
  BY <1>2, ResultsKept DEF IInv
<1>4. Hashed' /\ Rows' /\ Fresh'
  BY <1>1 DEF IInv, Hashed, Rows, Fresh
<1>5. Finished'
  BY <1>3 DEF IInv, Finished, WorldKept
<1> QED
  BY <1>1, <1>3, <1>4, <1>5

\* The run goes on after replacing a row, or without touching it.
LEMMA RowStepKeeps ==
    ASSUME IInv, NEW r \in Run, run[r].pc # "idle",
           NEW pc \in RunPCs, RunGoes(r, pc), WorldKept, Hashed', Rows', Finished', Fresh',
           row' \in [Asset -> Object \cup {None}],
           pc \in Plain_PCs \/ (pc = "done" /\ row'[run[r].asset] # None),
           UNCHANGED <<asset, picture, vanished, job, request, owed, disturbed>>
    PROVE  IInv'
<1>1. pc = "done" /\ row'[run[r].asset] # None => Result(run[r].asset)'
  BY RunGoesForm DEF IInv, Result
<1>2. RunsOK' /\ run' \in [Run -> Execution]
  BY <1>1, RunsAfterGoing DEF IInv
<1> QED
  BY <1>2, TablesMove DEF IInv, TypeOK

LEMMA RowUntouched ==
    ASSUME IInv, UNCHANGED <<asset, row, picture, vanished, job>>
    PROVE  /\ WorldKept /\ Hashed' /\ Rows' /\ Finished' /\ Fresh'
           /\ row' \in [Asset -> Object \cup {None}]
BY WorldSame, JobsSame DEF IInv, TypeOK

LEMMA Storedness ==
    ASSUME IInv, NEW o \in Stored PROVE o \in Object /\ o # None
BY NoneIsNot DEF Stored

LEMMA ReuseOwnKeeps ==
    ASSUME IInv, NEW r \in Run, ReuseOwn(r) PROVE IInv'
<1> DEFINE a == run[r].asset
<1>0. /\ run[r].pc # "idle"
      /\ UNCHANGED <<asset, picture, vanished, job, request, owed, disturbed>>
  BY DEF ReuseOwn
<1>1. a \in Asset /\ asset[a].status # "none"
  BY <1>0, RunHasAsset
<1>2. "content" \in Plain_PCs /\ "content" \in RunPCs /\ "done" \in RunPCs
  BY DEF Plain_PCs, RunPCs, Working
<1>3. CASE row[a] \in Stored
  <2>1. RunGoes(r, "done") /\ UNCHANGED row
    BY <1>3 DEF ReuseOwn
  <2>2. row'[a] # None
    BY <1>3, <2>1, Storedness
  <2> QED
    BY <1>0, <1>2, <2>1, <2>2, RowUntouched, RowStepKeeps
<1>4. CASE row[a] \notin Stored
  <2>1. RunGoes(r, "content") /\ row' = [row EXCEPT ![a] = None]
    BY <1>4 DEF ReuseOwn
  <2>2. /\ WorldKept /\ Hashed' /\ Rows' /\ Finished' /\ Fresh'
        /\ row' \in [Asset -> Object \cup {None}]
    BY <1>0, <1>1, <1>4, <2>1, RowReplaced
  <2> QED
    BY <1>0, <1>2, <2>1, <2>2, RowStepKeeps
<1> QED
  BY <1>3, <1>4

LEMMA ReuseContentKeeps ==
    ASSUME IInv, NEW r \in Run, ReuseContent(r) PROVE IInv'
<1> DEFINE a == run[r].asset
<1>0. /\ run[r].pc # "idle"
      /\ UNCHANGED <<asset, picture, vanished, job, request, owed, disturbed>>
  BY DEF ReuseContent
<1>1. a \in Asset /\ asset[a].status # "none"
  BY <1>0, RunHasAsset
<1>2. /\ "provider" \in Plain_PCs /\ "fail" \in Plain_PCs /\ "provider" \in RunPCs
      /\ "fail" \in RunPCs /\ "done" \in RunPCs
  BY DEF Plain_PCs, RunPCs, Working
<1>3. CASE RunGoes(r, "provider") /\ UNCHANGED row
  BY <1>0, <1>2, <1>3, RowUntouched, RowStepKeeps
<1>4. CASE RunGoes(r, "fail") /\ UNCHANGED row
  BY <1>0, <1>2, <1>4, RowUntouched, RowStepKeeps
<1>5. ASSUME NEW b \in Matches(a), row[b] \notin Stored,
             RunGoes(r, "provider"), row' = [row EXCEPT ![b] = None]
      PROVE  IInv'
  <2>1. b \in Asset /\ asset[b].status # "none"
    BY <1>5 DEF Matches, IInv, Fresh
  <2>2. /\ WorldKept /\ Hashed' /\ Rows' /\ Finished' /\ Fresh'
        /\ row' \in [Asset -> Object \cup {None}]
    BY <1>0, <1>5, <2>1, RowReplaced
  <2> QED
    BY <1>0, <1>2, <1>5, <2>2, RowStepKeeps
<1>6. ASSUME NEW b \in Matches(a), row[b] \in Stored, row[a] = None,
             RunGoes(r, "done"), row' = [row EXCEPT ![a] = row[b]]
      PROVE  IInv'
  <2>1. row[b] \in Object /\ row[b] # None /\ picture[row[b]] = asset[a].content
    BY <1>6, Storedness DEF Matches, IInv, Rows
  <2>2. /\ WorldKept /\ Hashed' /\ Rows' /\ Finished' /\ Fresh'
        /\ row' \in [Asset -> Object \cup {None}]
    BY <1>0, <1>1, <1>6, <2>1, RowReplaced
  <2>3. row'[a] # None
    BY <1>1, <1>6, <2>1 DEF IInv, TypeOK
  <2> QED
    BY <1>0, <1>2, <1>6, <2>2, <2>3, RowStepKeeps
<1>7. \/ RunGoes(r, "provider") /\ UNCHANGED row
      \/ RunGoes(r, "fail") /\ UNCHANGED row
      \/ \E b \in Matches(a) : row[b] \notin Stored /\ RunGoes(r, "provider")
                               /\ row' = [row EXCEPT ![b] = None]
      \/ \E b \in Matches(a) : row[b] \in Stored /\ row[a] = None /\ RunGoes(r, "done")
                               /\ row' = [row EXCEPT ![a] = row[b]]
  BY DEF ReuseContent
<1> QED
  BY <1>3, <1>4, <1>5, <1>6, <1>7

LEMMA SaveRowKeeps ==
    ASSUME IInv, NEW r \in Run, SaveRow(r) PROVE IInv'
<1> DEFINE a == run[r].asset
           o == run[r].object
<1>0. /\ run[r].pc = "save"
      /\ UNCHANGED <<asset, picture, vanished, job, request, owed, disturbed>>
  BY DEF SaveRow
<1>1. /\ a \in Asset /\ asset[a].status # "none"
      /\ o \in Object /\ picture[o] = asset[a].content
  BY <1>0, RunHasAsset DEF RunOK
<1>2. "fail" \in Plain_PCs /\ "fail" \in RunPCs /\ "done" \in RunPCs
  BY DEF Plain_PCs, RunPCs, Working
<1>3. CASE row[a] = None
  <2>1. RunGoes(r, "done") /\ row' = [row EXCEPT ![a] = o]
    BY <1>3 DEF SaveRow
  <2>2. /\ WorldKept /\ Hashed' /\ Rows' /\ Finished' /\ Fresh'
        /\ row' \in [Asset -> Object \cup {None}]
    BY <1>0, <1>1, <1>3, <2>1, RowReplaced
  <2>3. row'[a] # None
    BY <1>1, <2>1, NoneIsNot DEF IInv, TypeOK
  <2> QED
    BY <1>0, <1>2, <2>1, <2>2, <2>3, RowStepKeeps
<1>4. CASE row[a] # None
  <2>1. RunGoes(r, "fail") /\ UNCHANGED row
    BY <1>4 DEF SaveRow
  <2> QED
    BY <1>0, <1>2, <2>1, RowUntouched, RowStepKeeps
<1> QED
  BY <1>3, <1>4

LEMMA ProvideKeeps ==
    ASSUME IInv, NEW r \in Run, NEW o \in Object, Provide(r, o) PROVE IInv'
<1> DEFINE a == run[r].asset
           c == asset[a].content
           x == [run[r] EXCEPT !.pc = "save", !.object = o]
<1>1. /\ run[r].pc = "provider" /\ picture[o] = None
      /\ picture' = [picture EXCEPT ![o] = c]
      /\ UNCHANGED <<asset, row, vanished, job, request, disturbed>>
  BY DEF Provide, Free
<1>2. /\ a \in Asset /\ asset[a].status # "none" /\ run[r] \in Execution
      /\ run[r].key \in Key
  BY <1>1, RunHasAsset
<1>3. c \in Content
  BY <1>2 DEF IInv, Hashed
<1>4. /\ picture' \in [Object -> Content \cup {None}] /\ picture'[o] = c
      /\ \A p \in Object : p # o => picture'[p] = picture[p]
  BY <1>1, <1>3 DEF IInv, TypeOK
<1>5. WorldKept
  BY <1>1, <1>4, ResultsKept DEF IInv
<1>6. Hashed' /\ Fresh'
  BY <1>1 DEF IInv, Hashed, Fresh
<1>7. Rows'
  <2> SUFFICES ASSUME NEW b \in Asset, row[b] # None
               PROVE  picture'[row[b]] = asset[b].content
    BY <1>1 DEF Rows
  <2>1. row[b] \in Object /\ picture[row[b]] = asset[b].content /\ asset[b].status # "none"
    BY DEF IInv, TypeOK, Rows, Fresh
  <2>2. row[b] # o
    BY <1>1, <2>1, NoneIsNot DEF IInv, Hashed
  <2> QED
    BY <1>4, <2>1, <2>2
<1>8. Finished'
  <2>1. \A b \in Asset : asset[b].status = "completed" => Result(b)'
    BY <1>5 DEF IInv, Finished, WorldKept
  <2> QED
    BY <1>1, <2>1 DEF Finished
<1>9. run' = [run EXCEPT ![r] = x]
  BY DEF Provide, IInv, TypeOK
<1>10. /\ x \in Execution /\ x.pc = "save" /\ x.asset = a /\ x.key = run[r].key
       /\ x.object = o
  BY <1>2 DEF Execution, Working
<1> HIDE DEF x
<1>11. run'[r] = x => RunOK(r)'
  BY <1>1, <1>2, <1>4, <1>10 DEF RunOK
<1>12. RunsOK' /\ run' \in [Run -> Execution]
  BY <1>5, <1>9, <1>10, <1>11, RunsAfterReplacing DEF IInv
<1>13. owed' \in [Asset -> Int]
  <2>1. owed' = [owed EXCEPT ![a] = @ - 1] /\ owed \in [Asset -> Int]
    BY DEF Provide, IInv, TypeOK
  <2> QED
    BY <1>2, <2>1
<1>14. /\ asset' \in [Asset -> AssetRow] /\ row' \in [Asset -> Object \cup {None}]
       /\ vanished' \subseteq Object
  BY <1>1 DEF IInv, TypeOK
<1>15. picture' \in [Object -> Content \cup {None}] /\ UNCHANGED <<job, request, disturbed>>
  BY <1>1, <1>4
<1> HIDE DEF a, c
<1> QED
  BY <1>5, <1>6, <1>7, <1>8, <1>12, <1>13, <1>14, <1>15, TablesMove

-------------------------------------------------------------------------------
(* The surroundings                                                            *)

LEMMA VanishKeeps ==
    ASSUME IInv, NEW o \in Object, Vanish(o) PROVE IInv'
<1>1. /\ vanished' = vanished \cup {o}
      /\ UNCHANGED <<asset, row, picture, job, run, request, owed, disturbed>>
  BY DEF Vanish
<1>2. WorldKept
  BY <1>1, ResultsKept DEF IInv
<1>3. Hashed' /\ Fresh' /\ Rows'
  BY <1>1 DEF IInv, Hashed, Fresh, Rows
<1>4. \A b \in Asset : asset[b].status = "completed" => Result(b)'
  BY <1>2 DEF IInv, Finished, WorldKept
<1>5. Finished'
  BY <1>1, <1>4 DEF Finished
<1>6. RunsOK' /\ run' \in [Run -> Execution]
  BY <1>1, <1>2, RunsUnchanged DEF IInv
<1> QED
  BY <1>1, <1>2, <1>3, <1>5, <1>6, TablesMove DEF IInv, TypeOK

LEMMA JobsKeep ==
    ASSUME IInv, NEW a \in Asset, NEW k \in Key,
           CancelJob(a, k) \/ Reclaim(a, k) \/ RetryJob(a, k)
    PROVE  IInv'
<1>1. /\ UNCHANGED <<asset, row, picture, vanished, run, request, owed>>
      /\ disturbed' \subseteq Asset
      /\ job[a][k] # "none"
      /\ \E s \in JobStatus : job' = [job EXCEPT ![a] = [@ EXCEPT ![k] = s]]
  BY DEF CancelJob, Reclaim, RetryJob, Disturb, JobStatus, IInv, TypeOK
<1>2. Fresh' /\ job' \in [Asset -> [Key -> JobStatus]]
  BY <1>1, JobHasAsset, FreshWithJobs
<1>3. RunsOK' /\ run' \in [Run -> Execution]
  BY <1>1, WorldSame, RunsUnchanged DEF IInv
<1> QED
  BY <1>1, <1>2, <1>3, RunOnly DEF IInv, TypeOK

-------------------------------------------------------------------------------
(* The invariant holds                                                         *)

LEMMA InitInv == Init => IInv
<1> SUFFICES ASSUME Init PROVE IInv
  OBVIOUS
<1>1. [status |-> "none", retries |-> 0, content |-> None] \in AssetRow
  BY StatusSet, MediaAssumption DEF AssetRow
<1>2. TypeOK
  BY <1>1, IdleExecution, IdleErrand DEF Init, TypeOK, JobStatus
<1>3. Fresh /\ Hashed /\ Rows /\ Finished
  BY <1>2 DEF Init, Fresh, Hashed, Rows, Finished
<1>4. RunsOK /\ RequestsOK
  BY DEF Init, RunsOK, RunOK, RequestsOK, RequestOK, IdleRun, IdleRequest
<1> QED
  BY <1>2, <1>3, <1>4 DEF IInv

LEMMA StutterKeeps == ASSUME IInv, UNCHANGED vars PROVE IInv'
<1>1. UNCHANGED <<asset, row, picture, vanished, job, run, request, owed, disturbed>>
  BY DEF vars
<1>2. RunsOK' /\ run' \in [Run -> Execution]
  BY <1>1, WorldSame, RunsUnchanged DEF IInv
<1> QED
  BY <1>1, <1>2, JobsSame, RunOnly DEF IInv, TypeOK

LEMMA NextKeeps == ASSUME IInv, [Next]_vars PROVE IInv'
<1>1. CASE \E q \in Request : RequestStep(q)
  <2>1. PICK q \in Request : RequestStep(q)
    BY <1>1
  <2> QED
    BY <2>1, ResolveKeeps, FindRowKeeps, EndsKeep, RecoverKeeps, RereadKeeps,
       AutoStartKeeps, BeginSaveKeeps, MatchRowKeeps, CheckPictureKeeps DEF RequestStep
<1>2. CASE \E r \in Run : RunStep(r)
  <2>1. PICK r \in Run : RunStep(r)
    BY <1>2
  <2> QED
    BY <2>1, ClaimKeeps, LoadKeeps, ReadsKeep, SavesKeep, ReuseOwnKeeps,
       ReuseContentKeeps, ProvideKeeps, FailuresKeep, SaveRowKeeps, FinishKeeps,
       CrashKeeps, TimeOutKeeps DEF RunStep
<1>3. CASE \E a \in Asset : AssetStep(a)
  BY <1>3, RegisterKeeps, RetryKeeps, RegenerateKeeps, JobsKeep DEF AssetStep
<1>4. CASE \E o \in Object : Vanish(o)
  BY <1>4, VanishKeeps
<1>5. CASE UNCHANGED vars
  BY <1>5, StutterKeeps
<1> QED
  BY <1>1, <1>2, <1>3, <1>4, <1>5 DEF Next

\* The invariant holds in every state the pipeline reaches.
LEMMA Invariance == Spec => []IInv
<1>1. Init => IInv
  BY InitInv
<1>2. IInv /\ [Next]_vars => IInv'
  BY NextKeeps
<1> QED
  BY <1>1, <1>2, PTL DEF Spec

\* The tables, the runs and the requests keep their types: in particular no
\* handler saves a row that is not an asset row.
THEOREM MediaTypes == Spec => []TypeOK
<1>1. IInv => TypeOK
  BY DEF IInv
<1> QED
  BY <1>1, Invariance, PTL

\* However runs, requests, crashes and repeated deliveries interleave, a
\* completed asset has its derivative row, unless a picture of its content has
\* vanished from storage.
THEOREM CompletedAssetsHaveResults == Spec => []CompletedHasResult
<1>1. IInv => CompletedHasResult
  BY DEF IInv, Finished, Result, CompletedHasResult
<1> QED
  BY <1>1, Invariance, PTL

\* Whatever is shared, deleted or copied between assets, a derivative row and a
\* Repit that passed its checks show the processed picture of the right original.
THEOREM PicturesShowTheirSubject == Spec => []ShowsItsSubject
<1>1. IInv => ShowsItsSubject
  BY DEF IInv, Rows, RequestsOK, RequestOK, ShowsItsSubject
<1> QED
  BY <1>1, Invariance, PTL
\* A completed asset has a result of its own subject.
THEOREM ResultsAreAlwaysTrue == Spec => []ResultsAreTrue
<1>1. CompletedHasResult /\ ShowsItsSubject => ResultsAreTrue
  BY DEF ResultsAreTrue
<1> QED
  BY <1>1, CompletedAssetsHaveResults, PicturesShowTheirSubject, PTL

-------------------------------------------------------------------------------
(* Runs, payments and the status of one asset                                  *)

On(r, a) == run[r].pc # "idle" /\ run[r].asset = a
Holds(r, a, k) == On(r, a) /\ run[r].holds /\ run[r].key = k

\* Runs that have not asked the provider yet, and those that are past the guard.
Unpaid == {"load", "mark", "marking", "threw", "reuse", "content", "provider"}
Starting == {"load", "mark", "marking"}

\* A job is active while one run has it; at most one run of an asset goes on
\* without its job, once a fault has struck the asset.
JobsFit(a) ==
    /\ \A r \in Run, k \in Key : Holds(r, a, k) => job[a][k] = "active"
    /\ \A r, s \in Run, k \in Key : Holds(r, a, k) /\ Holds(s, a, k) => r = s
    /\ \A r \in Run : On(r, a) /\ ~run[r].holds => a \in disturbed
    /\ \A r, s \in Run : On(r, a) /\ On(s, a) /\ ~run[r].holds /\ ~run[s].holds => r = s

\* The jobs that may bring a run to an asset, or have just brought it.
Waits(a, k) ==
    \/ job[a][k] = "queued"
    \/ \E r \in Run : Holds(r, a, k) /\ run[r].pc \in Starting

\* Unless a fault struck it, an asset is queued while its one job waits, and it
\* is processing while one run works on it, which has read the asset as it is.
Calm(a) ==
    /\ \A k \in Key : job[a][k] = "active" => \E r \in Run : Holds(r, a, k)
    /\ \A k, l \in Key : Waits(a, k) /\ Waits(a, l) => k = l
    /\ \A k \in Key : Waits(a, k) => asset[a].status = "queued"
    /\ \A r \in Run : On(r, a) /\ run[r].pc \in Working => asset[a].status = "processing"
    /\ \A r, s \in Run :
         On(r, a) /\ On(s, a) /\ run[r].pc \in Working /\ run[s].pc \in Working => r = s
    /\ asset[a].status = "processing" => \E r \in Run : On(r, a) /\ run[r].pc \in Working
    /\ \A r \in Run : On(r, a) =>
         /\ run[r].pc # "threw"
         /\ run[r].pc \in {"marking", "completing", "failing"} => run[r].seen = asset[a]

\* The calls of the provider that the jobs of an asset may still make: one for
\* each job that waits, was left behind, or is with a run that has not asked yet,
\* and one for such a run without its job.
MayPay(a, k) ==
    \/ job[a][k] = "queued"
    \/ job[a][k] = "active" /\ \A r \in Run : Holds(r, a, k) => run[r].pc \in Unpaid
Payers(a) == {k \in Key : MayPay(a, k)}
Strays(a) == \E r \in Run : On(r, a) /\ ~run[r].holds /\ run[r].pc \in Unpaid
One(b) == IF b THEN 1 ELSE 0

\* They are covered by the times the asset was queued, and one for a fault.
Covered(a) == owed[a] + One(a \in disturbed) >= Cardinality(Payers(a)) + One(Strays(a))

Fits(a) == JobsFit(a) /\ (a \notin disturbed => Calm(a)) /\ Covered(a)
AllFit == \A a \in Asset : Fits(a)

-------------------------------------------------------------------------------
(* Counting keys                                                               *)

LEMMA KeysAreFinite == IsFiniteSet(Key)
<1>1. IsFiniteSet(0 .. MaxRetry) /\ IsFiniteSet(1 .. MaxRegen)
  BY MediaAssumption, FS_Interval
<1>2. IsFiniteSet({Plain(n) : n \in 0 .. MaxRetry})
  <2> DEFINE f == [n \in 0 .. MaxRetry |-> Plain(n)]
  <2>1. f \in Surjection(0 .. MaxRetry, {Plain(n) : n \in 0 .. MaxRetry})
    BY DEF Surjection
  <2> QED
    BY <1>1, <2>1, FS_Surjection
<1>3. IsFiniteSet({Regen(n) : n \in 1 .. MaxRegen})
  <2> DEFINE f == [n \in 1 .. MaxRegen |-> Regen(n)]
  <2>1. f \in Surjection(1 .. MaxRegen, {Regen(n) : n \in 1 .. MaxRegen})
    BY DEF Surjection
  <2> QED
    BY <1>1, <2>1, FS_Surjection
<1> QED
  BY <1>2, <1>3, FS_Union DEF Key

LEMMA KeysCounted == ASSUME NEW S \in SUBSET Key PROVE IsFiniteSet(S) /\ Cardinality(S) \in Nat
<1>1. IsFiniteSet(S)
  BY KeysAreFinite, FS_Subset
<1> QED
  BY <1>1, FS_CardinalityType

LEMMA NoMore ==
    ASSUME NEW T \in SUBSET Key, NEW S \in SUBSET T
    PROVE  Cardinality(S) <= Cardinality(T)
BY KeysCounted, FS_Subset

LEMMA OneMore ==
    ASSUME NEW T \in SUBSET Key, NEW S \in SUBSET Key, NEW k \in Key, S \subseteq T \cup {k}
    PROVE  Cardinality(S) <= Cardinality(T) + 1
<1>1. IsFiniteSet(T) /\ Cardinality(T) \in Nat /\ Cardinality(S) \in Nat
  BY KeysCounted
<1>2. Cardinality(T \cup {k}) = IF k \in T THEN Cardinality(T) ELSE Cardinality(T) + 1
  BY <1>1, FS_AddElement
<1>3. T \cup {k} \in SUBSET Key
  OBVIOUS
<1>4. Cardinality(S) <= Cardinality(T \cup {k})
  BY <1>3, NoMore
<1> QED
  BY <1>1, <1>2, <1>4

LEMMA OneLess ==
    ASSUME NEW T \in SUBSET Key, NEW S \in SUBSET Key, NEW k \in T, S \subseteq T \ {k}
    PROVE  Cardinality(S) <= Cardinality(T) - 1
<1>1. IsFiniteSet(T) /\ Cardinality(T) \in Nat /\ Cardinality(S) \in Nat
  BY KeysCounted
<1>2. Cardinality(T \ {k}) = Cardinality(T) - 1
  BY <1>1, FS_RemoveElement
<1>3. T \ {k} \in SUBSET Key
  OBVIOUS
<1>4. Cardinality(S) <= Cardinality(T \ {k})
  BY <1>3, NoMore
<1> QED
  BY <1>1, <1>2, <1>4

-------------------------------------------------------------------------------
(* The calls that may still be made, after a step                              *)

LEMMA CoverShrinks ==
    ASSUME TypeOK, NEW a \in Asset, Covered(a), owed'[a] = owed[a],
           Payers(a)' \subseteq Payers(a), Strays(a)' => Strays(a),
           a \in disturbed => a \in disturbed'
    PROVE  Covered(a)'
<1>1. Payers(a) \in SUBSET Key /\ Payers(a)' \in SUBSET Payers(a) /\ owed[a] \in Int
  BY DEF Payers, TypeOK
<1>2. /\ Cardinality(Payers(a))' <= Cardinality(Payers(a))
      /\ Cardinality(Payers(a)) \in Nat /\ Cardinality(Payers(a))' \in Nat
  BY <1>1, NoMore, KeysCounted
<1> QED
  BY <1>1, <1>2 DEF Covered, One

LEMMA CoverQueued ==
    ASSUME TypeOK, NEW a \in Asset, Covered(a), owed'[a] = owed[a] + 1,
           NEW k \in Key, Payers(a)' \subseteq Payers(a) \cup {k}, Strays(a)' => Strays(a),
           a \in disturbed => a \in disturbed'
    PROVE  Covered(a)'
<1>1. Payers(a) \in SUBSET Key /\ Payers(a)' \in SUBSET Key /\ owed[a] \in Int
  BY DEF Payers, TypeOK
<1>2. /\ Cardinality(Payers(a))' <= Cardinality(Payers(a)) + 1
      /\ Cardinality(Payers(a)) \in Nat /\ Cardinality(Payers(a))' \in Nat
  BY <1>1, OneMore, KeysCounted
<1> QED
  BY <1>1, <1>2 DEF Covered, One

\* A fault adds one payer.
LEMMA CoverFault ==
    ASSUME TypeOK, NEW a \in Asset, Covered(a), owed'[a] = owed[a],
           a \notin disturbed, a \in disturbed',
           NEW k \in Key, Payers(a)' \subseteq Payers(a) \cup {k}, Strays(a)' => Strays(a)
    PROVE  Covered(a)'
<1>1. Payers(a) \in SUBSET Key /\ Payers(a)' \in SUBSET Key /\ owed[a] \in Int
  BY DEF Payers, TypeOK
<1>2. /\ Cardinality(Payers(a))' <= Cardinality(Payers(a)) + 1
      /\ Cardinality(Payers(a)) \in Nat /\ Cardinality(Payers(a))' \in Nat
  BY <1>1, OneMore, KeysCounted
<1> QED
  BY <1>1, <1>2 DEF Covered, One

\* A fault makes a stray of a payer's run.
LEMMA CoverStrays ==
    ASSUME TypeOK, NEW a \in Asset, Covered(a), owed'[a] = owed[a],
           a \notin disturbed, a \in disturbed', Payers(a)' \subseteq Payers(a)
    PROVE  Covered(a)'
<1>1. Payers(a) \in SUBSET Key /\ Payers(a)' \in SUBSET Payers(a) /\ owed[a] \in Int
  BY DEF Payers, TypeOK
<1>2. /\ Cardinality(Payers(a))' <= Cardinality(Payers(a))
      /\ Cardinality(Payers(a)) \in Nat /\ Cardinality(Payers(a))' \in Nat
  BY <1>1, NoMore, KeysCounted
<1> QED
  BY <1>1, <1>2 DEF Covered, One

\* A payer has paid: one of the jobs, or the run without its job.
LEMMA CoverPaid ==
    ASSUME TypeOK, NEW a \in Asset, Covered(a), owed'[a] = owed[a] - 1,
           a \in disturbed => a \in disturbed', Payers(a)' \subseteq Payers(a),
           \/ Strays(a) /\ ~Strays(a)'
           \/ (Strays(a)' => Strays(a)) /\ \E k \in Payers(a) : k \notin Payers(a)'
    PROVE  Covered(a)'
<1>1. Payers(a) \in SUBSET Key /\ Payers(a)' \in SUBSET Payers(a) /\ owed[a] \in Int
  BY DEF Payers, TypeOK
<1>2. /\ Cardinality(Payers(a))' <= Cardinality(Payers(a))
      /\ Cardinality(Payers(a)) \in Nat /\ Cardinality(Payers(a))' \in Nat
  BY <1>1, NoMore, KeysCounted
<1>3. CASE Strays(a) /\ ~Strays(a)'
  BY <1>1, <1>2, <1>3 DEF Covered, One
<1>4. CASE (Strays(a)' => Strays(a)) /\ \E k \in Payers(a) : k \notin Payers(a)'
  <2>1. PICK k \in Payers(a) : k \notin Payers(a)'
    BY <1>4
  <2>2. Payers(a)' \in SUBSET Key /\ Payers(a)' \subseteq Payers(a) \ {k}
    BY <1>1, <2>1
  <2>3. Cardinality(Payers(a))' <= Cardinality(Payers(a)) - 1
    BY <1>1, <2>2, OneLess
  <2> QED
    BY <1>1, <1>2, <1>4, <2>3 DEF Covered, One
<1> QED
  BY <1>3, <1>4

-------------------------------------------------------------------------------
(* Steps elsewhere                                                             *)

Elsewhere(b) ==
    /\ asset'[b] = asset[b] /\ job'[b] = job[b] /\ owed'[b] = owed[b]
    /\ b \in disturbed' <=> b \in disturbed
    /\ \A s \in Run : run'[s] = run[s] \/ (~On(s, b) /\ ~On(s, b)')

LEMMA ElsewhereKeeps ==
    ASSUME NEW b \in Asset, Elsewhere(b), Fits(b) PROVE Fits(b)'
<1>1. \A s \in Run : (On(s, b)' <=> On(s, b)) /\ (On(s, b) => run'[s] = run[s])
  BY DEF Elsewhere, On
<1>2. \A s \in Run, k \in Key : Holds(s, b, k)' <=> Holds(s, b, k)
  BY <1>1 DEF Holds
<1>3. \A s \in Run, k \in Key : Holds(s, b, k) => run'[s] = run[s]
  BY <1>1 DEF Holds
<1>4. JobsFit(b)'
  BY <1>1, <1>2 DEF JobsFit, Elsewhere, Fits
<1>5. \A k \in Key : Waits(b, k)' <=> Waits(b, k)
  BY <1>2, <1>3 DEF Waits, Elsewhere
<1>6. b \notin disturbed' => Calm(b)'
  <2> SUFFICES ASSUME Calm(b) PROVE Calm(b)'
    BY DEF Elsewhere, Fits
  <2> QED
    BY <1>1, <1>2, <1>5 DEF Calm, Elsewhere
<1>7. \A k \in Key : MayPay(b, k)' <=> MayPay(b, k)
  BY <1>2, <1>3 DEF MayPay, Elsewhere
<1>8. Payers(b)' = Payers(b)
  BY <1>7 DEF Payers
<1>9. Strays(b)' <=> Strays(b)
  BY <1>1 DEF Strays
<1>10. Covered(b)'
  BY <1>8, <1>9 DEF Covered, Elsewhere, Fits, One
<1> QED
  BY <1>4, <1>6, <1>10 DEF Fits

\* What a step of asset a leaves alone, when no more than one run moves.
Apart(a) ==
    \A b \in Asset \ {a} :
        /\ asset'[b] = asset[b] /\ job'[b] = job[b] /\ owed'[b] = owed[b]
        /\ b \in disturbed' <=> b \in disturbed

LEMMA ActingOn ==
    ASSUME AllFit, NEW a \in Asset, Fits(a)', Apart(a),
           \A s \in Run, b \in Asset \ {a} : run'[s] = run[s] \/ (~On(s, b) /\ ~On(s, b)')
    PROVE  AllFit'
<1>1. \A b \in Asset \ {a} : Elsewhere(b)
  BY DEF Elsewhere, Apart
<1>2. \A b \in Asset \ {a} : Fits(b)'
  BY <1>1, ElsewhereKeeps DEF AllFit
<1> QED
  BY <1>2 DEF AllFit

\* Nothing that the invariant speaks of changes.
LEMMA NothingMoves ==
    ASSUME AllFit, UNCHANGED <<asset, job, run, owed, disturbed>> PROVE AllFit'
<1>1. \A b \in Asset : Elsewhere(b)
  BY DEF Elsewhere
<1> QED
  BY <1>1, ElsewhereKeeps DEF AllFit

-------------------------------------------------------------------------------
(* A run goes on                                                               *)

Moves(r, pc) ==
    /\ run'[r].pc = pc /\ run'[r].asset = run[r].asset /\ run'[r].key = run[r].key
    /\ run'[r].holds = run[r].holds
    /\ \A s \in Run \ {r} : run'[s] = run[s]

LEMMA GoingMoves ==
    ASSUME TypeOK, NEW r \in Run, NEW pc \in RunPCs, RunGoes(r, pc) PROVE Moves(r, pc)
BY RunGoesForm DEF Moves

LEMMA ReadingMoves ==
    ASSUME TypeOK, NEW r \in Run, NEW pc \in {"marking", "completing", "failing"},
           run[r].asset \in Asset,
           run' = [run EXCEPT ![r] = [run[r] EXCEPT !.pc = pc, !.seen = asset[run[r].asset]]]
    PROVE  Moves(r, pc) /\ run'[r].seen = asset[run[r].asset]
BY ReadForm DEF Moves

LEMMA SameRuns ==
    ASSUME NEW r \in Run, run[r].pc # "idle", NEW pc \in RunPCs, pc # "idle", Moves(r, pc)
    PROVE  /\ \A s \in Run, b \in Asset : On(s, b)' <=> On(s, b)
           /\ \A s \in Run, b \in Asset, k \in Key : Holds(s, b, k)' <=> Holds(s, b, k)
           /\ \A s \in Run : run'[s].holds <=> run[s].holds
           /\ \A s \in Run \ {r} : run'[s] = run[s]
           /\ run'[r].pc = pc
<1>1. \A s \in Run : /\ run'[s].asset = run[s].asset /\ run'[s].key = run[s].key
                     /\ run'[s].pc # "idle" <=> run[s].pc # "idle"
                     /\ run'[s].holds = run[s].holds
  BY DEF Moves
<1>2. \A s \in Run, b \in Asset : On(s, b)' <=> On(s, b)
  BY <1>1 DEF On
<1>3. \A s \in Run, b \in Asset, k \in Key : Holds(s, b, k)' <=> Holds(s, b, k)
  BY <1>1, <1>2 DEF Holds
<1> QED
  BY <1>1, <1>2, <1>3 DEF Moves

LEMMA MovesApart ==
    ASSUME NEW r \in Run, NEW a \in Asset, run[r].asset = a, NEW pc \in RunPCs, Moves(r, pc)
    PROVE  \A s \in Run, b \in Asset \ {a} : run'[s] = run[s] \/ (~On(s, b) /\ ~On(s, b)')
BY DEF Moves, On

LEMMA JobsFitMoving ==
    ASSUME NEW a \in Asset, JobsFit(a), NEW r \in Run, run[r].pc # "idle",
           NEW pc \in RunPCs, pc # "idle", Moves(r, pc),
           UNCHANGED job, a \in disturbed => a \in disturbed'
    PROVE  JobsFit(a)'
<1>1. /\ \A s \in Run : On(s, a)' <=> On(s, a)
      /\ \A s \in Run, k \in Key : Holds(s, a, k)' <=> Holds(s, a, k)
      /\ \A s \in Run : run'[s].holds <=> run[s].holds
  BY SameRuns
<1> QED
  BY <1>1 DEF JobsFit

\* A run that asks the provider later has not asked yet.
LEMMA PayersMoving ==
    ASSUME NEW a \in Asset, NEW r \in Run, run[r].pc # "idle",
           NEW pc \in RunPCs, pc # "idle", Moves(r, pc), UNCHANGED job,
           pc \in Unpaid => run[r].pc \in Unpaid
    PROVE  Payers(a)' \subseteq Payers(a) /\ (Strays(a)' => Strays(a))
<1>1. /\ \A s \in Run : On(s, a)' <=> On(s, a)
      /\ \A s \in Run, k \in Key : Holds(s, a, k)' <=> Holds(s, a, k)
      /\ \A s \in Run : run'[s].holds <=> run[s].holds
      /\ \A s \in Run \ {r} : run'[s] = run[s]
      /\ run'[r].pc = pc
  BY SameRuns
<1>2. \A s \in Run : run'[s].pc \in Unpaid => run[s].pc \in Unpaid
  BY <1>1
<1>3. \A k \in Key : MayPay(a, k)' => MayPay(a, k)
  BY <1>1, <1>2 DEF MayPay
<1>4. Payers(a)' \subseteq Payers(a)
  BY <1>3 DEF Payers
<1>5. Strays(a)' => Strays(a)
  BY <1>1, <1>2 DEF Strays
<1> QED
  BY <1>4, <1>5

\* Of an asset at peace: a run stays on its side of the guard and of the end of
\* its work, and has read the asset as it is.
LEMMA CalmMoving ==
    ASSUME NEW a \in Asset, Calm(a), NEW r \in Run, run[r].pc # "idle", run[r].asset = a,
           NEW pc \in RunPCs, pc # "idle", pc # "threw", Moves(r, pc),
           UNCHANGED <<job, asset>>,
           pc \in Starting => run[r].pc \in Starting,
           pc \in Working <=> run[r].pc \in Working,
           pc \in {"marking", "completing", "failing"} => run'[r].seen = asset[a]
    PROVE  Calm(a)'
<1>1. /\ \A s \in Run : On(s, a)' <=> On(s, a)
      /\ \A s \in Run, k \in Key : Holds(s, a, k)' <=> Holds(s, a, k)
      /\ \A s \in Run \ {r} : run'[s] = run[s]
      /\ run'[r].pc = pc
  BY SameRuns
<1>2. \A s \in Run : /\ run'[s].pc \in Starting => run[s].pc \in Starting
                     /\ run'[s].pc \in Working <=> run[s].pc \in Working
  BY <1>1
<1>3. \A k \in Key : Waits(a, k)' => Waits(a, k)
  BY <1>1, <1>2 DEF Waits
<1>4. \A k \in Key : job'[a][k] = "active" => \E s \in Run : Holds(s, a, k)'
  BY <1>1 DEF Calm
<1>5. /\ \A k, l \in Key : Waits(a, k)' /\ Waits(a, l)' => k = l
      /\ \A k \in Key : Waits(a, k)' => asset'[a].status = "queued"
  BY <1>3 DEF Calm
<1>6. /\ \A s \in Run : On(s, a)' /\ run'[s].pc \in Working => asset'[a].status = "processing"
      /\ \A s, u \in Run :
           On(s, a)' /\ On(u, a)' /\ run'[s].pc \in Working /\ run'[u].pc \in Working => s = u
      /\ asset'[a].status = "processing" => \E s \in Run : On(s, a)' /\ run'[s].pc \in Working
  BY <1>1, <1>2 DEF Calm
<1>7. \A s \in Run : On(s, a)' =>
        /\ run'[s].pc # "threw"
        /\ run'[s].pc \in {"marking", "completing", "failing"} => run'[s].seen = asset'[a]
  BY <1>1 DEF Calm
<1> QED
  BY <1>4, <1>5, <1>6, <1>7 DEF Calm

\* A step that takes one run on and leaves assets, jobs and payments alone.
LEMMA MovingFits ==
    ASSUME TypeOK, AllFit, NEW a \in Asset, NEW r \in Run, run[r].pc # "idle", run[r].asset = a,
           NEW pc \in RunPCs, pc # "idle", Moves(r, pc),
           UNCHANGED <<asset, job, owed>>,
           a \in disturbed => a \in disturbed',
           \A b \in Asset \ {a} : b \in disturbed' <=> b \in disturbed,
           pc \in Unpaid => run[r].pc \in Unpaid,
           a \notin disturbed' /\ Calm(a) => Calm(a)'
    PROVE  AllFit'
<1>1. JobsFit(a)'
  BY JobsFitMoving DEF AllFit, Fits
<1>2. Payers(a)' \subseteq Payers(a) /\ (Strays(a)' => Strays(a))
  BY PayersMoving
<1>3. Covered(a)'
  BY <1>2, CoverShrinks DEF AllFit, Fits
<1>4. Fits(a)'
  BY <1>1, <1>3 DEF AllFit, Fits
<1>5. Apart(a)
  BY DEF Apart
<1> QED
  BY <1>4, <1>5, MovesApart, ActingOn

\* What an asset at peace tells of a run.
LEMMA CalmRun ==
    ASSUME NEW a \in Asset, Fits(a), a \notin disturbed, NEW r \in Run, run[r].asset = a,
           run[r].pc # "idle", run[r].key \in Key
    PROVE  /\ On(r, a) /\ Holds(r, a, run[r].key)
           /\ run[r].pc \in Starting => asset[a].status = "queued"
           /\ run[r].pc \in Working => asset[a].status = "processing"
<1>1. On(r, a) /\ Holds(r, a, run[r].key)
  BY DEF On, Holds, Fits, JobsFit
<1>2. run[r].pc \in Starting => Waits(a, run[r].key)
  BY <1>1 DEF Waits
<1> QED
  BY <1>1, <1>2 DEF Fits, Calm

LEMMA LoadFits == ASSUME IInv, AllFit, NEW r \in Run, Load(r) PROVE AllFit'
<1>1. PICK a \in Asset : a = run[r].asset
  BY DEF Load, IInv, RunsOK, RunOK
<1>2. PICK pc \in {"mark", "gaveUp"} :
        pc = IF asset[run[r].asset].status = "queued" THEN "mark" ELSE "gaveUp"
  OBVIOUS
<1>3. /\ run[r].pc = "load" /\ RunGoes(r, pc)
      /\ UNCHANGED <<asset, job, owed, disturbed>>
  BY <1>2 DEF Load
<1>4. TypeOK /\ pc \in RunPCs /\ Moves(r, pc)
  BY <1>3, GoingMoves DEF IInv, RunPCs
<1>5. /\ pc \notin Working /\ run[r].pc \notin Working /\ run[r].pc \in Unpaid
      /\ run[r].pc \in Starting /\ run[r].pc # "idle" /\ pc # "idle" /\ pc # "threw"
      /\ pc \notin {"marking", "completing", "failing"}
  BY <1>3 DEF Working, Unpaid, Starting
<1>6. Calm(a) => Calm(a)'
  BY <1>1, <1>3, <1>4, <1>5, CalmMoving
<1> QED
  BY <1>1, <1>3, <1>4, <1>5, <1>6, MovingFits

\* Steps of a run at work that lead to its next call.
LEMMA WorkFits ==
    ASSUME IInv, AllFit, NEW r \in Run, run[r].pc \in Working,
           NEW pc \in {"done", "content", "provider", "fail", "save"}, RunGoes(r, pc),
           pc \in Unpaid => run[r].pc \in Unpaid,
           UNCHANGED <<asset, job, owed, disturbed>>
    PROVE  AllFit'
<1>0. run[r].pc # "idle"
  BY DEF Working
<1>1. PICK a \in Asset : a = run[r].asset
  BY <1>0 DEF IInv, RunsOK, RunOK
<1>2. TypeOK /\ pc \in RunPCs /\ Moves(r, pc)
  BY GoingMoves DEF IInv, RunPCs, Working
<1>3. /\ pc \in Working /\ pc \notin Starting /\ pc # "idle" /\ pc # "threw"
      /\ pc \notin {"marking", "completing", "failing"}
  BY DEF Working, Starting
<1>4. Calm(a) => Calm(a)'
  BY <1>0, <1>1, <1>2, <1>3, CalmMoving
<1> QED
  BY <1>0, <1>1, <1>2, <1>3, <1>4, MovingFits

LEMMA StepsFit ==
    ASSUME IInv, AllFit, NEW r \in Run,
           ReuseOwn(r) \/ ReuseContent(r) \/ SaveRow(r) \/ StepFails(r)
    PROVE  AllFit'
<1>1. CASE ReuseOwn(r)
  <2>1. /\ run[r].pc = "reuse" /\ UNCHANGED <<asset, job, owed, disturbed>>
        /\ RunGoes(r, "done") \/ RunGoes(r, "content")
    BY <1>1 DEF ReuseOwn
  <2> QED
    BY <2>1, WorkFits DEF Working, Unpaid
<1>2. CASE ReuseContent(r)
  <2>1. /\ run[r].pc = "content" /\ UNCHANGED <<asset, job, owed, disturbed>>
        /\ RunGoes(r, "done") \/ RunGoes(r, "provider") \/ RunGoes(r, "fail")
    BY <1>2 DEF ReuseContent
  <2> QED
    BY <2>1, WorkFits DEF Working, Unpaid
<1>3. CASE SaveRow(r)
  <2>1. /\ run[r].pc = "save" /\ UNCHANGED <<asset, job, owed, disturbed>>
        /\ RunGoes(r, "done") \/ RunGoes(r, "fail")
    BY <1>3 DEF SaveRow
  <2> QED
    BY <2>1, WorkFits DEF Working, Unpaid
<1>4. CASE StepFails(r)
  <2>1. /\ run[r].pc \in Working /\ UNCHANGED <<asset, job, owed, disturbed>>
        /\ RunGoes(r, "fail")
    BY <1>4 DEF StepFails, Working
  <2> QED
    BY <2>1, WorkFits DEF Unpaid
<1> QED
  BY <1>1, <1>2, <1>3, <1>4

\* setStatus of an asset at peace goes where the handler means it to go.
LEMMA ReadsForCases ==
    ASSUME TypeOK, NEW r \in Run, NEW to, NEW there, NEW allowed, NEW refused,
           ReadsFor(r, to, there, allowed, refused)
    PROVE  \/ asset[run[r].asset].status = to /\ RunGoes(r, there)
           \/ to \notin Transitions[asset[run[r].asset].status] /\ RunGoes(r, refused)
           \/ run' = [run EXCEPT ![r] =
                [run[r] EXCEPT !.pc = allowed, !.seen = asset[run[r].asset]]]
BY DEF ReadsFor

LEMMA ReadingFits ==
    ASSUME IInv, AllFit, NEW r \in Run, NEW a \in Asset, run[r].asset = a, run[r].pc # "idle",
           NEW pc \in {"marking", "completing", "failing"},
           run' = [run EXCEPT ![r] = [run[r] EXCEPT !.pc = pc, !.seen = asset[run[r].asset]]],
           pc \in Unpaid => run[r].pc \in Unpaid,
           pc \in Starting => run[r].pc \in Starting,
           pc \in Working <=> run[r].pc \in Working,
           UNCHANGED <<asset, job, owed, disturbed>>
    PROVE  AllFit'
<1>1. TypeOK /\ pc \in RunPCs /\ pc # "idle" /\ pc # "threw"
  BY DEF IInv, RunPCs, Working
<1>2. Moves(r, pc) /\ run'[r].seen = asset[a]
  BY <1>1, ReadingMoves
<1>3. Calm(a) => Calm(a)'
  BY <1>1, <1>2, CalmMoving
<1> QED
  BY <1>1, <1>2, <1>3, MovingFits

\* Where the asset is not at peace, the run may go anywhere.
LEMMA RefusedFits ==
    ASSUME IInv, AllFit, NEW r \in Run, NEW a \in Asset, run[r].asset = a, run[r].pc # "idle",
           NEW pc \in RunPCs, pc # "idle", RunGoes(r, pc),
           pc \in Unpaid => run[r].pc \in Unpaid,
           a \in disturbed', a \in disturbed => a \in disturbed',
           \A b \in Asset \ {a} : b \in disturbed' <=> b \in disturbed,
           UNCHANGED <<asset, job, owed>>
    PROVE  AllFit'
<1>1. TypeOK /\ Moves(r, pc)
  BY GoingMoves DEF IInv
<1> QED
  BY <1>1, MovingFits

LEMMA MarkReadFits == ASSUME IInv, AllFit, NEW r \in Run, MarkRead(r) PROVE AllFit'
<1>1. /\ run[r].pc = "mark" /\ ReadsFor(r, "processing", "reuse", "marking", "threw")
      /\ UNCHANGED <<asset, job, owed, disturbed>> /\ TypeOK
  BY DEF MarkRead, IInv
<1>2. PICK a \in Asset : a = run[r].asset
  BY <1>1 DEF IInv, RunsOK, RunOK
<1>3. /\ run[r].pc # "idle" /\ run[r].pc \in Unpaid /\ run[r].pc \in Starting
      /\ run[r].pc \notin Working /\ run[r].key \in Key
      /\ "marking" \notin Working /\ "reuse" \in RunPCs /\ "threw" \in RunPCs
  BY <1>1 DEF Unpaid, Starting, Working, RunPCs, IInv, RunsOK, RunOK
<1>4. a \notin disturbed => asset[a].status = "queued"
  BY <1>2, <1>3, CalmRun DEF AllFit
<1>5. CASE a \in disturbed /\ (RunGoes(r, "reuse") \/ RunGoes(r, "threw"))
  BY <1>1, <1>2, <1>3, <1>5, RefusedFits
<1>6. CASE run' = [run EXCEPT ![r] =
              [run[r] EXCEPT !.pc = "marking", !.seen = asset[run[r].asset]]]
  BY <1>1, <1>2, <1>3, <1>6, ReadingFits
<1>7. "processing" \in Transitions["queued"]
  BY DEF Transitions
<1>8. \/ asset[a].status = "processing" /\ RunGoes(r, "reuse")
      \/ "processing" \notin Transitions[asset[a].status] /\ RunGoes(r, "threw")
      \/ run' = [run EXCEPT ![r] =
           [run[r] EXCEPT !.pc = "marking", !.seen = asset[run[r].asset]]]
  BY <1>1, <1>2, ReadsForCases
<1>9. CASE asset[a].status = "processing" /\ RunGoes(r, "reuse")
  BY <1>4, <1>5, <1>9
<1>10. CASE "processing" \notin Transitions[asset[a].status] /\ RunGoes(r, "threw")
  BY <1>4, <1>5, <1>7, <1>10
<1> QED
  BY <1>6, <1>8, <1>9, <1>10

LEMMA DoneReadFits == ASSUME IInv, AllFit, NEW r \in Run, DoneRead(r) PROVE AllFit'
<1>1. /\ run[r].pc = "done" /\ ReadsFor(r, "completed", "succeeded", "completing", "fail")
      /\ UNCHANGED <<asset, job, owed, disturbed>> /\ TypeOK
  BY DEF DoneRead, IInv
<1>2. PICK a \in Asset : a = run[r].asset
  BY <1>1 DEF IInv, RunsOK, RunOK
<1>3. /\ run[r].pc # "idle" /\ run[r].pc \notin Starting /\ "completing" \notin Unpaid
      /\ run[r].pc \in Working /\ run[r].key \in Key /\ "completing" \in Working
      /\ "completing" \notin Starting /\ "succeeded" \in RunPCs /\ "fail" \in RunPCs
      /\ "succeeded" \notin Unpaid /\ "fail" \notin Unpaid
  BY <1>1 DEF Unpaid, Starting, Working, RunPCs, IInv, RunsOK, RunOK
<1>4. a \notin disturbed => asset[a].status = "processing"
  BY <1>2, <1>3, CalmRun DEF AllFit
<1>5. CASE a \in disturbed /\ (RunGoes(r, "succeeded") \/ RunGoes(r, "fail"))
  BY <1>1, <1>2, <1>3, <1>5, RefusedFits
<1>6. CASE run' = [run EXCEPT ![r] =
              [run[r] EXCEPT !.pc = "completing", !.seen = asset[run[r].asset]]]
  BY <1>1, <1>2, <1>3, <1>6, ReadingFits
<1>7. "completed" \in Transitions["processing"]
  BY DEF Transitions
<1>8. \/ asset[a].status = "completed" /\ RunGoes(r, "succeeded")
      \/ "completed" \notin Transitions[asset[a].status] /\ RunGoes(r, "fail")
      \/ run' = [run EXCEPT ![r] =
           [run[r] EXCEPT !.pc = "completing", !.seen = asset[run[r].asset]]]
  BY <1>1, <1>2, ReadsForCases
<1>9. CASE asset[a].status = "completed" /\ RunGoes(r, "succeeded")
  BY <1>4, <1>5, <1>9
<1>10. CASE "completed" \notin Transitions[asset[a].status] /\ RunGoes(r, "fail")
  BY <1>4, <1>5, <1>7, <1>10
<1> QED
  BY <1>6, <1>8, <1>9, <1>10

LEMMA FailReadFits == ASSUME IInv, AllFit, NEW r \in Run, FailRead(r) PROVE AllFit'
<1>1. /\ run[r].pc = "fail" /\ ReadsFor(r, "failed", "gaveUp", "failing", "gaveUp")
      /\ UNCHANGED <<asset, job, owed, disturbed>> /\ TypeOK
  BY DEF FailRead, IInv
<1>2. PICK a \in Asset : a = run[r].asset
  BY <1>1 DEF IInv, RunsOK, RunOK
<1>3. /\ run[r].pc # "idle" /\ run[r].pc \notin Starting /\ "failing" \notin Unpaid
      /\ run[r].pc \in Working /\ run[r].key \in Key /\ "failing" \in Working
      /\ "failing" \notin Starting /\ "gaveUp" \in RunPCs /\ "gaveUp" \notin Unpaid
  BY <1>1 DEF Unpaid, Starting, Working, RunPCs, IInv, RunsOK, RunOK
<1>4. a \notin disturbed => asset[a].status = "processing"
  BY <1>2, <1>3, CalmRun DEF AllFit
<1>5. CASE a \in disturbed /\ RunGoes(r, "gaveUp")
  BY <1>1, <1>2, <1>3, <1>5, RefusedFits
<1>6. CASE run' = [run EXCEPT ![r] =
              [run[r] EXCEPT !.pc = "failing", !.seen = asset[run[r].asset]]]
  BY <1>1, <1>2, <1>3, <1>6, ReadingFits
<1>7. "failed" \in Transitions["processing"]
  BY DEF Transitions
<1>8. \/ asset[a].status = "failed" /\ RunGoes(r, "gaveUp")
      \/ "failed" \notin Transitions[asset[a].status] /\ RunGoes(r, "gaveUp")
      \/ run' = [run EXCEPT ![r] =
           [run[r] EXCEPT !.pc = "failing", !.seen = asset[run[r].asset]]]
  BY <1>1, <1>2, ReadsForCases
<1>9. CASE asset[a].status = "failed" /\ RunGoes(r, "gaveUp")
  BY <1>4, <1>5, <1>9
<1>10. CASE "failed" \notin Transitions[asset[a].status] /\ RunGoes(r, "gaveUp")
  BY <1>4, <1>5, <1>7, <1>10
<1> QED
  BY <1>6, <1>8, <1>9, <1>10

LEMMA WriteLostFits == ASSUME IInv, AllFit, NEW r \in Run, WriteLost(r) PROVE AllFit'
<1>1. PICK pc \in {"threw", "gaveUp"} : pc = IF run[r].pc = "reuse" THEN "threw" ELSE "gaveUp"
  OBVIOUS
<1>2. /\ run[r].pc \in {"reuse", "fail", "failing"} /\ RunGoes(r, pc)
      /\ Disturb(run[r].asset) /\ UNCHANGED <<asset, job, owed>>
  BY <1>1 DEF WriteLost
<1>3. PICK a \in Asset : a = run[r].asset
  BY <1>2 DEF IInv, RunsOK, RunOK
<1>4. disturbed' = disturbed \cup {a}
  BY <1>2, <1>3 DEF Disturb
<1>5. /\ run[r].pc # "idle" /\ pc \in RunPCs /\ pc # "idle"
      /\ pc \in Unpaid => run[r].pc \in Unpaid
  BY <1>1, <1>2 DEF Unpaid, RunPCs
<1> QED
  BY <1>2, <1>3, <1>4, <1>5, RefusedFits

\* The provider is paid, for the job that the run holds or for the run alone.
LEMMA PayingFits ==
    ASSUME IInv, AllFit, NEW r \in Run, run[r].pc = "provider",
           NEW pc \in {"save", "fail"}, Moves(r, pc),
           owed' = [owed EXCEPT ![run[r].asset] = @ - 1],
           UNCHANGED <<asset, job, disturbed>>
    PROVE  AllFit'
<1>1. PICK a \in Asset : a = run[r].asset
  BY DEF IInv, RunsOK, RunOK
<1>2. PICK k \in Key : k = run[r].key
  BY DEF IInv, RunsOK, RunOK
<1>3. /\ TypeOK /\ pc \in RunPCs /\ pc # "idle" /\ pc # "threw" /\ pc \in Working
      /\ run[r].pc # "idle" /\ run[r].pc \in Working /\ run[r].pc \in Unpaid
      /\ pc \notin Starting /\ pc \notin Unpaid
      /\ pc \notin {"marking", "completing", "failing"}
  BY DEF IInv, RunPCs, Working, Starting, Unpaid
<1>4. owed'[a] = owed[a] - 1 /\ \A b \in Asset \ {a} : owed'[b] = owed[b]
  BY <1>1, <1>3 DEF TypeOK
<1>5. JobsFit(a)'
  BY <1>1, <1>3, JobsFitMoving DEF AllFit, Fits
<1>6. Calm(a) => Calm(a)'
  BY <1>1, <1>3, CalmMoving
<1>7. Payers(a)' \subseteq Payers(a) /\ (Strays(a)' => Strays(a))
  BY <1>3, PayersMoving
<1>8. /\ \A s \in Run : On(s, a)' <=> On(s, a)
      /\ \A s \in Run, l \in Key : Holds(s, a, l)' <=> Holds(s, a, l)
      /\ \A s \in Run : run'[s].holds <=> run[s].holds
      /\ \A s \in Run \ {r} : run'[s] = run[s]
      /\ run'[r].pc = pc
  BY <1>3, SameRuns
<1>9. ASSUME run[r].holds PROVE Covered(a)'
  <2>1. Holds(r, a, k)
    BY <1>1, <1>2, <1>3, <1>9 DEF Holds, On
  <2>2. job[a][k] = "active" /\ \A s \in Run : Holds(s, a, k) => s = r
    BY <2>1 DEF AllFit, Fits, JobsFit
  <2>3. k \in Payers(a)
    BY <1>3, <2>2 DEF Payers, MayPay
  <2>4. ~MayPay(a, k)'
    BY <1>3, <1>8, <2>1, <2>2 DEF MayPay
  <2>5. k \notin Payers(a)'
    BY <2>4 DEF Payers
  <2>6. Covered(a)'
    BY <1>3, <1>4, <1>7, <2>3, <2>5, CoverPaid DEF AllFit, Fits
  <2> QED
    BY <2>6
<1>10. ASSUME ~run[r].holds PROVE Covered(a)'
  <2>1. On(r, a)
    BY <1>1, <1>3 DEF On
  <2>2. Strays(a)
    BY <1>3, <1>10, <2>1 DEF Strays
  <2>3. \A s \in Run : On(s, a) /\ ~run[s].holds => s = r
    BY <1>10, <2>1 DEF AllFit, Fits, JobsFit
  <2>4. ~Strays(a)'
    BY <1>3, <1>8, <2>3 DEF Strays
  <2> QED
    BY <1>3, <1>4, <1>7, <2>2, <2>4, CoverPaid DEF AllFit, Fits
<1>11. Fits(a)'
  BY <1>5, <1>6, <1>9, <1>10 DEF AllFit, Fits
<1>12. Apart(a)
  BY <1>4 DEF Apart
<1> QED
  BY <1>1, <1>3, <1>11, <1>12, MovesApart, ActingOn

LEMMA ProvideFits == ASSUME IInv, AllFit, NEW r \in Run, NEW o \in Object, Provide(r, o) PROVE AllFit'
<1>1. /\ run[r].pc = "provider" /\ owed' = [owed EXCEPT ![run[r].asset] = @ - 1]
      /\ UNCHANGED <<asset, job, disturbed>> /\ TypeOK
  BY DEF Provide, IInv
<1>2. run[r] \in Execution
  BY <1>1 DEF TypeOK
<1>3. PICK x : x = [run[r] EXCEPT !.pc = "save", !.object = o]
  OBVIOUS
<1>4. /\ x \in Execution /\ x.pc = "save" /\ x.asset = run[r].asset /\ x.key = run[r].key
      /\ x.holds = run[r].holds
  BY <1>2, <1>3 DEF Execution, Working
<1>5. run' = [run EXCEPT ![r] = x]
  BY <1>1, <1>3 DEF Provide, TypeOK
<1>6. run'[r] = x /\ \A s \in Run \ {r} : run'[s] = run[s]
  BY <1>1, <1>4, <1>5, RunTyped
<1>7. Moves(r, "save")
  BY <1>4, <1>6 DEF Moves
<1> QED
  BY <1>1, <1>7, PayingFits

LEMMA ProviderFailsFits == ASSUME IInv, AllFit, NEW r \in Run, ProviderFails(r) PROVE AllFit'
<1>1. /\ run[r].pc = "provider" /\ owed' = [owed EXCEPT ![run[r].asset] = @ - 1]
      /\ UNCHANGED <<asset, job, disturbed>> /\ TypeOK /\ RunGoes(r, "fail")
  BY DEF ProviderFails, IInv
<1>2. Moves(r, "fail")
  BY <1>1, GoingMoves DEF RunPCs, Working
<1> QED
  BY <1>1, <1>2, PayingFits

-------------------------------------------------------------------------------
(* A run saves the asset it has read                                           *)

LEMMA SavedIs ==
    ASSUME IInv, NEW r \in Run, run[r].pc \in {"marking", "completing", "failing"},
           NEW to \in Status, SavesAs(r, to), NEW a \in Asset, a = run[r].asset
    PROVE  /\ asset'[a].status = to /\ asset'[a].retries = run[r].seen.retries
           /\ \A b \in Asset \ {a} : asset'[b] = asset[b]
<1>1. run[r].seen \in AssetRow /\ asset \in [Asset -> AssetRow]
  BY DEF IInv, RunsOK, RunOK, TypeOK
<1>2. PICK x : x = [run[r].seen EXCEPT !.status = to]
  OBVIOUS
<1>3. x.status = to /\ x.retries = run[r].seen.retries
  BY <1>1, <1>2 DEF AssetRow
<1>4. asset' = [asset EXCEPT ![a] = x]
  BY <1>2 DEF SavesAs
<1> QED
  BY <1>1, <1>3, <1>4

LEMMA SavingFits ==
    ASSUME IInv, AllFit, NEW r \in Run, NEW a \in Asset, run[r].asset = a, run[r].pc # "idle",
           NEW pc \in RunPCs, pc # "idle", Moves(r, pc), pc \in Unpaid => run[r].pc \in Unpaid,
           \A b \in Asset \ {a} : asset'[b] = asset[b],
           UNCHANGED <<job, owed, disturbed>>,
           a \notin disturbed => Calm(a)'
    PROVE  AllFit'
<1>0. TypeOK
  BY DEF IInv
<1>1. JobsFit(a)'
  BY JobsFitMoving DEF AllFit, Fits
<1>2. Payers(a)' \subseteq Payers(a) /\ (Strays(a)' => Strays(a))
  BY PayersMoving
<1>3. Covered(a)'
  BY <1>0, <1>2, CoverShrinks DEF AllFit, Fits
<1>4. Fits(a)'
  BY <1>1, <1>3 DEF Fits
<1>5. Apart(a)
  BY DEF Apart
<1> QED
  BY <1>4, <1>5, MovesApart, ActingOn

\* A run of an asset at peace holds a job of it.
LEMMA CalmHolds ==
    ASSUME IInv, NEW a \in Asset, Fits(a), a \notin disturbed, NEW s \in Run, On(s, a)
    PROVE  \E k \in Key : Holds(s, a, k)
<1>1. run[s].holds /\ run[s].key \in Key
  BY DEF Fits, JobsFit, On, IInv, RunsOK, RunOK
<1> QED
  BY <1>1 DEF Holds

\* The run that takes an asset from queued to processing is the only one there.
LEMMA MarkSaveCalm ==
    ASSUME IInv, NEW a \in Asset, Fits(a), a \notin disturbed, NEW r \in Run,
           run[r].asset = a, run[r].pc = "marking", Moves(r, "reuse"),
           asset'[a].status = "processing", UNCHANGED job
    PROVE  Calm(a)'
<1>0. Calm(a) /\ On(r, a) /\ run[r].pc \in Starting /\ "reuse" \in Working
      /\ "reuse" \in RunPCs /\ "reuse" \notin Starting
  BY DEF Fits, On, Starting, Working, RunPCs
<1>1. PICK k \in Key : Holds(r, a, k)
  BY <1>0, CalmHolds
<1>2. job[a][k] = "active" /\ Waits(a, k) /\ asset[a].status = "queued"
  BY <1>0, <1>1 DEF Fits, JobsFit, Waits, Calm
<1>3. \A s \in Run : On(s, a) => run[s].pc \notin Working
  BY <1>0, <1>2 DEF Calm
<1>4. \A s \in Run, l \in Key : Holds(s, a, l) /\ run[s].pc \in Starting => s = r
  <2> SUFFICES ASSUME NEW s \in Run, NEW l \in Key, Holds(s, a, l), run[s].pc \in Starting
               PROVE  s = r
    OBVIOUS
  <2>1. Waits(a, l)
    BY DEF Waits
  <2>2. l = k
    BY <1>0, <1>2, <2>1 DEF Calm
  <2> QED
    BY <1>1, <2>2 DEF Fits, JobsFit
<1>5. \A l \in Key : job[a][l] # "queued"
  <2> SUFFICES ASSUME NEW l \in Key, job[a][l] = "queued" PROVE FALSE
    OBVIOUS
  <2>1. Waits(a, l)
    BY DEF Waits
  <2> QED
    BY <1>0, <1>2, <2>1 DEF Calm
<1>6. \A s \in Run : On(s, a) /\ run[s].pc \in Starting => s = r
  BY <1>4, CalmHolds
<1>7. /\ \A s \in Run : On(s, a)' <=> On(s, a)
      /\ \A s \in Run, l \in Key : Holds(s, a, l)' <=> Holds(s, a, l)
      /\ \A s \in Run \ {r} : run'[s] = run[s]
      /\ run'[r].pc = "reuse"
  BY <1>0, SameRuns DEF On
<1>8. \A l \in Key : ~Waits(a, l)'
  BY <1>0, <1>4, <1>5, <1>7 DEF Waits
<1>9. \A l \in Key : job'[a][l] = "active" => \E s \in Run : Holds(s, a, l)'
  BY <1>0, <1>7 DEF Calm
<1>10. \A s \in Run : On(s, a)' /\ run'[s].pc \in Working => s = r
  BY <1>3, <1>7
<1>11. On(r, a)' /\ run'[r].pc \in Working
  BY <1>0, <1>7
<1>12. \A s \in Run \ {r} : On(s, a) =>
         run[s].pc # "threw" /\ run[s].pc \notin {"marking", "completing", "failing"}
  BY <1>0, <1>3, <1>6 DEF Calm, Starting, Working
<1>13. \A s \in Run : On(s, a)' =>
         run'[s].pc # "threw" /\ run'[s].pc \notin {"marking", "completing", "failing"}
  BY <1>7, <1>12
<1> QED
  BY <1>8, <1>9, <1>10, <1>11, <1>13 DEF Calm

\* The run that ends the processing of an asset was the only one at work.
LEMMA EndSaveCalm ==
    ASSUME IInv, NEW a \in Asset, Fits(a), a \notin disturbed, NEW r \in Run,
           run[r].asset = a, run[r].pc \in {"completing", "failing"},
           NEW pc \in {"succeeded", "gaveUp"}, Moves(r, pc),
           asset'[a].status \notin {"queued", "processing"}, UNCHANGED job
    PROVE  Calm(a)'
<1>0. /\ Calm(a) /\ On(r, a) /\ run[r].pc \in Working /\ pc \notin Working
      /\ pc \in RunPCs /\ pc # "idle" /\ pc \notin Starting /\ run[r].pc # "idle"
  BY DEF Fits, On, Starting, Working, RunPCs
<1>1. asset[a].status = "processing"
  BY <1>0 DEF Calm
<1>2. \A l \in Key : ~Waits(a, l)
  BY <1>0, <1>1 DEF Calm
<1>3. \A s \in Run : On(s, a) => run[s].pc \notin Starting
  BY <1>2, CalmHolds DEF Waits
<1>4. /\ \A s \in Run : On(s, a)' <=> On(s, a)
      /\ \A s \in Run, l \in Key : Holds(s, a, l)' <=> Holds(s, a, l)
      /\ \A s \in Run \ {r} : run'[s] = run[s]
      /\ run'[r].pc = pc
  BY <1>0, SameRuns
<1>5. \A l \in Key : ~Waits(a, l)'
  BY <1>0, <1>2, <1>4 DEF Waits
<1>6. \A l \in Key : job'[a][l] = "active" => \E s \in Run : Holds(s, a, l)'
  BY <1>0, <1>4 DEF Calm
<1>7. \A s \in Run : On(s, a)' => run'[s].pc \notin Working
  BY <1>0, <1>4 DEF Calm
<1>8. \A s \in Run \ {r} : On(s, a) =>
         run[s].pc # "threw" /\ run[s].pc \notin {"marking", "completing", "failing"}
  BY <1>0, <1>3 DEF Calm, Starting, Working
<1>9. \A s \in Run : On(s, a)' =>
         run'[s].pc # "threw" /\ run'[s].pc \notin {"marking", "completing", "failing"}
  BY <1>4, <1>8
<1> QED
  BY <1>5, <1>6, <1>7, <1>9 DEF Calm

LEMMA SavesFit ==
    ASSUME IInv, AllFit, NEW r \in Run, MarkSave(r) \/ DoneSave(r) \/ FailSave(r) PROVE AllFit'
<1>0. run[r].pc \in {"marking", "completing", "failing"} /\ TypeOK
  BY DEF MarkSave, DoneSave, FailSave, IInv
<1>1. PICK a \in Asset : a = run[r].asset
  BY <1>0 DEF IInv, RunsOK, RunOK
<1>2. /\ {"processing", "completed", "failed"} \subseteq Status
      /\ {"reuse", "succeeded", "gaveUp"} \subseteq RunPCs
      /\ "succeeded" \notin Unpaid /\ "gaveUp" \notin Unpaid
  BY StatusSet DEF RunPCs, Working, Unpaid
<1>3. CASE MarkSave(r)
  <2>1. /\ run[r].pc = "marking" /\ SavesAs(r, "processing") /\ RunGoes(r, "reuse")
        /\ UNCHANGED <<job, owed, disturbed>>
    BY <1>3 DEF MarkSave
  <2>2. Moves(r, "reuse") /\ run[r].pc \in Unpaid
    BY <1>0, <1>2, <2>1, GoingMoves DEF Unpaid
  <2>3. asset'[a].status = "processing" /\ \A b \in Asset \ {a} : asset'[b] = asset[b]
    BY <1>0, <1>1, <1>2, <2>1, SavedIs
  <2>4. a \notin disturbed => Calm(a)'
    BY <1>1, <2>1, <2>2, <2>3, MarkSaveCalm DEF AllFit
  <2> QED
    BY <1>1, <1>2, <2>1, <2>2, <2>3, <2>4, SavingFits
<1>4. CASE DoneSave(r)
  <2>1. /\ run[r].pc = "completing" /\ SavesAs(r, "completed") /\ RunGoes(r, "succeeded")
        /\ UNCHANGED <<job, owed, disturbed>>
    BY <1>4 DEF DoneSave
  <2>2. Moves(r, "succeeded")
    BY <1>0, <1>2, <2>1, GoingMoves
  <2>3. asset'[a].status = "completed" /\ \A b \in Asset \ {a} : asset'[b] = asset[b]
    BY <1>0, <1>1, <1>2, <2>1, SavedIs
  <2>4. a \notin disturbed => Calm(a)'
    BY <1>1, <2>1, <2>2, <2>3, EndSaveCalm DEF AllFit
  <2> QED
    BY <1>1, <1>2, <2>1, <2>2, <2>3, <2>4, SavingFits
<1>5. CASE FailSave(r)
  <2>1. /\ run[r].pc = "failing" /\ SavesAs(r, "failed") /\ RunGoes(r, "gaveUp")
        /\ UNCHANGED <<job, owed, disturbed>>
    BY <1>5 DEF FailSave
  <2>2. Moves(r, "gaveUp")
    BY <1>0, <1>2, <2>1, GoingMoves
  <2>3. asset'[a].status = "failed" /\ \A b \in Asset \ {a} : asset'[b] = asset[b]
    BY <1>0, <1>1, <1>2, <2>1, SavedIs
  <2>4. a \notin disturbed => Calm(a)'
    BY <1>1, <2>1, <2>2, <2>3, EndSaveCalm DEF AllFit
  <2> QED
    BY <1>1, <1>2, <2>1, <2>2, <2>3, <2>4, SavingFits
<1> QED
  BY <1>3, <1>4, <1>5

-------------------------------------------------------------------------------
(* A job changes while no run has it                                           *)

Rebooked(a, k, s) ==
    /\ job'[a][k] = s
    /\ \A l \in Key \ {k} : job'[a][l] = job[a][l]
    /\ \A b \in Asset \ {a} : job'[b] = job[b]

LEMMA JobRebooked ==
    ASSUME TypeOK, NEW a \in Asset, NEW k \in Key, NEW s,
           job' = [job EXCEPT ![a] = [@ EXCEPT ![k] = s]]
    PROVE  Rebooked(a, k, s)
BY DEF TypeOK, Rebooked

LEMMA RunsStay ==
    ASSUME UNCHANGED run
    PROVE  /\ \A s \in Run, b \in Asset : On(s, b)' <=> On(s, b)
           /\ \A s \in Run, b \in Asset, k \in Key : Holds(s, b, k)' <=> Holds(s, b, k)
           /\ \A s \in Run : run'[s] = run[s]
           /\ \A b \in Asset : Strays(b)' <=> Strays(b)
BY DEF On, Holds, Strays

LEMMA JobsFitRebooked ==
    ASSUME NEW a \in Asset, JobsFit(a), NEW k \in Key, NEW s, Rebooked(a, k, s), UNCHANGED run,
           \A r \in Run : ~Holds(r, a, k), a \in disturbed => a \in disturbed'
    PROVE  JobsFit(a)'
<1>1. /\ \A r \in Run : On(r, a)' <=> On(r, a)
      /\ \A r \in Run, l \in Key : Holds(r, a, l)' <=> Holds(r, a, l)
      /\ \A r \in Run : run'[r] = run[r]
  BY RunsStay
<1>2. \A r \in Run, l \in Key : Holds(r, a, l) => l # k /\ job'[a][l] = job[a][l]
  BY DEF Rebooked
<1> QED
  BY <1>1, <1>2 DEF JobsFit

LEMMA PayersRebooked ==
    ASSUME NEW a \in Asset, NEW k \in Key, NEW s, Rebooked(a, k, s), UNCHANGED run
    PROVE  /\ Payers(a)' \subseteq Payers(a) \cup {k}
           /\ s \notin {"queued", "active"} => k \notin Payers(a)'
           /\ Strays(a)' => Strays(a)
<1>1. /\ \A r \in Run, l \in Key : Holds(r, a, l)' <=> Holds(r, a, l)
      /\ \A r \in Run : run'[r] = run[r]
      /\ Strays(a)' <=> Strays(a)
  BY RunsStay
<1>2. \A l \in Key \ {k} : MayPay(a, l)' => MayPay(a, l)
  BY <1>1 DEF MayPay, Rebooked
<1>3. s \notin {"queued", "active"} => ~MayPay(a, k)'
  BY DEF MayPay, Rebooked
<1> QED
  BY <1>1, <1>2, <1>3 DEF Payers

LEMMA RunsApart ==
    ASSUME UNCHANGED run, NEW a \in Asset
    PROVE  \A s \in Run, b \in Asset \ {a} : run'[s] = run[s] \/ (~On(s, b) /\ ~On(s, b)')
OBVIOUS

LEMMA CancelFits ==
    ASSUME IInv, AllFit, NEW a \in Asset, NEW k \in Key, CancelJob(a, k) PROVE AllFit'
<1>1. /\ job[a][k] = "queued" /\ Rebooked(a, k, "cancelled") /\ TypeOK
      /\ UNCHANGED <<asset, run, owed, disturbed>>
  BY JobRebooked DEF CancelJob, IInv
<1>2. \A r \in Run : ~Holds(r, a, k)
  BY <1>1 DEF AllFit, Fits, JobsFit
<1>3. JobsFit(a)'
  BY <1>1, <1>2, JobsFitRebooked DEF AllFit, Fits
<1>4. Payers(a)' \subseteq Payers(a) /\ (Strays(a)' => Strays(a))
  BY <1>1, PayersRebooked
<1>5. Covered(a)'
  BY <1>1, <1>4, CoverShrinks DEF AllFit, Fits
<1>6. ASSUME Calm(a) PROVE Calm(a)'
  <2>1. /\ \A r \in Run : On(r, a)' <=> On(r, a)
        /\ \A r \in Run, l \in Key : Holds(r, a, l)' <=> Holds(r, a, l)
        /\ \A r \in Run : run'[r] = run[r]
    BY <1>1, RunsStay
  <2>2. \A l \in Key : /\ job'[a][l] = "active" => job[a][l] = "active"
                       /\ job'[a][l] = "queued" => job[a][l] = "queued"
    BY <1>1 DEF Rebooked
  <2>3. \A l \in Key : Waits(a, l)' => Waits(a, l)
    BY <2>1, <2>2 DEF Waits
  <2> QED
    BY <1>1, <1>6, <2>1, <2>2, <2>3 DEF Calm
<1>7. Fits(a)'
  BY <1>1, <1>3, <1>5, <1>6 DEF AllFit, Fits
<1>8. Apart(a)
  BY <1>1 DEF Apart, Rebooked
<1> QED
  BY <1>1, <1>7, <1>8, RunsApart, ActingOn

\* Only a fault leaves an active job behind.
LEMMA ReclaimFits ==
    ASSUME IInv, AllFit, NEW a \in Asset, NEW k \in Key, Reclaim(a, k) PROVE AllFit'
<1>1. PICK s \in {"queued", "failed"} : job' = [job EXCEPT ![a] = [@ EXCEPT ![k] = s]]
  BY DEF Reclaim
<1>2. /\ job[a][k] = "active" /\ ~Held(a, k) /\ Rebooked(a, k, s) /\ TypeOK
      /\ UNCHANGED <<asset, run, owed, disturbed>>
  BY <1>1, JobRebooked DEF Reclaim, IInv
<1>3. \A r \in Run : ~Holds(r, a, k)
  BY <1>2 DEF Held, Holds, On
<1>4. a \in disturbed
  BY <1>2, <1>3 DEF AllFit, Fits, Calm
<1>5. JobsFit(a)'
  BY <1>2, <1>3, JobsFitRebooked DEF AllFit, Fits
<1>6. k \in Payers(a)
  BY <1>2, <1>3 DEF Payers, MayPay
<1>7. Payers(a)' \subseteq Payers(a) /\ (Strays(a)' => Strays(a))
  BY <1>2, <1>6, PayersRebooked
<1>8. Covered(a)'
  BY <1>2, <1>7, CoverShrinks DEF AllFit, Fits
<1>9. Fits(a)'
  BY <1>2, <1>4, <1>5, <1>8 DEF AllFit, Fits
<1>10. Apart(a)
  BY <1>2 DEF Apart, Rebooked
<1> QED
  BY <1>2, <1>9, <1>10, RunsApart, ActingOn

LEMMA RetryJobFits ==
    ASSUME IInv, AllFit, NEW a \in Asset, NEW k \in Key, RetryJob(a, k) PROVE AllFit'
<1>1. /\ job[a][k] = "failed" /\ Rebooked(a, k, "queued") /\ TypeOK
      /\ UNCHANGED <<asset, run, owed>> /\ Disturb(a)
  BY JobRebooked DEF RetryJob, IInv
<1>2. a \notin disturbed /\ disturbed' = disturbed \cup {a}
  BY <1>1 DEF Disturb
<1>3. \A r \in Run : ~Holds(r, a, k)
  BY <1>1 DEF AllFit, Fits, JobsFit
<1>4. JobsFit(a)'
  BY <1>1, <1>2, <1>3, JobsFitRebooked DEF AllFit, Fits
<1>5. Payers(a)' \subseteq Payers(a) \cup {k} /\ (Strays(a)' => Strays(a))
  BY <1>1, PayersRebooked
<1>6. Covered(a)'
  BY <1>1, <1>2, <1>5, CoverFault DEF AllFit, Fits
<1>7. Fits(a)'
  BY <1>2, <1>4, <1>6 DEF Fits
<1>8. Apart(a)
  BY <1>1, <1>2 DEF Apart, Rebooked
<1> QED
  BY <1>1, <1>7, <1>8, RunsApart, ActingOn

-------------------------------------------------------------------------------
(* An asset is queued                                                          *)

\* An asset at rest becomes queued, whoever asked for it; its job waits, or is
\* with a run, or is done with.
LEMMA QueuedFits ==
    ASSUME IInv, AllFit, NEW a \in Asset, NEW k \in Key, job' = Enqueued(a, k),
           asset[a].status \notin {"queued", "processing"}, asset'[a].status = "queued",
           \A b \in Asset \ {a} : asset'[b] = asset[b],
           owed' = [owed EXCEPT ![a] = @ + 1], UNCHANGED <<run, disturbed>>
    PROVE  AllFit'
<1>0. TypeOK
  BY DEF IInv
<1>1. owed'[a] = owed[a] + 1 /\ \A b \in Asset \ {a} : owed'[b] = owed[b]
  BY <1>0 DEF TypeOK
<1>2. \/ UNCHANGED job
      \/ Rebooked(a, k, "queued") /\ job[a][k] \notin {"queued", "active", "completed"}
  BY <1>0, JobRebooked DEF Enqueued
<1>3. /\ \A r \in Run : On(r, a)' <=> On(r, a)
      /\ \A r \in Run, l \in Key : Holds(r, a, l)' <=> Holds(r, a, l)
      /\ \A r \in Run : run'[r] = run[r]
      /\ Strays(a)' <=> Strays(a)
  BY RunsStay
<1>4. JobsFit(a)'
  <2>1. CASE UNCHANGED job
    BY <1>3, <2>1 DEF AllFit, Fits, JobsFit
  <2>2. CASE Rebooked(a, k, "queued") /\ job[a][k] \notin {"queued", "active", "completed"}
    <3>1. \A r \in Run : ~Holds(r, a, k)
      BY <2>2 DEF AllFit, Fits, JobsFit
    <3> QED
      BY <2>2, <3>1, JobsFitRebooked DEF AllFit, Fits
  <2> QED
    BY <1>2, <2>1, <2>2
<1>5. Payers(a)' \subseteq Payers(a) \cup {k}
  <2>1. CASE UNCHANGED job
    <3>1. \A l \in Key : MayPay(a, l)' => MayPay(a, l)
      BY <1>3, <2>1 DEF MayPay
    <3> QED
      BY <3>1 DEF Payers
  <2>2. CASE Rebooked(a, k, "queued")
    BY <2>2, PayersRebooked
  <2> QED
    BY <1>2, <2>1, <2>2
<1>6. Covered(a)'
  BY <1>0, <1>1, <1>3, <1>5, CoverQueued DEF AllFit, Fits
<1>7. ASSUME a \notin disturbed PROVE Calm(a)'
  <2>0. Calm(a) /\ Fits(a)
    BY <1>7 DEF AllFit, Fits
  <2>1. \A l \in Key : ~Waits(a, l)
    BY <2>0 DEF Calm
  <2>2. \A r \in Run : On(r, a) => run[r].pc \notin Working
    BY <2>0 DEF Calm
  <2>3. \A r \in Run : On(r, a) => run[r].pc \notin Starting
    BY <1>7, <2>0, <2>1, CalmHolds DEF Waits
  <2>4. \A l \in Key : /\ job'[a][l] = "active" => job[a][l] = "active"
                       /\ job'[a][l] = "queued" => job[a][l] = "queued" \/ l = k
    BY <1>2 DEF Rebooked
  <2>5. \A r \in Run, l \in Key : Holds(r, a, l) => run[r].pc \notin Starting
    BY <2>3 DEF Holds
  <2>6. \A l \in Key : Waits(a, l)' => l = k
    BY <1>3, <2>1, <2>4, <2>5 DEF Waits
  <2>7. \A r \in Run : On(r, a) =>
          run[r].pc # "threw" /\ run[r].pc \notin {"marking", "completing", "failing"}
    BY <2>0, <2>2, <2>3 DEF Calm, Starting, Working
  <2> QED
    BY <1>3, <2>0, <2>2, <2>4, <2>6, <2>7 DEF Calm
<1>8. Fits(a)'
  BY <1>4, <1>6, <1>7 DEF Fits
<1>9. Apart(a)
  BY <1>0, <1>1, <1>2 DEF Apart, Rebooked
<1> QED
  BY <1>8, <1>9, RunsApart, ActingOn

\* What Queue does to the row of the asset, and which key it enqueues.
LEMMA QueueMoves ==
    ASSUME IInv, NEW a \in Asset, NEW increment \in BOOLEAN, Queue(a, increment)
    PROVE  /\ asset[a].status \in Reprocessable
           /\ asset'[a].status = "queued" /\ asset'[a].retries >= asset[a].retries
           /\ \A b \in Asset \ {a} : asset'[b] = asset[b]
           /\ \E k \in Key : job' = Enqueued(a, k)
           /\ owed' = [owed EXCEPT ![a] = @ + 1]
<1>1. PICK n : n = asset[a].retries + (IF increment THEN 1 ELSE 0)
  OBVIOUS
<1>2. /\ asset[a].status \in Reprocessable /\ (increment => n <= MaxRetry)
      /\ asset' = [asset EXCEPT ![a] = [@ EXCEPT !.status = "queued", !.retries = n]]
      /\ job' = Enqueued(a, Plain(n)) /\ owed' = [owed EXCEPT ![a] = @ + 1]
  BY <1>1 DEF Queue
<1>3. asset \in [Asset -> AssetRow] /\ asset[a].retries \in 0 .. MaxRetry /\ MaxRetry \in Nat
  BY MediaAssumption DEF IInv, TypeOK, AssetRow
<1>4. n \in 0 .. MaxRetry /\ n >= asset[a].retries
  BY <1>1, <1>2, <1>3
<1>5. PICK x : x = [asset[a] EXCEPT !.status = "queued", !.retries = n]
  OBVIOUS
<1>6. x.status = "queued" /\ x.retries = n
  BY <1>3, <1>5 DEF AssetRow
<1>7. asset' = [asset EXCEPT ![a] = x]
  BY <1>2, <1>3, <1>5
<1>8. asset'[a] = x /\ \A b \in Asset \ {a} : asset'[b] = asset[b]
  BY <1>3, <1>7
<1>9. Plain(n) \in Key
  BY <1>4 DEF Key
<1> QED
  BY <1>2, <1>4, <1>6, <1>8, <1>9

LEMMA QueueFits ==
    ASSUME IInv, AllFit, NEW a \in Asset, NEW increment \in BOOLEAN, Queue(a, increment),
           UNCHANGED <<run, disturbed>>
    PROVE  AllFit'
<1>1. asset[a].status \notin {"queued", "processing"}
  BY QueueMoves DEF Reprocessable
<1>2. PICK k \in Key : job' = Enqueued(a, k)
  BY QueueMoves
<1> QED
  BY <1>1, <1>2, QueueMoves, QueuedFits

LEMMA RegenerateMoves ==
    ASSUME IInv, NEW a \in Asset, Regenerate(a)
    PROVE  /\ asset[a].status \notin {"none", "queued", "processing"}
           /\ asset'[a].status = "queued" /\ asset'[a].retries = asset[a].retries
           /\ \A b \in Asset \ {a} : asset'[b] = asset[b]
           /\ \E k \in Key : job' = Enqueued(a, k)
           /\ owed' = [owed EXCEPT ![a] = @ + 1]
           /\ UNCHANGED <<run, disturbed>>
<1>1. asset \in [Asset -> AssetRow]
  BY DEF IInv, TypeOK
<1>2. PICK x : x = [asset[a] EXCEPT !.status = "queued"]
  OBVIOUS
<1>3. x.status = "queued" /\ x.retries = asset[a].retries
  BY <1>1, <1>2 DEF AssetRow
<1>4. asset' = [asset EXCEPT ![a] = x]
  BY <1>1, <1>2 DEF Regenerate
<1>5. asset'[a] = x /\ \A b \in Asset \ {a} : asset'[b] = asset[b]
  BY <1>1, <1>4
<1>6. \A n \in 1 .. MaxRegen : Regen(n) \in Key
  BY DEF Key
<1> QED
  BY <1>3, <1>5, <1>6 DEF Regenerate

LEMMA RegenerateFits == ASSUME IInv, AllFit, NEW a \in Asset, Regenerate(a) PROVE AllFit'
<1>1. PICK k \in Key : job' = Enqueued(a, k)
  BY RegenerateMoves
<1> QED
  BY <1>1, RegenerateMoves, QueuedFits

-------------------------------------------------------------------------------
(* An asset moves between states of rest                                       *)

LEMMA RestingFits ==
    ASSUME IInv, AllFit, NEW a \in Asset, \A b \in Asset \ {a} : asset'[b] = asset[b],
           asset[a].status \notin {"queued", "processing"},
           asset'[a].status \notin {"queued", "processing"},
           UNCHANGED <<job, run, owed, disturbed>>
    PROVE  AllFit'
<1>1. /\ \A r \in Run : On(r, a)' <=> On(r, a)
      /\ \A r \in Run, l \in Key : Holds(r, a, l)' <=> Holds(r, a, l)
      /\ \A r \in Run : run'[r] = run[r]
      /\ Strays(a)' <=> Strays(a)
  BY RunsStay
<1>2. JobsFit(a)'
  BY <1>1 DEF AllFit, Fits, JobsFit
<1>3. \A l \in Key : MayPay(a, l)' <=> MayPay(a, l)
  BY <1>1 DEF MayPay
<1>4. Payers(a)' = Payers(a)
  BY <1>3 DEF Payers
<1>5. TypeOK
  BY DEF IInv
<1>6. Covered(a)'
  BY <1>1, <1>4, <1>5, CoverShrinks DEF AllFit, Fits
<1>7. ASSUME a \notin disturbed PROVE Calm(a)'
  <2>0. Calm(a) /\ Fits(a)
    BY <1>7 DEF AllFit, Fits
  <2>1. \A l \in Key : ~Waits(a, l)
    BY <2>0 DEF Calm
  <2>2. \A l \in Key : ~Waits(a, l)'
    BY <1>1, <2>1 DEF Waits
  <2>3. \A r \in Run : On(r, a) => run[r].pc \notin Working
    BY <2>0 DEF Calm
  <2>4. \A r \in Run : On(r, a) => run[r].pc \notin Starting
    BY <1>7, <2>0, <2>1, CalmHolds DEF Waits
  <2>5. \A r \in Run : On(r, a) =>
          run[r].pc # "threw" /\ run[r].pc \notin {"marking", "completing", "failing"}
    BY <2>0, <2>3, <2>4 DEF Calm, Starting, Working
  <2> QED
    BY <1>1, <2>0, <2>2, <2>3, <2>5 DEF Calm
<1>8. Fits(a)'
  BY <1>2, <1>6, <1>7 DEF Fits
<1>9. Apart(a)
  BY DEF Apart
<1> QED
  BY <1>8, <1>9, RunsApart, ActingOn

LEMMA RegisterFits ==
    ASSUME IInv, AllFit, NEW a \in Asset, NEW c \in Content, Register(a, c) PROVE AllFit'
<1>1. PICK x : x = [status |-> "uploaded", retries |-> 0, content |-> c]
  OBVIOUS
<1>2. asset' = [asset EXCEPT ![a] = x] /\ asset \in [Asset -> AssetRow]
  BY <1>1 DEF Register, IInv, TypeOK
<1>3. asset'[a].status = "uploaded" /\ \A b \in Asset \ {a} : asset'[b] = asset[b]
  BY <1>1, <1>2
<1>4. asset[a].status = "none" /\ UNCHANGED <<job, run, owed, disturbed>>
  BY DEF Register
<1> QED
  BY <1>3, <1>4, RestingFits

LEMMA RecoverMoves ==
    ASSUME IInv, NEW q \in Request, Recover(q), NEW a \in Asset, a = request[q].asset
    PROVE  /\ \A b \in Asset \ {a} : asset'[b] = asset[b]
           /\ \/ asset'[a] = asset[a]
              \/ /\ asset[a].status = "completed" /\ asset'[a].status = "retry_required"
                 /\ asset'[a].retries = asset[a].retries
           /\ UNCHANGED <<job, run, owed, disturbed>>
<1>1. asset \in [Asset -> AssetRow]
  BY DEF IInv, TypeOK
<1>2. PICK x : x = [asset[a] EXCEPT !.status = "retry_required"]
  OBVIOUS
<1>3. x.status = "retry_required" /\ x.retries = asset[a].retries
  BY <1>1, <1>2 DEF AssetRow
<1>4. \/ asset[a].status = "completed" /\ asset' = [asset EXCEPT ![a] = x]
      \/ asset' = asset
  BY <1>1, <1>2 DEF Recover
<1>5. UNCHANGED <<job, run, owed, disturbed>>
  BY DEF Recover
<1> QED
  BY <1>1, <1>3, <1>4, <1>5

LEMMA RecoverFits == ASSUME IInv, AllFit, NEW q \in Request, Recover(q) PROVE AllFit'
<1>1. PICK a \in Asset : a = request[q].asset
  BY DEF Recover, IInv, RequestsOK, RequestOK
<1>2. \A b \in Asset \ {a} : asset'[b] = asset[b]
  BY <1>1, RecoverMoves
<1>3. UNCHANGED <<job, run, owed, disturbed>>
  BY DEF Recover
<1>4. CASE asset'[a] = asset[a]
  <2>1. \A b \in Asset : Elsewhere(b)
    BY <1>2, <1>3, <1>4 DEF Elsewhere
  <2> QED
    BY <2>1, ElsewhereKeeps DEF AllFit
<1>5. CASE asset[a].status = "completed" /\ asset'[a].status = "retry_required"
  BY <1>2, <1>3, <1>5, RestingFits
<1> QED
  BY <1>1, <1>4, <1>5, RecoverMoves

LEMMA AutoStartFits == ASSUME IInv, AllFit, NEW q \in Request, AutoStart(q) PROVE AllFit'
<1>1. PICK a \in Asset : a = request[q].asset
  BY DEF AutoStart, IInv, RequestsOK, RequestOK
<1>2. PICK increment \in BOOLEAN : increment = (request[q].current # "uploaded")
  OBVIOUS
<1>3. UNCHANGED <<run, disturbed>> /\ (Queue(a, increment) \/ UNCHANGED <<asset, job, owed>>)
  BY <1>1, <1>2 DEF AutoStart
<1> QED
  BY <1>3, QueueFits, NothingMoves

-------------------------------------------------------------------------------
(* A run begins and ends                                                       *)

LEMMA ClaimFits ==
    ASSUME IInv, AllFit, NEW r \in Run, NEW a \in Asset, NEW k \in Key, Claim(r, a, k)
    PROVE  AllFit'
<1>1. /\ job[a][k] = "queued" /\ Rebooked(a, k, "active") /\ TypeOK
      /\ UNCHANGED <<asset, owed, disturbed>> /\ run[r].pc = "idle"
  BY JobRebooked DEF Claim, IInv
<1>2. PICK x : x = [IdleRun EXCEPT !.pc = "load", !.asset = a, !.key = k, !.holds = TRUE]
  OBVIOUS
<1>3. x.pc = "load" /\ x.asset = a /\ x.key = k /\ x.holds
  BY <1>2 DEF IdleRun
<1>4. run' = [run EXCEPT ![r] = x] /\ run \in [Run -> Execution]
  BY <1>1, <1>2 DEF Claim, TypeOK
<1>5. run'[r] = x /\ \A s \in Run \ {r} : run'[s] = run[s]
  BY <1>4
<1>6. /\ \A s \in Run \ {r} : On(s, a)' <=> On(s, a)
      /\ \A s \in Run \ {r}, l \in Key : Holds(s, a, l)' <=> Holds(s, a, l)
      /\ \A l \in Key : Holds(r, a, l)' <=> l = k
      /\ On(r, a)' /\ ~On(r, a) /\ \A l \in Key : ~Holds(r, a, l)
  BY <1>1, <1>3, <1>5 DEF On, Holds
<1>7. \A s \in Run : ~Holds(s, a, k)
  BY <1>1 DEF AllFit, Fits, JobsFit
<1>8. job'[a][k] = "active" /\ \A l \in Key \ {k} : job'[a][l] = job[a][l]
  BY <1>1 DEF Rebooked
<1>9. JobsFit(a)'
  <2>1. \A s \in Run, l \in Key : Holds(s, a, l)' => job'[a][l] = "active"
    BY <1>6, <1>8 DEF AllFit, Fits, JobsFit
  <2>2. \A s, u \in Run, l \in Key : Holds(s, a, l)' /\ Holds(u, a, l)' => s = u
    BY <1>6, <1>7 DEF AllFit, Fits, JobsFit
  <2>3. \A s \in Run : On(s, a)' /\ ~run'[s].holds => s # r /\ On(s, a) /\ ~run[s].holds
    BY <1>3, <1>5, <1>6
  <2> QED
    BY <1>1, <2>1, <2>2, <2>3 DEF AllFit, Fits, JobsFit
<1>10. Payers(a)' \subseteq Payers(a)
  <2>1. MayPay(a, k)
    BY <1>1 DEF MayPay
  <2>2. \A l \in Key \ {k} : MayPay(a, l)' => MayPay(a, l)
    BY <1>5, <1>6, <1>8 DEF MayPay
  <2> QED
    BY <2>1, <2>2 DEF Payers
<1>11. Strays(a)' => Strays(a)
  BY <1>3, <1>5, <1>6 DEF Strays
<1>12. Covered(a)'
  BY <1>1, <1>10, <1>11, CoverShrinks DEF AllFit, Fits
<1>13. ASSUME a \notin disturbed PROVE Calm(a)'
  <2>0. Calm(a) /\ Waits(a, k)
    BY <1>1, <1>13 DEF AllFit, Fits, Waits
  <2>1. \A l \in Key : job'[a][l] = "active" => \E s \in Run : Holds(s, a, l)'
    <3> SUFFICES ASSUME NEW l \in Key, job'[a][l] = "active"
                 PROVE  \E s \in Run : Holds(s, a, l)'
      OBVIOUS
    <3>1. CASE l = k
      BY <1>6, <3>1
    <3>2. CASE l # k
      <4>1. PICK s \in Run : Holds(s, a, l)
        BY <1>8, <2>0, <3>2 DEF Calm
      <4>2. s # r
        BY <1>6, <4>1
      <4> QED
        BY <1>6, <4>1, <4>2
    <3> QED
      BY <3>1, <3>2
  <2>2. \A l \in Key : Waits(a, l)' => Waits(a, l)
    BY <1>5, <1>6, <1>8, <2>0 DEF Waits
  <2>3. "load" \notin Working /\ "load" # "threw"
        /\ "load" \notin {"marking", "completing", "failing"}
    BY DEF Working
  <2>4. \A s \in Run : On(s, a)' =>
          s = r \/ (On(s, a) /\ run'[s] = run[s])
    BY <1>5, <1>6
  <2>5. \A s \in Run : On(s, a)' /\ run'[s].pc \in Working => s # r
    BY <1>3, <1>5, <2>3
  <2>6. /\ \A s \in Run : On(s, a)' /\ run'[s].pc \in Working => asset'[a].status = "processing"
        /\ \A s, u \in Run :
             On(s, a)' /\ On(u, a)' /\ run'[s].pc \in Working /\ run'[u].pc \in Working => s = u
    BY <1>1, <2>0, <2>4, <2>5 DEF Calm
  <2>7. asset'[a].status # "processing"
    BY <1>1, <2>0 DEF Calm
  <2>8. \A s \in Run : On(s, a)' =>
          /\ run'[s].pc # "threw"
          /\ run'[s].pc \in {"marking", "completing", "failing"} => run'[s].seen = asset'[a]
    BY <1>1, <1>3, <1>5, <2>0, <2>3, <2>4 DEF Calm
  <2> QED
    BY <1>1, <2>0, <2>1, <2>2, <2>6, <2>7, <2>8 DEF Calm
<1>14. Fits(a)'
  BY <1>1, <1>9, <1>12, <1>13 DEF Fits
<1>15. Apart(a)
  BY <1>1 DEF Apart, Rebooked
<1>16. \A s \in Run, b \in Asset \ {a} : run'[s] = run[s] \/ (~On(s, b) /\ ~On(s, b)')
  BY <1>1, <1>3, <1>5 DEF On
<1> QED
  BY <1>14, <1>15, <1>16, ActingOn

\* A run is over: it is on no asset any more, and the others are where they were.
LEMMA RunLeaves ==
    ASSUME TypeOK, NEW r \in Run, run' = [run EXCEPT ![r] = IdleRun], NEW a \in Asset
    PROVE  /\ \A s \in Run \ {r} : run'[s] = run[s]
           /\ \A s \in Run : On(s, a)' <=> s # r /\ On(s, a)
           /\ \A s \in Run, l \in Key : Holds(s, a, l)' <=> s # r /\ Holds(s, a, l)
           /\ Strays(a)' => Strays(a)
<1>1. run'[r] = IdleRun /\ \A s \in Run \ {r} : run'[s] = run[s]
  BY DEF TypeOK
<1>2. IdleRun.pc = "idle"
  BY DEF IdleRun
<1>3. /\ \A s \in Run : On(s, a)' <=> s # r /\ On(s, a)
      /\ \A s \in Run, l \in Key : Holds(s, a, l)' <=> s # r /\ Holds(s, a, l)
  BY <1>1, <1>2 DEF On, Holds
<1>4. Strays(a)' => Strays(a)
  BY <1>1, <1>3 DEF Strays
<1> QED
  BY <1>1, <1>3, <1>4

LEMMA LeavesApart ==
    ASSUME TypeOK, NEW r \in Run, run' = [run EXCEPT ![r] = IdleRun], NEW a \in Asset,
           run[r].asset = a
    PROVE  \A s \in Run, b \in Asset \ {a} : run'[s] = run[s] \/ (~On(s, b) /\ ~On(s, b)')
<1>1. run'[r] = IdleRun /\ \A s \in Run \ {r} : run'[s] = run[s] /\ IdleRun.pc = "idle"
  BY DEF TypeOK, IdleRun
<1> QED
  BY <1>1 DEF On, IdleRun

LEMMA CrashFits == ASSUME IInv, AllFit, NEW r \in Run, Crash(r) PROVE AllFit'
<1>1. /\ run[r].pc # "idle" /\ run[r].holds /\ run' = [run EXCEPT ![r] = IdleRun]
      /\ UNCHANGED <<asset, job, owed>> /\ TypeOK /\ Disturb(run[r].asset)
  BY DEF Crash, IInv
<1>2. PICK a \in Asset : a = run[r].asset
  BY <1>1 DEF IInv, RunsOK, RunOK
<1>3. PICK k \in Key : k = run[r].key
  BY <1>1 DEF IInv, RunsOK, RunOK
<1>4. a \notin disturbed /\ disturbed' = disturbed \cup {a}
  BY <1>1, <1>2 DEF Disturb
<1>5. /\ \A s \in Run \ {r} : run'[s] = run[s]
      /\ \A s \in Run : On(s, a)' <=> s # r /\ On(s, a)
      /\ \A s \in Run, l \in Key : Holds(s, a, l)' <=> s # r /\ Holds(s, a, l)
      /\ Strays(a)' => Strays(a)
  BY <1>1, RunLeaves
<1>6. JobsFit(a)'
  BY <1>1, <1>4, <1>5 DEF AllFit, Fits, JobsFit
<1>7. \A l \in Key : Holds(r, a, l) => l = k
  BY <1>3 DEF Holds
<1>8. \A l \in Key \ {k} : MayPay(a, l)' => MayPay(a, l)
  BY <1>1, <1>5, <1>7 DEF MayPay
<1>9. Payers(a)' \subseteq Payers(a) \cup {k}
  BY <1>8 DEF Payers
<1>10. Covered(a)'
  BY <1>1, <1>4, <1>5, <1>9, CoverFault DEF AllFit, Fits
<1>11. Fits(a)'
  BY <1>4, <1>6, <1>10 DEF Fits
<1>12. Apart(a)
  BY <1>1, <1>4 DEF Apart
<1> QED
  BY <1>1, <1>2, <1>11, <1>12, LeavesApart, ActingOn

LEMMA TimeOutFits == ASSUME IInv, AllFit, NEW r \in Run, TimeOut(r) PROVE AllFit'
<1>0. PICK a \in Asset : a = run[r].asset
  BY DEF TimeOut, IInv, RunsOK, RunOK
<1>1. PICK k \in Key : k = run[r].key
  BY DEF TimeOut, IInv, RunsOK, RunOK
<1>2. PICK s \in {"queued", "failed"} : job' = [job EXCEPT ![a] = [@ EXCEPT ![k] = s]]
  BY <1>0, <1>1 DEF TimeOut
<1>3. /\ run[r].pc # "idle" /\ run[r].holds /\ Rebooked(a, k, s) /\ TypeOK
      /\ UNCHANGED <<asset, owed>> /\ a \notin disturbed /\ disturbed' = disturbed \cup {a}
  BY <1>0, <1>2, JobRebooked DEF TimeOut, Disturb, IInv
<1>4. PICK x : x = [run[r] EXCEPT !.holds = FALSE]
  OBVIOUS
<1>5. run[r] \in Execution
  BY <1>3 DEF TypeOK
<1>6. x.pc = run[r].pc /\ x.asset = a /\ ~x.holds
  BY <1>0, <1>4, <1>5 DEF Execution
<1>7. run' = [run EXCEPT ![r] = x] /\ run \in [Run -> Execution]
  BY <1>3, <1>4 DEF TimeOut, TypeOK
<1>8. run'[r] = x /\ \A u \in Run \ {r} : run'[u] = run[u]
  BY <1>7
<1>9. /\ \A u \in Run : On(u, a)' <=> On(u, a)
      /\ \A u \in Run, l \in Key : Holds(u, a, l)' <=> u # r /\ Holds(u, a, l)
      /\ On(r, a) /\ Holds(r, a, k)
  BY <1>0, <1>1, <1>3, <1>6, <1>8 DEF On, Holds
<1>10. \A u \in Run : On(u, a) => run[u].holds
  BY <1>3 DEF AllFit, Fits, JobsFit
<1>11. /\ \A u \in Run : Holds(u, a, k) => u = r
       /\ job[a][k] = "active"
  BY <1>9 DEF AllFit, Fits, JobsFit
<1>12. \A l \in Key \ {k} : job'[a][l] = job[a][l] /\ ~Holds(r, a, l)
  BY <1>1, <1>3 DEF Rebooked, Holds
<1>13. JobsFit(a)'
  <2>1. \A u \in Run, l \in Key : Holds(u, a, l)' => job'[a][l] = "active"
    BY <1>9, <1>11, <1>12 DEF AllFit, Fits, JobsFit
  <2>2. \A u, v \in Run, l \in Key : Holds(u, a, l)' /\ Holds(v, a, l)' => u = v
    BY <1>9 DEF AllFit, Fits, JobsFit
  <2>3. \A u \in Run : On(u, a)' /\ ~run'[u].holds => u = r
    BY <1>8, <1>9, <1>10
  <2> QED
    BY <1>3, <2>1, <2>2, <2>3 DEF JobsFit
<1>14. \A l \in Key \ {k} : MayPay(a, l)' => MayPay(a, l)
  BY <1>8, <1>9, <1>12 DEF MayPay
<1>15. Covered(a)'
  <2>1. CASE run[r].pc \in Unpaid
    <3>1. MayPay(a, k)
      BY <1>11, <2>1 DEF MayPay
    <3>2. Payers(a)' \subseteq Payers(a)
      BY <1>14, <3>1 DEF Payers
    <3> QED
      BY <1>3, <3>2, CoverStrays DEF AllFit, Fits
  <2>2. CASE run[r].pc \notin Unpaid
    <3>1. Payers(a)' \subseteq Payers(a) \cup {k}
      BY <1>14 DEF Payers
    <3>2. ~Strays(a)'
      BY <1>6, <1>8, <1>9, <1>10, <2>2 DEF Strays
    <3> QED
      BY <1>3, <3>1, <3>2, CoverFault DEF AllFit, Fits
  <2> QED
    BY <2>1, <2>2
<1>16. Fits(a)'
  BY <1>3, <1>13, <1>15 DEF Fits
<1>17. Apart(a)
  BY <1>3 DEF Apart, Rebooked
<1>18. \A u \in Run, b \in Asset \ {a} : run'[u] = run[u] \/ (~On(u, b) /\ ~On(u, b)')
  BY <1>0, <1>6, <1>8 DEF On
<1> QED
  BY <1>16, <1>17, <1>18, ActingOn

\* The job that a run books: it waits again only if the run threw, which it does
\* before it has asked the provider.
LEMMA BookingFits ==
    ASSUME IInv, AllFit, NEW r \in Run, NEW a \in Asset, NEW k \in Key,
           run[r].asset = a, run[r].key = k, run[r].holds,
           run[r].pc \in {"succeeded", "gaveUp", "threw"},
           NEW s \in {"completed", "failed", "queued"}, Rebooked(a, k, s),
           s = "queued" => run[r].pc = "threw",
           run' = [run EXCEPT ![r] = IdleRun], UNCHANGED <<asset, owed, disturbed>>
    PROVE  AllFit'
<1>0. TypeOK /\ On(r, a) /\ Holds(r, a, k) /\ run[r].pc \notin Working /\ run[r].pc \notin Starting
  BY DEF IInv, On, Holds, Working, Starting
<1>1. /\ \A u \in Run \ {r} : run'[u] = run[u]
      /\ \A u \in Run : On(u, a)' <=> u # r /\ On(u, a)
      /\ \A u \in Run, l \in Key : Holds(u, a, l)' <=> u # r /\ Holds(u, a, l)
      /\ Strays(a)' => Strays(a)
  BY <1>0, RunLeaves
<1>2. /\ \A u \in Run : Holds(u, a, k) => u = r
      /\ job[a][k] = "active"
  BY <1>0 DEF AllFit, Fits, JobsFit
<1>3. job'[a][k] = s /\ \A l \in Key \ {k} : job'[a][l] = job[a][l] /\ ~Holds(r, a, l)
  BY DEF Rebooked, Holds
<1>4. JobsFit(a)'
  <2>1. \A u \in Run, l \in Key : Holds(u, a, l)' => job'[a][l] = "active"
    BY <1>1, <1>2, <1>3 DEF AllFit, Fits, JobsFit
  <2> QED
    BY <1>1, <2>1 DEF AllFit, Fits, JobsFit
<1>5. \A l \in Key \ {k} : MayPay(a, l)' => MayPay(a, l)
  BY <1>1, <1>3 DEF MayPay
<1>6. MayPay(a, k)' => MayPay(a, k)
  <2> SUFFICES ASSUME MayPay(a, k)' PROVE MayPay(a, k)
    OBVIOUS
  <2>1. s = "queued"
    BY <1>3 DEF MayPay
  <2>2. run[r].pc \in Unpaid
    BY <2>1 DEF Unpaid
  <2> QED
    BY <1>2, <2>2 DEF MayPay
<1>7. Payers(a)' \subseteq Payers(a)
  BY <1>5, <1>6 DEF Payers
<1>8. Covered(a)'
  BY <1>0, <1>1, <1>7, CoverShrinks DEF AllFit, Fits
<1>9. ASSUME a \notin disturbed PROVE Calm(a)'
  <2>0. Calm(a)
    BY <1>9 DEF AllFit, Fits
  <2>1. s # "queued"
    BY <1>0, <2>0 DEF Calm
  <2>2. \A l \in Key : Waits(a, l)' => Waits(a, l)
    BY <1>1, <1>3, <2>1 DEF Waits
  <2>3. \A l \in Key : job'[a][l] = "active" => \E u \in Run : Holds(u, a, l)'
    <3> SUFFICES ASSUME NEW l \in Key, job'[a][l] = "active"
                 PROVE  \E u \in Run : Holds(u, a, l)'
      OBVIOUS
    <3>1. l # k
      BY <1>3
    <3>2. PICK u \in Run : Holds(u, a, l)
      BY <1>3, <2>0, <3>1 DEF Calm
    <3> QED
      BY <1>1, <1>3, <3>1, <3>2
  <2>4. asset[a].status = "processing" =>
          \E u \in Run : On(u, a) /\ run[u].pc \in Working /\ u # r
    BY <1>0, <2>0 DEF Calm
  <2>5. asset'[a].status = "processing" => \E u \in Run : On(u, a)' /\ run'[u].pc \in Working
    BY <1>1, <2>4
  <2>6. \A u \in Run : On(u, a)' => On(u, a) /\ run'[u] = run[u]
    BY <1>1
  <2> QED
    BY <2>0, <2>2, <2>3, <2>5, <2>6 DEF Calm
<1>10. Fits(a)'
  BY <1>4, <1>8, <1>9 DEF Fits
<1>11. Apart(a)
  BY DEF Apart, Rebooked
<1> QED
  BY <1>0, <1>10, <1>11, LeavesApart, ActingOn

\* A run that has lost its job books nothing.
LEMMA LeavingFits ==
    ASSUME IInv, AllFit, NEW r \in Run, NEW a \in Asset, run[r].asset = a, run[r].pc # "idle",
           ~run[r].holds, run' = [run EXCEPT ![r] = IdleRun],
           UNCHANGED <<asset, job, owed, disturbed>>
    PROVE  AllFit'
<1>0. TypeOK /\ On(r, a)
  BY DEF IInv, On
<1>1. /\ \A u \in Run \ {r} : run'[u] = run[u]
      /\ \A u \in Run : On(u, a)' <=> u # r /\ On(u, a)
      /\ \A u \in Run, l \in Key : Holds(u, a, l)' <=> u # r /\ Holds(u, a, l)
      /\ Strays(a)' => Strays(a)
  BY <1>0, RunLeaves
<1>2. \A l \in Key : ~Holds(r, a, l)
  BY DEF Holds
<1>3. JobsFit(a)' /\ a \in disturbed
  BY <1>0, <1>1 DEF AllFit, Fits, JobsFit
<1>4. \A l \in Key : MayPay(a, l)' => MayPay(a, l)
  BY <1>1, <1>2 DEF MayPay
<1>5. Payers(a)' \subseteq Payers(a)
  BY <1>4 DEF Payers
<1>6. Covered(a)'
  BY <1>0, <1>1, <1>5, CoverShrinks DEF AllFit, Fits
<1>7. Fits(a)'
  BY <1>3, <1>6 DEF Fits
<1>8. Apart(a)
  BY DEF Apart
<1> QED
  BY <1>0, <1>7, <1>8, LeavesApart, ActingOn

LEMMA FinishFits == ASSUME IInv, AllFit, NEW r \in Run, Finish(r) PROVE AllFit'
<1>0. PICK a \in Asset : a = run[r].asset
  BY DEF Finish, IInv, RunsOK, RunOK
<1>1. PICK k \in Key : k = run[r].key
  BY DEF Finish, IInv, RunsOK, RunOK
<1>2. /\ run[r].pc \in {"succeeded", "gaveUp", "threw"} /\ run' = [run EXCEPT ![r] = IdleRun]
      /\ UNCHANGED <<asset, owed, disturbed>> /\ TypeOK
  BY DEF Finish, IInv
<1>3. CASE ~run[r].holds
  <2>1. UNCHANGED job
    BY <1>3 DEF Finish
  <2> QED
    BY <1>0, <1>2, <1>3, <2>1, LeavingFits
<1>4. CASE run[r].holds
  <2>1. \E s \in {"completed", "failed", "queued"} :
          /\ s = "queued" => run[r].pc = "threw"
          /\ job' = [job EXCEPT ![a] = [@ EXCEPT ![k] = s]]
    BY <1>0, <1>1, <1>2, <1>4 DEF Finish
  <2>2. PICK s \in {"completed", "failed", "queued"} :
          /\ s = "queued" => run[r].pc = "threw"
          /\ job' = [job EXCEPT ![a] = [@ EXCEPT ![k] = s]]
    BY <2>1
  <2>3. Rebooked(a, k, s)
    BY <1>2, <2>2, JobRebooked
  <2> QED
    BY <1>0, <1>1, <1>2, <1>4, <2>2, <2>3, BookingFits
<1> QED
  BY <1>3, <1>4

-------------------------------------------------------------------------------
(* The invariant of runs and payments holds                                    *)

LEMMA InitFits == Init => AllFit
<1> SUFFICES ASSUME Init, NEW a \in Asset PROVE Fits(a)
  BY DEF AllFit
<1>1. \A r \in Run : run[r].pc = "idle"
  BY DEF Init, IdleRun
<1>2. (\A r \in Run : ~On(r, a)) /\ \A r \in Run, k \in Key : ~Holds(r, a, k)
  BY <1>1 DEF On, Holds
<1>3. \A k \in Key : job[a][k] = "none"
  BY DEF Init
<1>4. asset[a].status = "none" /\ owed[a] = 0 /\ a \notin disturbed
  BY DEF Init
<1>5. JobsFit(a) /\ Calm(a)
  BY <1>2, <1>3, <1>4 DEF JobsFit, Calm, Waits
<1>6. Payers(a) = {} /\ ~Strays(a)
  BY <1>2, <1>3 DEF Payers, MayPay, Strays
<1>7. Covered(a)
  BY <1>4, <1>6, FS_EmptySet DEF Covered, One
<1> QED
  BY <1>5, <1>7 DEF Fits

LEMMA RequestsFit ==
    ASSUME IInv, AllFit, NEW q \in Request, RequestStep(q) PROVE AllFit'
<1>1. CASE Recover(q)
  BY <1>1, RecoverFits
<1>2. CASE AutoStart(q)
  BY <1>2, AutoStartFits
<1>3. CASE UNCHANGED <<asset, job, run, owed, disturbed>>
  BY <1>3, NothingMoves
<1> QED
  BY <1>1, <1>2, <1>3
  DEF RequestStep, Resolve, FindRow, AnswerReady, Reread, BeginSave, MatchRow, CheckPicture,
      SaveRepit, Abandon

LEMMA NextFits == ASSUME IInv, AllFit, [Next]_vars PROVE AllFit'
<1>1. CASE \E q \in Request : RequestStep(q)
  BY <1>1, RequestsFit
<1>2. CASE \E r \in Run : RunStep(r)
  <2>1. PICK r \in Run : RunStep(r)
    BY <1>2
  <2> QED
    BY <2>1, ClaimFits, LoadFits, MarkReadFits, SavesFit, StepsFit, ProvideFits,
       ProviderFailsFits, DoneReadFits, FailReadFits, FinishFits, CrashFits, TimeOutFits,
       WriteLostFits DEF RunStep
<1>3. CASE \E a \in Asset : AssetStep(a)
  <2>1. PICK a \in Asset : AssetStep(a)
    BY <1>3
  <2>2. CASE Retry(a)
    <3>1. Queue(a, TRUE) /\ UNCHANGED <<run, disturbed>>
      BY <2>2 DEF Retry
    <3>2. PICK increment \in BOOLEAN : increment = TRUE
      OBVIOUS
    <3> QED
      BY <3>1, <3>2, QueueFits
  <2> QED
    BY <2>1, <2>2, RegisterFits, RegenerateFits, CancelFits, ReclaimFits, RetryJobFits
    DEF AssetStep
<1>4. CASE (\E o \in Object : Vanish(o)) \/ UNCHANGED vars
  BY <1>4, NothingMoves DEF Vanish, vars
<1> QED
  BY <1>1, <1>2, <1>3, <1>4 DEF Next

LEMMA FitsAlways == Spec => [](IInv /\ AllFit)
<1>1. Init => IInv /\ AllFit
  BY InitInv, InitFits
<1>2. IInv /\ AllFit /\ [Next]_vars => (IInv /\ AllFit)'
  BY NextKeeps, NextFits
<1> QED
  BY <1>1, <1>2, PTL DEF Spec

\* Two runs past the guard of an asset at peace hold the same job.
LEMMA OneIsAtWork == ASSUME IInv, AllFit PROVE OneRunAtWork
<1> DEFINE Past == Working \cup {"mark", "marking"}
<1> SUFFICES ASSUME NEW r \in Run, NEW s \in Run, run[r].pc \in Past, run[s].pc \in Past,
                    run[r].asset = run[s].asset, run[r].asset \notin disturbed
             PROVE  r = s
  BY DEF OneRunAtWork
<1>1. run[r].pc # "idle" /\ run[s].pc # "idle"
  BY DEF Working
<1>2. PICK a \in Asset : a = run[r].asset
  BY <1>1 DEF IInv, RunsOK, RunOK
<1>3. On(r, a) /\ On(s, a) /\ Calm(a) /\ Fits(a)
  BY <1>1, <1>2 DEF On, AllFit, Fits
<1>4. (\E k \in Key : Holds(r, a, k)) /\ (\E k \in Key : Holds(s, a, k))
  BY <1>2, <1>3, CalmHolds
<1>5. PICK k, l \in Key : Holds(r, a, k) /\ Holds(s, a, l)
  BY <1>4
<1>6. /\ run[r].pc \in Starting => Waits(a, k)
      /\ run[s].pc \in Starting => Waits(a, l)
  BY <1>5 DEF Waits
<1>7. CASE run[r].pc \in Working /\ run[s].pc \in Working
  BY <1>3, <1>7 DEF Calm
<1>8. CASE run[r].pc \in Starting /\ run[s].pc \in Starting
  <2>1. k = l
    BY <1>3, <1>6, <1>8 DEF Calm
  <2> QED
    BY <1>3, <1>5, <2>1 DEF Fits, JobsFit
<1>9. CASE \/ run[r].pc \in Working /\ run[s].pc \in Starting
           \/ run[r].pc \in Starting /\ run[s].pc \in Working
  BY <1>3, <1>6, <1>9 DEF Calm
<1> QED
  BY <1>7, <1>8, <1>9 DEF Starting

LEMMA AllArePaid == ASSUME IInv, AllFit PROVE PaidWhenAsked
<1> SUFFICES ASSUME NEW a \in Asset
             PROVE  owed[a] >= 0 \/ (a \in disturbed /\ owed[a] >= -1)
  BY DEF PaidWhenAsked
<1>1. Cardinality(Payers(a)) \in Nat /\ owed[a] \in Int
  BY KeysCounted DEF Payers, IInv, TypeOK
<1>2. Covered(a)
  BY DEF AllFit, Fits
<1> QED
  BY <1>1, <1>2 DEF Covered, One

LEMMA AllAttended == ASSUME AllFit PROVE ProcessingIsAttended
BY DEF AllFit, Fits, Calm, On, ProcessingIsAttended

\* However requests, runs, crashes, timeouts and repeated deliveries interleave:
\* one run is at work on an asset, the provider is paid once for each time it was
\* queued, and no asset is processing unattended, unless a fault struck it; then
\* one more call of the provider is all it costs.
THEOREM RunsAreAlwaysAccountedFor == Spec => []RunsAreAccountedFor
<1>1. IInv /\ AllFit => RunsAreAccountedFor
  BY OneIsAtWork, AllArePaid, AllAttended DEF RunsAreAccountedFor
<1> QED
  BY <1>1, FitsAlways, PTL

LegalMove(a) ==
    /\ \/ asset'[a].status = asset[a].status
       \/ asset'[a].status \in Transitions[asset[a].status]
       \/ asset[a].status \notin {"queued", "processing"} /\ asset'[a].status = "queued"
    /\ asset'[a].retries >= asset[a].retries

LEMMA SameIsLegal == ASSUME IInv, NEW a \in Asset, asset'[a] = asset[a] PROVE LegalMove(a)
<1>1. asset[a].retries \in Int
  BY DEF IInv, TypeOK, AssetRow
<1> QED
  BY <1>1 DEF LegalMove

LEMMA SavesAreLegal ==
    ASSUME IInv, AllFit, NEW r \in Run, MarkSave(r) \/ DoneSave(r) \/ FailSave(r),
           NEW a \in Asset, a \notin disturbed'
    PROVE  LegalMove(a)
<1>1. run[r].pc \in {"marking", "completing", "failing"} /\ UNCHANGED disturbed
  BY DEF MarkSave, DoneSave, FailSave
<1>2. PICK b \in Asset : b = run[r].asset
  BY <1>1 DEF IInv, RunsOK, RunOK
<1>3. PICK to \in {"processing", "completed", "failed"} :
        /\ SavesAs(r, to)
        /\ to = "processing" <=> run[r].pc = "marking"
  BY DEF MarkSave, DoneSave, FailSave
<1>4. to \in Status
  BY StatusSet
<1>5. /\ asset'[b].status = to /\ asset'[b].retries = run[r].seen.retries
      /\ \A c \in Asset \ {b} : asset'[c] = asset[c]
  BY <1>1, <1>2, <1>3, <1>4, SavedIs
<1>6. CASE a # b
  BY <1>5, <1>6, SameIsLegal
<1>7. CASE a = b
  <2>1. run[r].pc # "idle" /\ run[r].key \in Key /\ Fits(a) /\ a \notin disturbed
    BY <1>1 DEF IInv, RunsOK, RunOK, AllFit
  <2>2. /\ On(r, a)
        /\ run[r].pc \in Starting => asset[a].status = "queued"
        /\ run[r].pc \in Working => asset[a].status = "processing"
    BY <1>2, <1>7, <2>1, CalmRun
  <2>3. run[r].seen = asset[a]
    BY <1>1, <2>1, <2>2 DEF Fits, Calm
  <2>4. to \in Transitions[asset[a].status]
    BY <1>1, <1>3, <2>2 DEF Starting, Working, Transitions
  <2>5. asset[a].retries \in Int
    BY DEF IInv, TypeOK, AssetRow
  <2> QED
    BY <1>5, <1>7, <2>3, <2>4, <2>5 DEF LegalMove
<1> QED
  BY <1>6, <1>7

LEMMA QueueIsLegal ==
    ASSUME IInv, NEW b \in Asset, NEW increment \in BOOLEAN, Queue(b, increment),
           NEW a \in Asset
    PROVE  LegalMove(a)
<1>1. CASE a # b
  BY <1>1, QueueMoves, SameIsLegal
<1>2. CASE a = b
  BY <1>2, QueueMoves DEF LegalMove, Reprocessable
<1> QED
  BY <1>1, <1>2

LEMMA RecoveryIsLegal ==
    ASSUME IInv, NEW q \in Request, Recover(q), NEW a \in Asset
    PROVE  LegalMove(a)
<1>1. PICK b \in Asset : b = request[q].asset
  BY DEF Recover, IInv, RequestsOK, RequestOK
<1>2. /\ \A c \in Asset \ {b} : asset'[c] = asset[c]
      /\ \/ asset'[b] = asset[b]
         \/ /\ asset[b].status = "completed" /\ asset'[b].status = "retry_required"
            /\ asset'[b].retries = asset[b].retries
  BY <1>1, RecoverMoves
<1>3. CASE asset'[a] = asset[a]
  BY <1>3, SameIsLegal
<1>4. CASE /\ asset[a].status = "completed" /\ asset'[a].status = "retry_required"
           /\ asset'[a].retries = asset[a].retries
  <2>1. asset[a].retries \in Int
    BY DEF IInv, TypeOK, AssetRow
  <2> QED
    BY <1>4, <2>1 DEF LegalMove, Transitions
<1> QED
  BY <1>2, <1>3, <1>4

LEMMA RequestsAreLegal ==
    ASSUME IInv, NEW q \in Request, RequestStep(q), NEW a \in Asset
    PROVE  LegalMove(a)
<1>1. CASE Recover(q)
  BY <1>1, RecoveryIsLegal
<1>2. CASE AutoStart(q)
  <2>1. PICK b \in Asset : b = request[q].asset
    BY <1>2 DEF AutoStart, IInv, RequestsOK, RequestOK
  <2>2. PICK increment \in BOOLEAN : increment = (request[q].current # "uploaded")
    OBVIOUS
  <2>3. Queue(b, increment) \/ UNCHANGED asset
    BY <1>2, <2>1, <2>2 DEF AutoStart
  <2> QED
    BY <2>3, QueueIsLegal, SameIsLegal
<1>3. CASE UNCHANGED asset
  BY <1>3, SameIsLegal
<1> QED
  BY <1>1, <1>2, <1>3
  DEF RequestStep, Resolve, FindRow, AnswerReady, Reread, BeginSave, MatchRow, CheckPicture,
      SaveRepit, Abandon

LEMMA AssetStepsAreLegal ==
    ASSUME IInv, NEW b \in Asset, AssetStep(b), NEW a \in Asset, asset[a].status # "none"
    PROVE  LegalMove(a)
<1>1. CASE \E c \in Content : Register(b, c)
  <2>1. asset[b].status = "none" /\ \A c \in Asset \ {b} : asset'[c] = asset[c]
    BY <1>1 DEF Register, IInv, TypeOK
  <2> QED
    BY <2>1, SameIsLegal
<1>2. CASE Retry(b)
  <2>1. PICK increment \in BOOLEAN : increment = TRUE
    OBVIOUS
  <2> QED
    BY <1>2, <2>1, QueueIsLegal DEF Retry
<1>3. CASE Regenerate(b)
  <2>1. CASE a # b
    BY <1>3, <2>1, RegenerateMoves, SameIsLegal
  <2>2. CASE a = b
    <3>1. asset[a].retries \in Int
      BY DEF IInv, TypeOK, AssetRow
    <3> QED
      BY <1>3, <2>2, <3>1, RegenerateMoves DEF LegalMove
  <2> QED
    BY <2>1, <2>2
<1>4. CASE UNCHANGED asset
  BY <1>4, SameIsLegal
<1> QED
  BY <1>1, <1>2, <1>3, <1>4 DEF AssetStep, CancelJob, Reclaim, RetryJob

LEMMA RunsAreLegal ==
    ASSUME IInv, AllFit, NEW r \in Run, RunStep(r), NEW a \in Asset, a \notin disturbed'
    PROVE  LegalMove(a)
<1>1. CASE MarkSave(r) \/ DoneSave(r) \/ FailSave(r)
  BY <1>1, SavesAreLegal
<1>2. CASE UNCHANGED asset
  BY <1>2, SameIsLegal
<1> QED
  BY <1>1, <1>2
  DEF RunStep, Claim, Load, MarkRead, ReuseOwn, ReuseContent, Provide, ProviderFails, SaveRow,
      StepFails, DoneRead, FailRead, Finish, Crash, TimeOut, WriteLost

LEMMA StepsAreLegal ==
    ASSUME IInv, AllFit, [Next]_vars, NEW a \in Asset,
           asset[a].status # "none", a \notin disturbed'
    PROVE  LegalMove(a)
<1>1. CASE \E q \in Request : RequestStep(q)
  BY <1>1, RequestsAreLegal
<1>2. CASE \E r \in Run : RunStep(r)
  BY <1>2, RunsAreLegal
<1>3. CASE \E b \in Asset : AssetStep(b)
  BY <1>3, AssetStepsAreLegal
<1>4. CASE (\E o \in Object : Vanish(o)) \/ UNCHANGED vars
  BY <1>4, SameIsLegal DEF Vanish, vars
<1> QED
  BY <1>1, <1>2, <1>3, <1>4 DEF Next

\* As an action property: of an asset that no fault has struck, the status moves
\* along the table of media-lifecycle.ts and retryCount never falls, although the
\* handler saves rows it has read earlier.
THEOREM MovesAreAlwaysLegal == Spec => LegalMoves
<1>1. IInv /\ AllFit /\ [Next]_vars =>
        \A a \in Asset : asset[a].status # "none" /\ a \notin disturbed' => LegalMove(a)
  BY StepsAreLegal
<1>2. IInv /\ AllFit /\ [Next]_vars =>
        [\A a \in Asset :
          LET was == asset[a]
              is == asset'[a]
          IN was.status # "none" /\ a \notin disturbed' =>
                /\ \/ is.status = was.status
                   \/ is.status \in Transitions[was.status]
                   \/ was.status \notin {"queued", "processing"} /\ is.status = "queued"
                /\ is.retries >= was.retries]_vars
  BY <1>1 DEF LegalMove
<1> QED
  BY <1>2, FitsAlways, PTL DEF LegalMoves, Spec

================================================================================
