---- MODULE RepitCompositions ----
(***************************************************************************)
(* The composition of a Repit: what repits.service.ts accepts, stores and  *)
(* shows, the normalisation of composition.utils.ts that every write and   *)
(* every read passes through, the fallback for a database whose columns    *)
(* are not there yet, and the script that backfills compositions           *)
(* (scripts/backfill-compositions.ts, composition-backfill.ts).            *)
(*                                                                         *)
(* A composition holds the template and the version it was made for and    *)
(* its layers; the canvas, which is treated as the version is, is left     *)
(* out.  Requests of the owner, the script and the publication of          *)
(* templates interleave: a request reads the row and saves it later, the   *)
(* script reads a batch of rows and saves them one by one, each save       *)
(* writing every column as it was read.  Moderation of a Repit is          *)
(* RepitModeration, its pictures are MediaProcessing.                      *)
(***************************************************************************)
EXTENDS Integers, Sequences, Subsequences

CONSTANTS Template, MaxVersion, Missing

ASSUME CompositionAssumption == MaxVersion \in Nat \ {0} /\ Missing \notin Template

VARIABLES schema,   \* "legacy" until the columns of compositions are there
          template, \* the catalogue: version and composition of each template
          repit,    \* the row, or Missing
          edit,     \* the row as an edit under way read it, or Missing
          batch,    \* the row as the script read it, or Missing
          owners,   \* the composition the owner saved last, or Missing
          overwritten \* a save put back what it read before another save
compositionVars == <<schema, template, repit, edit, batch, owners, overwritten>>

Version == 1..MaxVersion
LayerType == {"photo", "musicWidget"}

\* A layer as it is stored. An id that is not the client's is the position.
Layer == [type: LayerType, id: {"own", "layer-1", "layer-3"}, zIndex: 0..2, opacity: 0..1]

----
(* composition.utils.ts *)

\* normalizeLayer: an unknown type makes no layer; what is missing gets its
\* default, what is out of range is moved into it.
NormalizeLayer(raw, position) ==
  [type |-> raw.type,
   id |-> IF raw.id # "none" THEN raw.id ELSE <<"layer-1", "layer-2", "layer-3">>[position],
   zIndex |-> IF raw.zIndex = Missing THEN position - 1 ELSE IF raw.zIndex < 0 THEN 0 ELSE raw.zIndex,
   opacity |-> IF raw.opacity = Missing THEN 1 ELSE IF raw.opacity > 1 THEN 1 ELSE raw.opacity]

\* The layers that are kept, each with the defaults of the position it was sent in.
NormalizeLayers(raw) ==
  Picked([i \in DOMAIN raw |-> NormalizeLayer(raw[i], i)],
         {i \in DOMAIN raw : raw[i].type \in LayerType})

\* sanitizeComposition: Missing when there is nothing to show or no template to
\* show it with.
Sanitize(raw, forTemplate, forVersion) ==
  IF raw = Missing THEN Missing
  ELSE LET layers == NormalizeLayers(raw.layers)
           id == IF raw.template = Missing THEN forTemplate ELSE raw.template
       IN IF layers = <<>> \/ id = Missing THEN Missing
          ELSE [template |-> id,
                version |-> IF raw.version = Missing THEN forVersion ELSE raw.version,
                layers |-> layers]

\* Mutant of AssertComposition: the version is not compared.
AssertTemplateOnly(raw, forTemplate, forVersion) ==
  LET clean == Sanitize(raw, forTemplate, forVersion)
  IN IF clean # Missing /\ clean.template = forTemplate THEN clean ELSE Missing

\* assertRepitComposition: Missing stands for the refusal.
AssertComposition(raw, forTemplate, forVersion) ==
  LET clean == Sanitize(raw, forTemplate, forVersion)
  IN IF clean # Missing /\ clean.template = forTemplate /\ clean.version = forVersion
     THEN clean ELSE Missing

\* normalizeRepitState, what a read shows: the composition is taken at its word
\* for its template and version, and speaks for the version.
ShownRepit(row) ==
  LET own == IF row.composition = Missing THEN Missing ELSE row.composition.template
      clean == Sanitize(row.composition, own, row.version)
  IN [row EXCEPT !.composition = clean, !.version = IF clean = Missing THEN @ ELSE clean.version]

----
(* What clients send. *)

\* Layers one may send, of a type that may be unknown, with an id, a place in the
\* stack and an opacity that may be missing or out of range: one the client spelled out and, after an unknown one, one
\* that leans on every default; or only an unknown one.
Unknown == [type |-> "unknown", id |-> "none", zIndex |-> Missing, opacity |-> 1]
RawLayers ==
  {<<Unknown>>,
   <<[type |-> "photo", id |-> "own", zIndex |-> -1, opacity |-> 2], Unknown,
     [type |-> "musicWidget", id |-> "none", zIndex |-> Missing, opacity |-> Missing]>>}

RawComposition ==
  [template: Template \cup {Missing}, version: Version \cup {Missing}, layers: RawLayers]

\* The fields of a request that matter here; a field that is not sent is Missing.
Body(withComposition) ==
  [template: Template \cup {Missing}, version: Version \cup {Missing},
   composition: IF withComposition THEN RawComposition ELSE {Missing}]

\* What is stored.
Composition == [template: Template, version: Version, layers: Seq(Layer)]
StoredRow ==
  [template: Template, version: Version, composition: Composition \cup {Missing}, mixed: BOOLEAN]

\* What is missing is no value.
ASSUME MissingAssumption == Missing \notin Int \cup RawComposition \cup Composition \cup StoredRow

Or(value, default) == IF value = Missing THEN default ELSE value

----
(* The owner. *)

\* The row of a Repit; whether its template or version was changed without its
\* composition is written beside it.
RepitRow(t, version, composition, mixed) ==
  [template |-> t, version |-> version, composition |-> composition, mixed |-> mixed]

\* createRepit: a composition must be made for the template asked for and for the
\* version asked for, or the template's; the version that is stored comes from
\* the request or the composition, and is 1 when neither says. On a database
\* without the columns the row is inserted without them. (A Repit has an id of
\* its own: another one is followed once nothing under way holds the last.)
CreateRepit(body) ==
  LET clean == AssertComposition(body.composition, body.template,
                                 Or(body.version, template[body.template].version))
      version == Or(body.version, IF clean = Missing THEN 1 ELSE clean.version)
  IN /\ repit = Missing /\ edit = Missing /\ batch = Missing
     /\ body.template # Missing
     /\ body.composition # Missing => clean # Missing
     /\ IF schema = "legacy"
        THEN repit' = RepitRow(body.template, 1, Missing, FALSE) /\ owners' = Missing
        ELSE repit' = RepitRow(body.template, version, clean, FALSE) /\ owners' = clean
     /\ overwritten' = FALSE
     /\ UNCHANGED <<schema, template, edit, batch>>

\* updateRepit reads the row, the template and the pictures' state.
UpdateRepit ==
  /\ repit # Missing /\ edit = Missing /\ schema = "current"
  /\ edit' = repit
  /\ UNCHANGED <<schema, template, repit, batch, owners, overwritten>>

\* updateRepit checks the request against the row it read and saves that row
\* with the request's fields. What the request leaves out stays as it was, the
\* composition too when it was made for another template or version.
SaveEdit(body) ==
  LET t == Or(body.template, edit.template)
      version == Or(body.version, edit.version)
      clean == AssertComposition(body.composition, t, version)
      kept == clean = Missing /\ edit.composition # Missing
  IN /\ edit # Missing
     /\ body.composition # Missing => clean # Missing
     /\ repit' = RepitRow(t, version, IF clean = Missing THEN edit.composition ELSE clean,
                     kept /\ (edit.mixed \/ t # edit.template \/ version # edit.version))
     /\ owners' = repit'.composition
     /\ edit' = Missing
     /\ overwritten' = (overwritten \/ edit # repit)
     /\ UNCHANGED <<schema, template, batch>>

\* An edit that is refused, for its composition or because its template is not
\* live, changes nothing.
RefuseEdit ==
  /\ edit # Missing
  /\ edit' = Missing
  /\ UNCHANGED <<schema, template, repit, batch, owners, overwritten>>

\* updateRepitLegacy: without the columns the first read fails, and the template
\* is written without being looked up.
UpdateLegacy(t) ==
  /\ repit # Missing /\ schema = "legacy"
  /\ repit' = [repit EXCEPT !.template = t]
  /\ UNCHANGED <<schema, template, edit, batch, owners, overwritten>>

\* deleteRepit
DeleteRepit ==
  /\ repit # Missing
  /\ repit' = Missing /\ owners' = Missing
  /\ UNCHANGED <<schema, template, edit, batch, overwritten>>

----
(* The catalogue, and the migration that adds the columns. *)

\* A template is published anew: its composition, if it has one, is stamped with
\* the version it gets.
PublishTemplate(t) ==
  /\ template[t].version < MaxVersion
  /\ LET next == template[t].version + 1
         layer == [type |-> "photo", id |-> "own", zIndex |-> 0, opacity |-> 1]
     IN \E composition \in {Missing, [template |-> t, version |-> next, layers |-> <<layer>>]} :
          template' = [template EXCEPT ![t] = [version |-> next, composition |-> composition]]
  /\ UNCHANGED <<schema, repit, edit, batch, owners, overwritten>>

MigrateSchema ==
  /\ schema = "legacy"
  /\ schema' = "current"
  /\ UNCHANGED <<template, repit, edit, batch, owners, overwritten>>

----
(* The backfill script. *)

\* buildMinimalRepitComposition: a photo under a music widget.
Minimal(row) ==
  [template |-> row.template, version |-> row.version,
   layers |-> <<[type |-> "photo", id |-> "own", zIndex |-> 0, opacity |-> 1],
                [type |-> "musicWidget", id |-> "own", zIndex |-> 1, opacity |-> 1]>>]

\* Mutant of NeedsComposition: every row gets one.
AnyRow(row) == TRUE

\* buildRepitCompositionBackfillPayload answers null for a row whose composition
\* is one.
NeedsComposition(row) == Sanitize(row.composition, row.template, row.version) = Missing

\* The script reads a batch of rows, of which it passes over those with a
\* composition.
ReadBatchOfRepits ==
  /\ schema = "current" /\ repit # Missing /\ batch = Missing
  /\ NeedsComposition(repit)
  /\ batch' = repit
  /\ UNCHANGED <<schema, template, repit, edit, owners, overwritten>>

\* The row it read gets the template's own composition, for the version that
\* has now, or a minimal one, and is saved whole: it is inserted again when the
\* owner deleted it meanwhile.
SaveBackfilled ==
  LET t == template[batch.template]
      given == Sanitize(t.composition, batch.template, t.version)
      clean == IF given # Missing THEN given ELSE Minimal(batch)
  IN /\ batch # Missing
     /\ repit' = RepitRow(batch.template, batch.version, clean, clean.version # batch.version)
     /\ batch' = Missing
     /\ overwritten' = (overwritten \/ batch # repit)
     /\ UNCHANGED <<schema, template, edit, owners>>

----
CompositionInit ==
  /\ schema \in {"legacy", "current"}
  /\ template = [t \in Template |-> [version |-> 1, composition |-> Missing]]
  /\ repit = Missing /\ edit = Missing /\ batch = Missing
  /\ owners = Missing /\ overwritten = FALSE

CompositionNext ==
  \/ \E withComposition \in BOOLEAN : \E body \in Body(withComposition) :
       CreateRepit(body) \/ SaveEdit(body)
  \/ UpdateRepit \/ RefuseEdit \/ DeleteRepit \/ MigrateSchema
  \/ \E t \in Template : UpdateLegacy(t) \/ PublishTemplate(t)
  \/ ReadBatchOfRepits \/ SaveBackfilled

CompositionSpec == CompositionInit /\ [][CompositionNext]_compositionVars

----
CompositionTypeOK ==
  /\ schema \in {"legacy", "current"}
  /\ template \in [Template -> [version: Version, composition: Composition \cup {Missing}]]
  /\ {repit, edit, batch} \subseteq StoredRow \cup {Missing}
  /\ owners \in Composition \cup {Missing} /\ overwritten \in BOOLEAN

\* What a Repit shows can be saved back, and stays what it was: the normalisation
\* of a read and the checks of a write agree on every row, but for those whose
\* template or version was changed without their composition, or that were
\* backfilled for another version than their own. And the composition its owner
\* saved is the one a Repit shows: the script fills only what is empty, unless it
\* saved a row it had read before its owner did.
ShownSavesBack ==
  repit # Missing =>
    LET shown == ShownRepit(repit)
    IN /\ shown.composition # Missing /\ ~repit.mixed =>
            /\ shown.composition.template = repit.template
            /\ shown.composition.version = repit.version
            /\ Sanitize(shown.composition, repit.template, repit.version) = shown.composition
       /\ owners # Missing /\ ~overwritten => shown.composition = owners
====
