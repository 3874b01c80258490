-------------------------- MODULE TemplatePublishing --------------------------
(* One template, from its creation to the catalogue that users see:            *)
(* admin-templates.service.ts, and templates.service.ts, which lists the       *)
(* templates that are published and active.                                    *)
(*                                                                             *)
(* Users see the row of the template.  Editors work on a draft, a second row   *)
(* that is based on a version of the first; publishing copies the draft over   *)
(* the row and deletes it.  Every operation that moves the row appends a copy  *)
(* of it to the history, from which a rollback fills a new draft.              *)
(*                                                                             *)
(* Every operation is a transaction that locks the template and then its       *)
(* draft, and is one step; creating a template is not, since there is no row   *)
(* to lock: its check and its save are two steps.                              *)
(*                                                                             *)
(* What an editor fills in is a form: a content, whether the template is       *)
(* offered, and its certification.  Whether a content has what publication     *)
(* requires of it (a composition, a preview) is a property of the content.     *)
(* The composition carries the number of the version it was made for: its      *)
(* stamp.  Left out: the draft's revision and author, which nothing reads, and *)
(* content that validation refuses.                                            *)
EXTENDS Integers

CONSTANTS
    Content,     \* what a template may look like
    Complete,    \* the contents that have a composition and a preview
    Input,       \* bound on the forms that are filled in
    Creator,     \* requests that create the template
    MaxVersion   \* bound on the version's number

VARIABLES
    live,        \* the row of templates, status "none" before it exists
    draft,       \* the row of template_drafts, based on version 0 when there is none
    versions,    \* template_versions: the copies of the row that were filed
    creating,    \* createTemplate() requests
    certified    \* the levels that certifyTemplate() has given so far

templateVars == <<live, draft, versions, creating, certified>>

-------------------------------------------------------------------------------
(* State                                                                       *)

Elevated == {"approved", "certified"}
Certification == Elevated \cup {"none", "product-review", "published"}

Form == [content : Content, active : BOOLEAN, cert : Certification]
Row == [status : {"draft", "published", "archived"},
        version : Nat, form : Form, stamp : Nat]
DraftRow == [basedOn : Nat \ {0}, form : Form, stamp : Nat]

NotCreated == [status |-> "none", version |-> 0]
NoDraft == [basedOn |-> 0]

Created == live.status # "none"
HasDraft == draft.basedOn # 0

\* materializeDraft(): the draft if there is one, or else the row; its
\* composition is stamped for the version that is to come.
Effective == IF HasDraft THEN draft.form ELSE live.form

DraftFor(f) == [basedOn |-> live.version, form |-> f, stamp |-> live.version + 1]

\* A draft of an older version is refused.
Current == HasDraft => draft.basedOn = live.version

-------------------------------------------------------------------------------
(* Writing                                                                     *)

\* Mutant: an editor's certification is taken as it comes.
TrustedLevel(next, current) == next

\* sanitizeCertificationForWritePath(): the write path cannot raise a template to
\* an elevated level, and falls back on the level it had.
WrittenLevel(next, current) ==
    IF next \notin Elevated THEN next
    ELSE IF current \in Elevated \cup {"none"} THEN "product-review" ELSE current

CreateCheck(c) ==
    /\ creating[c] = "idle"
    /\ ~Created
    /\ creating' = [creating EXCEPT ![c] = "checked"]
    /\ UNCHANGED <<live, draft, versions, certified>>

\* Mutant: the first version is not filed.
CreateSaveUnfiled(c, f) ==
    /\ creating[c] = "checked"
    /\ live' = [status |-> "draft", version |-> 1, stamp |-> 1,
                form |-> [f EXCEPT !.cert = WrittenLevel(@, "none")]]
    /\ draft' = [basedOn |-> 1, form |-> live'.form, stamp |-> 1]
    /\ creating' = [creating EXCEPT ![c] = "saved"]
    /\ UNCHANGED <<versions, certified>>

\* save() inserts the row, or writes over the row that another request has
\* created since the check.
CreateSave(c, f) ==
    /\ creating[c] = "checked"
    /\ live' = [status |-> "draft", version |-> 1, stamp |-> 1,
                form |-> [f EXCEPT !.cert = WrittenLevel(@, "none")]]
    /\ draft' = [basedOn |-> 1, form |-> live'.form, stamp |-> 1]
    /\ versions' = versions \cup {live'}
    /\ creating' = [creating EXCEPT ![c] = "saved"]
    /\ UNCHANGED certified

CreateFails(c) ==
    /\ creating[c] = "checked"
    /\ creating' = [creating EXCEPT ![c] = "idle"]
    /\ UNCHANGED <<live, draft, versions, certified>>

\* A request that says nothing about the certification leaves it as it is.
Update(f) ==
    /\ Created
    /\ Current
    /\ \E level \in {Effective.cert, WrittenLevel(f.cert, Effective.cert)} :
          draft' = DraftFor([f EXCEPT !.cert = level])
    /\ UNCHANGED <<live, versions, creating, certified>>

Certify(level) ==
    /\ Created
    /\ HasDraft
    /\ Current
    /\ draft' = DraftFor([draft.form EXCEPT !.cert = level])
    /\ certified' = certified \cup {level}
    /\ UNCHANGED <<live, versions, creating>>

\* A rollback restores what the version showed, its certification included, and
\* leaves the row and its active flag alone.
RollbackTo(v) ==
    /\ Created
    /\ Current
    /\ v \in versions
    /\ draft' = DraftFor([v.form EXCEPT !.active = live.form.active])
    /\ UNCHANGED <<live, versions, creating, certified>>

-------------------------------------------------------------------------------
(* Publishing                                                                  *)

\* getPublicationReadiness()
Ready(f) ==
    /\ f.active
    /\ f.content \in Complete
    /\ f.cert \in Elevated \cup {"published"}

\* Mutants: the composition is published as it stands in the draft; the number
\* of the version is kept.
PublishUnstamped ==
    /\ HasDraft
    /\ Current
    /\ Ready(draft.form)
    /\ live.version < MaxVersion
    /\ live' = [status |-> "published", version |-> live.version + 1,
                form |-> draft.form, stamp |-> draft.stamp]
    /\ draft' = NoDraft
    /\ versions' = versions \cup {live'}
    /\ UNCHANGED <<creating, certified>>

PublishSameNumber ==
    /\ HasDraft
    /\ Current
    /\ Ready(draft.form)
    /\ live.version < MaxVersion
    /\ live' = [status |-> "published", version |-> live.version,
                form |-> draft.form, stamp |-> live.version]
    /\ draft' = NoDraft
    /\ versions' = versions \cup {live'}
    /\ UNCHANGED <<creating, certified>>

Publish ==
    /\ HasDraft
    /\ Current
    /\ Ready(draft.form)
    /\ live.version < MaxVersion
    /\ live' = [status |-> "published", version |-> live.version + 1,
                form |-> draft.form, stamp |-> live.version + 1]
    /\ draft' = NoDraft
    /\ versions' = versions \cup {live'}
    /\ UNCHANGED <<creating, certified>>

\* Mutant: the draft stays based on the version that was archived.
ArchiveAlone ==
    /\ Created
    /\ live.version < MaxVersion
    /\ live' = [live EXCEPT !.status = "archived", !.form.active = FALSE,
                            !.version = @ + 1]
    /\ versions' = versions \cup {live'}
    /\ UNCHANGED <<draft, creating, certified>>

\* Archiving is a version of its own, which takes the draft along.
Archive ==
    /\ Created
    /\ live.version < MaxVersion
    /\ live' = [live EXCEPT !.status = "archived", !.form.active = FALSE,
                            !.version = @ + 1]
    /\ draft' = IF HasDraft THEN [draft EXCEPT !.basedOn = live'.version] ELSE draft
    /\ versions' = versions \cup {live'}
    /\ UNCHANGED <<creating, certified>>

-------------------------------------------------------------------------------
TemplateInit ==
    /\ live = NotCreated
    /\ draft = NoDraft
    /\ versions = {}
    /\ creating = [c \in Creator |-> "idle"]
    /\ certified = {}

TemplateNext ==
    \/ \E c \in Creator :
          \/ CreateCheck(c) \/ CreateFails(c)
          \/ \E f \in Form \cap Input : CreateSave(c, f)
    \/ \E f \in Form \cap Input : Update(f)
    \/ \E level \in Elevated : Certify(level)
    \/ \E v \in versions : RollbackTo(v)
    \/ Publish \/ Archive

TemplateSpec == TemplateInit /\ [][TemplateNext]_templateVars

-------------------------------------------------------------------------------
(* Properties                                                                  *)

\* Every row holds values of its columns' types.
TemplateTypeOK ==
    /\ live \in Row \cup {NotCreated}
    /\ draft \in DraftRow \cup {NoDraft}
    /\ versions \subseteq Row
    /\ creating \in [Creator -> {"idle", "checked", "saved"}]
    /\ certified \subseteq Elevated

\* A pending draft is always based on the current version of its template: the
\* refusals "this draft is based on an older published version" never strike,
\* and no editor's work is stranded, not even when the template is archived
\* under the draft or created twice.
DraftIsCurrent == HasDraft => Created /\ draft.basedOn = live.version

\* The history holds a copy of the row that users see, so that a later rollback
\* can restore it; and unless two requests have created the template at once, a
\* number names one version, so that a rollback, which looks a version up by its
\* number alone, restores the one that was asked for.
LiveIsOnFile == Created => live \in versions
CreatedOnce ==
    \A c, d \in Creator : creating[c] = "saved" /\ creating[d] = "saved" => c = d
NumberNamesOne ==
    CreatedOnce =>
        \A v, w \in versions : v.version = w.version => v = w
HistoryIsTrue == LiveIsOnFile /\ NumberNamesOne

\* No content is approved or certified, in the row, in the draft or in the
\* history, unless certifyTemplate() gave that level at some time: creating,
\* editing, rolling back and publishing never raise it by themselves.
LevelsAreGiven ==
    LET Given(f) == f.cert \in Elevated => f.cert \in certified
    IN  /\ Created => Given(live.form)
        /\ HasDraft => Given(draft.form)
        /\ \A v \in versions : Given(v.form)

\* What is in the catalogue is complete, offered and certified, and its
\* composition bears the number of the version it is part of, although the draft
\* may have been stamped before its template was archived.
CatalogueIsReady ==
    live.status = "published" => Ready(live.form) /\ live.stamp = live.version

\* Row, draft and history of a template fit each other, however creations,
\* archivings, publications and rollbacks follow one another.
VersionsFit == DraftIsCurrent /\ HistoryIsTrue

\* What users find has been certified, and what is certified was so by a
\* certifier, whatever detour it took.
CertificationIsTrue == LevelsAreGiven /\ CatalogueIsReady

\* Editing, certifying and rolling back never reach what users see: a published
\* template changes by being published again, under the next number and with
\* what the draft said, or leaves the catalogue.
EditorsStayInTheirDraft ==
    [][ live.status = "published" /\ live' # live /\ live'.status = "published"
            => /\ live'.version = live.version + 1
               /\ HasDraft /\ live'.form = draft.form
               /\ ~HasDraft' ]_templateVars

===============================================================================
