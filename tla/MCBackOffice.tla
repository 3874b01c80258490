----------------------------- MODULE MCBackOffice -----------------------------
(* The administrators' desks, each a component of its own that shares no state *)
(* with the others: support cases, templates, and reports about Repits.  One   *)
(* run visits each of them from its own initial state, for the sum and not the *)
(* product of their states.  Templates have two: one that is created by one    *)
(* request and lives long, and one that two requests create at once.           *)
EXTENDS SupportCases, TemplatePublishing, RepitModeration, TLC

CONSTANTS
    m1, n1, k1, t1, c1, c2, c3,
    x1, x2, y1, y2, z1, z2   \* the members of the symmetric sets of every desk

VARIABLE desk   \* the component this behaviour is about

Forms == {[content |-> c1, active |-> TRUE, cert |-> "certified"],
          [content |-> c2, active |-> TRUE, cert |-> "published"],
          [content |-> c3, active |-> TRUE, cert |-> "none"]}

DeskInit ==
    /\ Init
    /\ TemplateInit
    /\ ModerationInit
    /\ desk \in {"support", "templates", "creations", "moderation"}

DeskNext ==
    /\ \/ /\ desk = "support"
          /\ Next
          /\ UNCHANGED <<templateVars, moderationVars>>
       \/ /\ desk = "templates"
          /\ TemplateNext
          /\ \A c, d \in Creator : c = d \/ "idle" \in {creating'[c], creating'[d]}
          /\ UNCHANGED <<vars, moderationVars>>
       \/ /\ desk = "creations"
          /\ TemplateNext
          /\ live'.version < MaxVersion
          /\ UNCHANGED <<vars, moderationVars>>
       \/ /\ desk = "moderation"
          /\ ModerationNext
          /\ UNCHANGED <<vars, templateVars>>
    /\ UNCHANGED desk

DeskSpec == DeskInit /\ [][DeskNext]_<<vars, templateVars, moderationVars, desk>>

\* The rows and requests of every desk hold values of their columns' types.
DeskTypeOK == TypeOK /\ TemplateTypeOK /\ ModerationTypeOK

Symmetry ==
    Permutations({x1, x2}) \cup Permutations({y1, y2}) \cup Permutations({z1, z2})

===============================================================================
