---------------------------- MODULE ExchangeProofs ----------------------------
(* What goes in and out of the API one thing at a time, for all values of the  *)
(* constants.  The components share no state, so each has an inductive         *)
(* invariant of its own; the first section is about the specification of the   *)
(* export alone, and the last states what is promised for the specification of *)
(* all of them.                                                                *)
EXTENDS MCExchange, FiniteSetTheorems, SequenceTheorems, FunctionTheorems,
        WellFoundedInduction, TLAPS

-------------------------------------------------------------------------------
(* Exports: types                                                              *)

\* A run that saves an entity, and one that goes on, keep their types.
LEMMA SaveType ==
    ASSUME TypeOK, NEW x \in Export, NEW e \in Row, NEW pc \in RunPc,
           SaveEntity(x, e, pc)
    PROVE  row' \in [Export -> Row] /\ run' \in [Export -> Run]
<1>1. [run[x] EXCEPT !.held = e, !.pc = pc] \in Run
  BY DEF TypeOK, Run
<1>2. run' = [run EXCEPT ![x] = [run[x] EXCEPT !.held = e, !.pc = pc]]
  BY DEF SaveEntity, TypeOK
<1> QED
  BY <1>1, <1>2 DEF SaveEntity, TypeOK

LEMMA GotoType ==
    ASSUME TypeOK, NEW x \in Export, NEW pc \in RunPc, Goto(x, pc)
    PROVE  row' \in [Export -> Row] /\ run' \in [Export -> Run]
<1>1. [run[x] EXCEPT !.pc = pc] \in Run
  BY DEF TypeOK, Run
<1>2. run' = [run EXCEPT ![x] = [run[x] EXCEPT !.pc = pc]]
  BY DEF Goto, TypeOK
<1> QED
  BY <1>1, <1>2 DEF Goto, TypeOK

\* The entities that runs save.
LEMMA EntityType ==
    ASSUME TypeOK, NEW x \in Export
    PROVE  /\ [NoRow EXCEPT !.status = "running"] \in Row
           /\ [run[x].held EXCEPT !.package = TRUE, !.token = TRUE,
                                  !.expires = TRUE] \in Row
           /\ [run[x].held EXCEPT !.status = "succeeded"] \in Row
           /\ [run[x].held EXCEPT
                 !.status = "retry_required",
                 !.package = @ /\ run[x].delivered,
                 !.token = @ /\ run[x].delivered,
                 !.expires = @ /\ run[x].delivered] \in Row
           /\ Used(x) \in Row
<1>1. [NoRow EXCEPT !.status = "running"] \in Row
  BY DEF NoRow, Row
<1>2. run[x].held \in Row /\ run[x].delivered \in BOOLEAN
  BY DEF TypeOK, Run
<1>3. \A h \in Row :
        /\ [h EXCEPT !.package = TRUE, !.token = TRUE, !.expires = TRUE] \in Row
        /\ [h EXCEPT !.status = "succeeded"] \in Row
        /\ [h EXCEPT !.downloaded = TRUE, !.token = FALSE, !.expires = FALSE,
                     !.package = FALSE] \in Row
  BY DEF Row
<1>4. \A h \in Row : \A a, b, c \in BOOLEAN :
        [h EXCEPT !.status = "retry_required", !.package = a, !.token = b,
                  !.expires = c] \in Row
  BY DEF Row
<1>5. [run[x].held EXCEPT
         !.status = "retry_required",
         !.package = @ /\ run[x].delivered,
         !.token = @ /\ run[x].delivered,
         !.expires = @ /\ run[x].delivered] \in Row
  BY <1>2, <1>4
<1>6. Used(x) \in Row
  BY <1>3 DEF Used, TypeOK
<1> QED
  BY <1>1, <1>2, <1>3, <1>5, <1>6

LEMMA TypeStep == TypeOK /\ [Next]_vars => TypeOK'
<1> SUFFICES ASSUME TypeOK, [Next]_vars PROVE TypeOK'
  OBVIOUS
<1>1. ASSUME NEW x \in Export, NewJob(x) \/ Assemble(x) \/ Finish(x) \/ GiveUp(x)
      PROVE  TypeOK'
  <2>1. row' \in [Export -> Row] /\ run' \in [Export -> Run]
    BY <1>1, EntityType, SaveType, GotoType
    DEF NewJob, Assemble, Finish, GiveUp, RunPc
  <2> QED
    BY <1>1, <2>1 DEF NewJob, Assemble, Finish, GiveUp, TypeOK
<1>2. ASSUME NEW x \in Export, Record(x) \/ Throws(x) \/ Dies(x)
      PROVE  TypeOK'
  <2>1. row' \in [Export -> Row] /\ run' \in [Export -> Run]
    BY <1>2, GotoType DEF Record, Throws, Dies, RunPc
  <2> QED
    BY <1>2, <2>1 DEF Record, Throws, Dies, TypeOK
<1>3. ASSUME NEW x \in Export, Mail(x)
      PROVE  TypeOK'
  <2>1. [run[x] EXCEPT !.pc = "finish", !.delivered = TRUE] \in Run
    BY DEF TypeOK, Run, RunPc
  <2>3. row' \in [Export -> Row] /\ run' \in [Export -> Run]
    BY <1>3, <2>1, GotoType DEF Mail, RunPc, TypeOK
  <2> QED
    BY <1>3, <2>3 DEF Mail, TypeOK
<1>4. ASSUME NEW x \in Export, Expire(x)
      PROVE  TypeOK'
  BY <1>4 DEF Expire, TypeOK
<1>5. ASSUME NEW x \in Export, NEW r \in Reader, Fetch(r, x)
      PROVE  TypeOK'
  BY <1>5 DEF Fetch, TypeOK, ReaderState
<1>6. ASSUME NEW r \in Reader, Take(r)
      PROVE  TypeOK'
  <2>1. reader[r].export \in Export
    BY <1>6 DEF Take, TypeOK
  <2>2. Used(reader[r].export) \in Row
    BY <2>1, EntityType
  <2>3. row' \in [Export -> Row]
    BY <1>6, <2>1, <2>2 DEF Take, TypeOK
  <2>4. served' \in [Export -> SUBSET Reader]
    BY <1>6, <2>1 DEF Take, TypeOK
  <2> QED
    BY <1>6, <2>3, <2>4 DEF Take, TypeOK, ReaderState, Away
<1>7. CASE Purge
  <2>1. \A h \in Row : [h EXCEPT !.token = FALSE, !.package = FALSE] \in Row
    BY DEF Row
  <2> QED
    BY <1>7, <2>1 DEF Purge, TypeOK
<1>8. CASE UNCHANGED vars
  BY <1>8 DEF vars, TypeOK
<1> QED
  BY <1>1, <1>2, <1>3, <1>4, <1>5, <1>6, <1>7, <1>8 DEF Next

\* Type correctness of rows, held entities and readers.
THEOREM TypeCorrect == Spec => []TypeOK
<1>1. Init => TypeOK
  BY DEF Init, TypeOK, NoRow, Row, Run, RunPc, ReaderState, Away
<1> QED
  BY <1>1, TypeStep, PTL DEF Spec

-------------------------------------------------------------------------------
(* Exports: expiry                                                             *)

\* The entity a run holds has an expiry with its package, as the row has.
ExpiryInv ==
    /\ PackageExpires
    /\ \A x \in Export : run[x].held.package => run[x].held.expires

LEMMA ExpiryStep == TypeOK /\ ExpiryInv /\ [Next]_vars => ExpiryInv'
<1> SUFFICES ASSUME TypeOK, ExpiryInv, [Next]_vars PROVE ExpiryInv'
  OBVIOUS
<1> USE DEF ExpiryInv, PackageExpires
<1>1. ASSUME NEW x \in Export, NEW e \in Row, NEW pc \in RunPc,
             SaveEntity(x, e, pc), e.package => e.expires
      PROVE  ExpiryInv'
  BY <1>1 DEF SaveEntity, TypeOK, Run
<1>2. ASSUME NEW x \in Export, NEW pc \in RunPc, Goto(x, pc)
      PROVE  ExpiryInv'
  BY <1>2 DEF Goto, TypeOK, Run
<1>3. ASSUME NEW x \in Export, NewJob(x) \/ Assemble(x) \/ Finish(x) \/ GiveUp(x)
      PROVE  ExpiryInv'
  <2>1. run[x].held \in Row /\ (run[x].held.package => run[x].held.expires)
    BY DEF TypeOK, Run
  <2>2. CASE NewJob(x)
    BY <1>1, <2>2, EntityType DEF NewJob, NoRow, RunPc
  <2>3. CASE Assemble(x)
    <3>1. LET e == [run[x].held EXCEPT !.package = TRUE, !.token = TRUE,
                                       !.expires = TRUE]
          IN  e \in Row /\ e.expires
      BY <2>1 DEF Row
    <3> QED
      BY <1>1, <2>3, <3>1 DEF Assemble, RunPc
  <2>4. CASE Finish(x)
    <3>1. LET e == [run[x].held EXCEPT !.status = "succeeded"]
          IN  e \in Row /\ (e.package => e.expires)
      BY <2>1 DEF Row
    <3> QED
      BY <1>1, <2>4, <3>1 DEF Finish, RunPc
  <2>5. CASE GiveUp(x)
    <3> DEFINE e == [run[x].held EXCEPT
                       !.status = "retry_required",
                       !.package = @ /\ run[x].delivered,
                       !.token = @ /\ run[x].delivered,
                       !.expires = @ /\ run[x].delivered]
    <3>1. e \in Row
      BY EntityType
    <3>2. e.package => e.expires
      BY <2>1 DEF Row
    <3>3. SaveEntity(x, e, "over") \/ Goto(x, "over")
      BY <2>5 DEF GiveUp
    <3> HIDE DEF e
    <3> QED
      BY <1>1, <1>2, <3>1, <3>2, <3>3 DEF RunPc
  <2> QED
    BY <1>3, <2>2, <2>3, <2>4, <2>5
<1>4. ASSUME NEW x \in Export, Record(x) \/ Throws(x) \/ Dies(x)
      PROVE  ExpiryInv'
  BY <1>2, <1>4 DEF Record, Throws, Dies, RunPc
<1>5. ASSUME NEW x \in Export, Mail(x)
      PROVE  ExpiryInv'
  <2>1. CASE Goto(x, "failing")
    BY <1>2, <2>1 DEF RunPc
  <2>2. CASE ~Goto(x, "failing")
    <3>1. [run[x] EXCEPT !.pc = "finish", !.delivered = TRUE].held = run[x].held
      BY DEF TypeOK, Run
    <3>2. row' = row /\ run' = [run EXCEPT ![x] = [run[x] EXCEPT !.pc = "finish",
                                                       !.delivered = TRUE]]
      BY <1>5, <2>2 DEF Mail
    <3> QED
      BY <3>1, <3>2 DEF TypeOK
  <2> QED
    BY <2>1, <2>2
<1>6. CASE UNCHANGED <<row, run>>
  BY <1>6
<1>7. ASSUME NEW r \in Reader, Take(r)
      PROVE  ExpiryInv'
  <2>1. reader[r].export \in Export
    BY <1>7 DEF Take, TypeOK
  <2>2. ~Used(reader[r].export).package
    BY <2>1 DEF Used, TypeOK, Row
  <2> QED
    BY <1>7, <2>1, <2>2 DEF Take, TypeOK
<1>8. CASE Purge
  <2>1. \A x \in Export :
          LET e == [row[x] EXCEPT !.token = FALSE, !.package = FALSE]
          IN  ~e.package
    BY DEF TypeOK, Row
  <2> QED
    BY <1>8, <2>1 DEF Purge, TypeOK
<1> QED
  BY <1>3, <1>4, <1>5, <1>6, <1>7, <1>8 DEF Next, vars, Expire, Fetch

\* No row ever holds a package that the purge would not find.
THEOREM ExpiryCorrect == Spec => []PackageExpires
<1>1. Init => ExpiryInv
  BY DEF Init, NoRow, ExpiryInv, PackageExpires
<1>2. ExpiryInv => PackageExpires
  BY DEF ExpiryInv
<1> QED
  BY <1>1, <1>2, ExpiryStep, TypeCorrect, PTL DEF Spec

-------------------------------------------------------------------------------
(* Exports: single use                                                         *)

\* A link that is opened late is opened when its run saves no more: once its
\* package is served the row says so for good.
UseInv ==
    /\ \A r \in Reader :
         reader[r].pc = "take" /\ reader[r].export \notin Prompt
         => run[reader[r].export].pc = "over"
    /\ \A x \in Export \ Prompt :
         served[x] # {} => run[x].pc = "over" /\ row[x].downloaded
    /\ SettledSingleUse

LEMMA UseStep == TypeOK /\ UseInv /\ [Next]_vars => UseInv'
<1> SUFFICES ASSUME TypeOK, UseInv, [Next]_vars PROVE UseInv'
  OBVIOUS
<1> USE DEF UseInv, SettledSingleUse
<1>1. ASSUME NEW x \in Export, run[x].pc # "over", UNCHANGED <<reader, served>>,
             \A y \in Export \ {x} : row'[y] = row[y] /\ run'[y] = run[y]
      PROVE  UseInv'
  BY <1>1 DEF TypeOK
<1>2. ASSUME NEW x \in Export,
             \/ NewJob(x) \/ Assemble(x) \/ Mail(x) \/ Finish(x) \/ Record(x)
             \/ Throws(x) \/ GiveUp(x) \/ Dies(x)
      PROVE  UseInv'
  <2>1. run[x].pc # "over" /\ UNCHANGED <<reader, served>>
    BY <1>2 DEF NewJob, Assemble, Mail, Finish, Record, Throws, GiveUp, Dies
  <2>2. \A y \in Export \ {x} : row'[y] = row[y] /\ run'[y] = run[y]
    BY <1>2 DEF NewJob, Assemble, Mail, Finish, Record, Throws, GiveUp, Dies,
                SaveEntity, Goto, TypeOK
  <2> QED
    BY <1>1, <2>1, <2>2
<1>3. CASE UNCHANGED <<row, run, reader, served>>
  BY <1>3
<1>4. ASSUME NEW x \in Export, NEW r \in Reader, Fetch(r, x)
      PROVE  UseInv'
  BY <1>4 DEF Fetch, TypeOK, ReaderState
<1>5. ASSUME NEW r \in Reader, Take(r)
      PROVE  UseInv'
  <2> DEFINE x == reader[r].export
  <2>1. x \in Export
    BY <1>5 DEF Take, TypeOK
  <2>2. Used(x).downloaded
    BY <2>1 DEF Used, TypeOK, Row
  <2>3. \A s \in Reader : reader'[s].pc = "take" => reader'[s] = reader[s]
    BY <1>5 DEF Take, Away, TypeOK
  <2>4. \A y \in Export \ Prompt : served'[y] # {} =>
          /\ run[y].pc = "over" /\ row'[y].downloaded
          /\ \A s, t \in served'[y] : s = t
    BY <1>5, <2>1, <2>2 DEF Take, TypeOK
  <2> QED
    BY <1>5, <2>3, <2>4 DEF Take
<1>6. CASE Purge
  <2>1. \A x \in Export :
          LET e == [row[x] EXCEPT !.token = FALSE, !.package = FALSE]
          IN  e.downloaded = row[x].downloaded
    BY DEF TypeOK, Row
  <2> QED
    BY <1>6, <2>1 DEF Purge, TypeOK
<1> QED
  BY <1>2, <1>3, <1>4, <1>5, <1>6 DEF Next, vars, Expire

\* Unless its link is opened before its run is over, a package is handed out
\* once, for any number of concurrent downloads.
THEOREM UseCorrect == Spec => []SettledSingleUse
<1>1. Init => UseInv
  BY DEF Init, Away, UseInv, SettledSingleUse
<1>2. UseInv => SettledSingleUse
  BY DEF UseInv
<1> QED
  BY <1>1, <1>2, UseStep, TypeCorrect, PTL DEF Spec

-------------------------------------------------------------------------------
(* The settings of a provider's flow                                           *)

\* What a flow has got through: the checks of the address, and of Apple's page.
AddressPassed ==
    /\ HasAccess(setup)
    /\ flow.provider = "spotify" => SpotifyConfigured /\ RedirectValid(setup) /\ KeyUsable(setup)
    /\ flow.provider = "apple-music" => AppleIdsSet(setup) /\ OriginAccepted(setup)

PagePassed == flow.provider = "apple-music" => TokenVerifies(setup)

FlowFits ==
    /\ flow.at \in {"asked", "agreed", "connected"} => AddressPassed
    /\ flow.at = "asked" => flow.provider = "apple-music"
    /\ flow.at \in {"agreed", "connected"} => PagePassed
    /\ flow.at # "refused" => flow.where = "nowhere" /\ flow.why = "nothing"

ConfigInv == ConfigTypeOK /\ FlowFits /\ DiagnosticsAreTrue

Flow == [provider: {"spotify", "apple-music"},
         at: {"new", "asked", "agreed", "connected", "refused"},
         where: {"nowhere", "start", "page", "callback"},
         why: {"nothing", "settings", "access", "key", "provider"}]

LEMMA ConfigInvInit == ConfigInit => ConfigInv
<1> SUFFICES ASSUME ConfigInit PROVE ConfigInv
  OBVIOUS
<1>1. setup \in SetupShape
  BY DEF ConfigInit, SetupsOf
<1>2. flow \in Flow /\ flow.at = "new" /\ flow.where = "nowhere" /\ flow.why = "nothing"
  BY DEF ConfigInit, Flow
<1> QED
  BY <1>1, <1>2 DEF ConfigInv, ConfigTypeOK, Flow, FlowFits, DiagnosticsAreTrue

\* The fields of a flow that is refused, and of one that goes on.
LEMMA RefusedFields ==
    ASSUME flow \in Flow, NEW w \in {"start", "page", "callback"},
           NEW y \in {"settings", "access", "key", "provider"}, Refuse(w, y)
    PROVE  /\ flow' \in Flow /\ flow'.provider = flow.provider
           /\ flow'.at = "refused" /\ flow'.where = w /\ flow'.why = y
  BY DEF Refuse, Flow

LEMMA OnwardFields ==
    ASSUME flow \in Flow, NEW s \in {"asked", "agreed", "connected"}, GoTo(s)
    PROVE  /\ flow' \in Flow /\ flow'.provider = flow.provider
           /\ flow'.at = s /\ flow'.where = flow.where /\ flow'.why = flow.why
  BY DEF GoTo, Flow

\* A refusal is right when it names a setting that the diagnostics miss too.
LEMMA RefusedFits ==
    ASSUME ConfigInv, setup' = setup, NEW w \in {"start", "page", "callback"},
           NEW y \in {"settings", "access", "key", "provider"}, Refuse(w, y),
           y = "settings" => ~Ready(setup, flow.provider),
           w = "callback" /\ y \in {"settings", "access", "key"}
             => flow.provider = "apple-music" /\ y = "key" /\ ~KeyUsable(setup)
    PROVE  ConfigInv'
<1>1. flow \in Flow /\ setup \in SetupShape
  BY DEF ConfigInv, ConfigTypeOK, Flow
<1>2. /\ flow' \in Flow /\ flow'.provider = flow.provider
      /\ flow'.at = "refused" /\ flow'.where = w /\ flow'.why = y
  BY <1>1, RefusedFields
<1>3. Ready(setup, flow.provider)' <=> Ready(setup, flow.provider)
  BY <1>2 DEF Ready, SpotifyReady, AppleReady, RedirectValid, AppleIdsSet, TokenVerifies
<1>4. KeyUsable(setup)' <=> KeyUsable(setup)
  BY DEF KeyUsable
<1>5. DiagnosticsAreTrue'
  BY <1>2, <1>3, <1>4 DEF DiagnosticsAreTrue
<1> QED
  BY <1>1, <1>2, <1>5 DEF ConfigInv, ConfigTypeOK, Flow, FlowFits

LEMMA OnwardFits ==
    ASSUME ConfigInv, setup' = setup, flow.at # "refused",
           NEW s \in {"asked", "agreed", "connected"}, GoTo(s),
           AddressPassed, s = "asked" => flow.provider = "apple-music",
           s # "asked" => PagePassed,
           s = "connected" => Ready(setup, flow.provider) \/ ToleratedInDevelopment
    PROVE  ConfigInv'
<1>1. flow \in Flow /\ setup \in SetupShape
  BY DEF ConfigInv, ConfigTypeOK, Flow
<1>2. /\ flow' \in Flow /\ flow'.provider = flow.provider
      /\ flow'.at = s /\ flow'.where = flow.where /\ flow'.why = flow.why
  BY <1>1, OnwardFields
<1>3. flow.where = "nowhere" /\ flow.why = "nothing"
  BY DEF ConfigInv, FlowFits
<1>4. AddressPassed' /\ (s # "asked" => PagePassed')
  BY <1>2 DEF AddressPassed, PagePassed, HasAccess, SpotifyConfigured, RedirectValid, KeyUsable,
         AppleIdsSet, OriginAccepted, OriginUsed, TokenVerifies
<1>5. s = "connected" => (Ready(setup, flow.provider) \/ ToleratedInDevelopment)'
  BY <1>2 DEF Ready, SpotifyReady, AppleReady, RedirectValid, AppleIdsSet, TokenVerifies,
         ToleratedInDevelopment
<1>6. DiagnosticsAreTrue'
  BY <1>2, <1>3, <1>5 DEF DiagnosticsAreTrue
<1> QED
  BY <1>1, <1>2, <1>3, <1>4, <1>6 DEF ConfigInv, ConfigTypeOK, Flow, FlowFits

\* Apple's flow ends well where the diagnostics are ready, or in development.
LEMMA AppleConnects ==
    ASSUME setup \in SetupShape, flow.provider = "apple-music", AddressPassed, PagePassed
    PROVE  Ready(setup, flow.provider) \/ ToleratedInDevelopment
  BY DEF SetupShape, OriginShape, AddressPassed, PagePassed, OriginAccepted, OriginUsed, Ready, AppleReady,
         TokenVerifies, ToleratedInDevelopment

LEMMA ConfigInvStep == ConfigInv /\ [ConfigNext]_configVars => ConfigInv'
<1> SUFFICES ASSUME ConfigInv, [ConfigNext]_configVars PROVE ConfigInv'
  OBVIOUS
<1>0. setup \in SetupShape /\ flow \in Flow
  BY DEF ConfigInv, ConfigTypeOK, Flow
<1>1. CASE BuildSpotifyAuthUrl
  BY <1>1, RefusedFits, OnwardFits
     DEF BuildSpotifyAuthUrl, AddressPassed, PagePassed, Ready, SpotifyReady, SpotifyConfigured, RedirectValid
<1>2. CASE HandleSpotifyCallback
  <2>1. AddressPassed /\ SpotifyConfigured /\ RedirectValid(setup) /\ HasAccess(setup) /\ KeyUsable(setup)
        /\ PagePassed /\ Ready(setup, flow.provider)
    BY <1>2 DEF HandleSpotifyCallback, ConfigInv, FlowFits, AddressPassed, Ready, SpotifyReady,
           SpotifyConfigured
  <2> QED
    BY <1>2, <2>1, RefusedFits, OnwardFits DEF HandleSpotifyCallback
<1>3. CASE BuildAppleMusicAuthUrl
  <2>1. ~OriginAccepted(setup) => ~Ready(setup, flow.provider)
    BY <1>3 DEF BuildAppleMusicAuthUrl, OriginAccepted, OriginUsed, Ready, AppleReady
  <2>2. ~AppleIdsSet(setup) => ~Ready(setup, flow.provider)
    BY <1>3 DEF BuildAppleMusicAuthUrl, Ready, AppleReady
  <2> QED
    BY <1>3, <2>1, <2>2, RefusedFits, OnwardFits DEF BuildAppleMusicAuthUrl, AddressPassed
<1>4. CASE AppleMusicAuthorize
  <2>1. AddressPassed /\ flow.provider = "apple-music" /\ HasAccess(setup)
    BY <1>4 DEF AppleMusicAuthorize, ConfigInv, FlowFits, AddressPassed
  <2>2. ~TokenVerifies(setup) => ~Ready(setup, flow.provider)
    BY <2>1 DEF Ready, AppleReady
  <2> QED
    BY <1>4, <2>1, <2>2, RefusedFits, OnwardFits DEF AppleMusicAuthorize, PagePassed
<1>5. CASE AppleMusicCallback
  <2>1. AddressPassed /\ HasAccess(setup) /\ PagePassed
    BY <1>5 DEF AppleMusicCallback, ConfigInv, FlowFits, AddressPassed
  <2>2. Ready(setup, flow.provider) \/ ToleratedInDevelopment
    BY <1>0, <1>5, <2>1, AppleConnects DEF AppleMusicCallback
  <2> QED
    BY <1>5, <2>1, <2>2, RefusedFits, OnwardFits DEF AppleMusicCallback
<1>6. CASE UNCHANGED configVars
  BY <1>6 DEF configVars, ConfigInv, ConfigTypeOK, FlowFits, DiagnosticsAreTrue, AddressPassed, PagePassed,
         HasAccess, SpotifyConfigured, RedirectValid, KeyUsable, AppleIdsSet, OriginAccepted, OriginUsed,
         TokenVerifies, Ready, SpotifyReady, AppleReady, ToleratedInDevelopment
<1> QED
  BY <1>1, <1>2, <1>3, <1>4, <1>5, <1>6 DEF ConfigNext

-------------------------------------------------------------------------------
(* Imports                                                                     *)

Link == SpotifyLink \cup AppleLink \cup OtherLink

\* What a short link leads to, and what its preparation makes of a link.
Full(l) == IF IsShort(l) THEN [l EXCEPT !.short = FALSE] ELSE l
Meant == Normalized(Full(link))
RouteOf(l) == IF LinkType(l) = "track" THEN "track" ELSE "collection"

Unrouted == {"prepare", "short", "search", "recent token", "recent"}
OfPlaylists == {"library", "user token", "user", "later token", "later user", "judge"}
OfApple == {"apple token", "apple library", "apple"}
Asking == OfPlaylists \cup OfApple \cup {"application"}

\* What is asked for at a step, of which kind it is and for whom.
StepFits(s) ==
    /\ s \in Asking \cup {"prepare again", "lookup"} =>
         link.host \in {"spotify", "apple"} /\ LinkType(link) # "unknown"
    /\ s \in Asking => HasId(Meant) /\ (LinkType(link) = "track" <=> LinkType(Meant) = "track")
    /\ s \in OfPlaylists => link.host = "spotify" /\ LinkType(link) = "playlist"
    /\ s = "application" => link.host = "spotify"
    /\ s \in OfApple => link.host = "apple"
    /\ s \in {"apple token", "apple library"} => IsPersonal(link) /\ LinkType(link) = "playlist"
    /\ s = "apple library" => link.id = "pl.u-"

LinkFits ==
    /\ StepFits(errand.step)
    /\ errand.step \in Unrouted => errand.route = Nobody
    /\ errand.step \in {"prepare", "short"} => errand.prepared \in {link, Full(link)}
    /\ errand.step = "short" => IsShort(errand.prepared)
    /\ errand.step \in Asking \cup {"prepare again", "lookup"} =>
         errand.prepared = Meant /\ errand.route = RouteOf(link)
    /\ errand.step \in {"prepare", "short", "prepare again", "lookup", "library", "user token"} => ~errand.token

WorldFits ==
    /\ LinkType(link) # "playlist" => world.access \in {"public", "gone"}
    /\ link.host = "apple" =>
         IF IsPersonal(link) THEN world.access # "public"
         ELSE world.access \in {"public", "gone"}

\* What is known of the user once a step is reached without a failure.
Connected == connection1.status = "connected"
Known ==
    /\ errand.step = "user token" => connection1.status # "rejected" /\ (UserReads => ~world.songs)
    /\ errand.step = "user" => errand.token /\ Connected /\ (UserReads => ~world.songs)
    /\ errand.step = "application" /\ LinkType(link) = "playlist" =>
         ~UserReads /\ (IF errand.token THEN Connected ELSE ~HasToken)
    /\ errand.step = "later token" => ~errand.token /\ ~HasToken
    /\ errand.step \in {"later token", "judge"} => errand.status = "404" /\ world.access # "public"
    /\ errand.step # "later user"
    /\ errand.step = "judge" => ~UserReads /\ (errand.token <=> Connected)
    /\ errand.step = "apple library" => HasToken
    /\ errand.step = "apple" /\ IsPersonal(link) /\ LinkType(link) = "playlist" =>
         HasToken /\ (link.id = "pl.u-" => Connected /\ world.access = "own")

\* What may be told of an import that met no failure.
Truthful(code, retriable) ==
    /\ WellFormed => ((code = "songs") <=> (Reachable /\ world.songs))
    /\ code = "PROVIDER_NOT_CONNECTED" => connection1.status # "connected"
    /\ code = "PROVIDER_REAUTH_REQUIRED" => connection1.status = "connected" /\ ~connection1.scope
    /\ ~retriable

ImportInv ==
    /\ ImportTypeOK /\ WorldFits /\ LinkFits
    /\ ~failed => Known
    /\ NoFaultNoExcuse /\ PreparedAlike

-------------------------------------------------------------------------------
(* Links.                                                                      *)

LEMMA LinkKinds ==
    ASSUME NEW l \in Link
    PROVE  /\ l.host \in {"spotify", "apple", "no url", "lookalike"}
           /\ l.host = "spotify" => l \in SpotifyLink
           /\ l.host = "apple" => l \in AppleLink
           /\ l.host \in {"no url", "lookalike"} => l \in OtherLink
  BY DEF Link, SpotifyLink, AppleLink, OtherLink

LEMMA FullLink ==
    ASSUME NEW l \in Link
    PROVE  /\ Full(l) \in Link /\ Full(l).host = l.host /\ ~IsShort(Full(l))
           /\ LinkType(Full(l)) = LinkType(l) /\ (HasId(Full(l)) <=> HasId(l))
           /\ l.host = "apple" => Full(l) = l
           /\ Full(Full(l)) = Full(l)
<1>1. CASE l.host = "spotify" /\ l.short
  <2>1. l \in SpotifyLink
    BY <1>1, LinkKinds
  <2>2. Full(l) = [l EXCEPT !.short = FALSE]
    BY <1>1 DEF Full, IsShort
  <2>3. /\ Full(l) \in SpotifyLink /\ Full(l).host = "spotify" /\ Full(l).short = FALSE
        /\ Full(l).kind = l.kind /\ Full(l).id = l.id
    BY <2>1, <2>2 DEF SpotifyLink
  <2>4. ~IsShort(Full(l))
    BY <2>3 DEF IsShort
  <2>5. LinkType(Full(l)) = LinkType(l) /\ (HasId(Full(l)) <=> HasId(l))
    <3> DEFINE m == Full(l)
    <3>1. m.host = "spotify" /\ m.kind = l.kind /\ m.id = l.id
      BY <2>3
    <3> HIDE DEF m
    <3>2. LinkType(m) = LinkType(l)
      BY <1>1, <3>1 DEF LinkType
    <3>3. HasId(m) <=> HasId(l)
      BY <1>1, <3>1 DEF HasId, SpotifyIdOf
    <3> QED
      BY <3>2, <3>3 DEF m
  <2>6. Full(Full(l)) = Full(l)
    BY <2>4 DEF Full
  <2> QED
    BY <1>1, <2>3, <2>4, <2>5, <2>6 DEF Link
<1>2. CASE ~(l.host = "spotify" /\ l.short)
  <2>1. ~IsShort(l)
    BY <1>2 DEF IsShort
  <2> QED
    BY <2>1 DEF Full
<1> QED
  BY <1>1, <1>2

LEMMA NormalizedLink ==
    ASSUME NEW l \in Link
    PROVE  /\ Normalized(l) \in Link /\ Normalized(l).host = l.host
           /\ ~IsShort(l) => ~IsShort(Normalized(l))
           /\ Normalized(Normalized(l)) = Normalized(l)
           /\ l.host = "apple" => Normalized(l).id = l.id /\ Normalized(l).kind = l.kind
           /\ (LinkType(Normalized(l)) = "playlist") = (LinkType(l) = "playlist")
           /\ LinkType(l) # LinkType(Normalized(l)) => l.host = "apple" /\ l.i = "empty" /\ ~HasId(l)
           /\ l.host \in {"spotify", "apple"} /\ LinkType(l) # "unknown" /\ HasId(l) => HasId(Normalized(l))
<1>1. CASE l.host = "apple" /\ l.i = "empty"
  <2>1. l \in AppleLink
    BY <1>1, LinkKinds
  <2> DEFINE m == Normalized(l)
  <2>2. m = [l EXCEPT !.i = "none"]
    BY <1>1 DEF Normalized
  <2>3. /\ m \in AppleLink /\ m.host = "apple" /\ m.kind = l.kind /\ m.id = l.id /\ m.i = "none"
        /\ m.storefront = l.storefront /\ m.name = l.name
    BY <2>1, <2>2 DEF AppleLink
  <2> HIDE DEF m
  <2>4. Normalized(m) = m /\ ~IsShort(m)
    BY <2>3 DEF Normalized, IsShort
  <2>5. l.kind \in {"song", "album", "playlist", "artist"}
    BY <2>1 DEF AppleLink
  <2>6. LinkType(l) = CASE l.kind = "playlist" -> "playlist" [] OTHER -> "track"
    BY <1>1, <2>5 DEF LinkType
  <2>7. LinkType(m) = CASE m.kind = "playlist" -> "playlist" [] m.kind = "song" -> "track"
                        [] m.kind = "album" -> "album" [] OTHER -> "unknown"
    BY <2>3, <2>5 DEF LinkType
  <2>8. (LinkType(m) = "playlist") = (LinkType(l) = "playlist")
    BY <2>3, <2>5, <2>6, <2>7
  <2>9. HasId(l) => l.kind \in {"song", "playlist"}
    BY <1>1, <2>5, <2>6 DEF HasId, AppleTrackId
  <2>10. LinkType(l) # LinkType(m) => ~HasId(l)
    BY <2>3, <2>5, <2>6, <2>7, <2>9
  <2>11. HasId(l) => HasId(m)
    BY <1>1, <2>3, <2>6, <2>7, <2>9 DEF HasId, AppleTrackId, ApplePlaylistId, AppleAlbumId
  <2> QED
    BY <1>1, <2>3, <2>4, <2>8, <2>10, <2>11 DEF Link, m
<1>2. CASE ~(l.host = "apple" /\ l.i = "empty")
  <2>1. Normalized(l) = l
    BY <1>2 DEF Normalized
  <2> QED
    BY <2>1
<1> QED
  BY <1>1, <1>2

-------------------------------------------------------------------------------
(* Steps of an import.                                                         *)

Under == ImportInv /\ told = Nobody /\ link' = link /\ world' = world

LEMMA ImportTypes ==
    ASSUME ImportInv
    PROVE  /\ link \in Link /\ world \in World /\ connection1 \in Connection1 /\ errand \in Errand
           /\ errand.prepared \in Link /\ errand.token \in BOOLEAN /\ failed \in BOOLEAN
           /\ connection1.scope \in BOOLEAN /\ world.songs \in BOOLEAN
  BY DEF ImportInv, ImportTypeOK, Link, World, Connection1, Errand

LEMMA LinkStays == ASSUME Under PROVE Meant' = Meant /\ (WellFormed' <=> WellFormed) /\ WorldFits'
<1>1. link' = link /\ world' = world /\ WorldFits
  BY DEF Under, ImportInv
<1>2. Meant' = Meant /\ (WellFormed' <=> WellFormed)
  BY <1>1 DEF Meant, WellFormed
<1>3. WorldFits'
  BY <1>1 DEF WorldFits
<1> QED
  BY <1>2, <1>3

LEMMA StepStays == ASSUME Under, NEW s, StepFits(s) PROVE StepFits(s)'
<1>1. link' = link /\ Meant' = Meant
  BY LinkStays DEF Under
<1> QED
  BY <1>1 DEF StepFits

LEMMA UserStays ==
    ASSUME Under, connection1' = connection1
    PROVE  (UserReads' <=> UserReads) /\ (Reachable' <=> Reachable) /\ (HasToken' <=> HasToken)
           /\ (Connected' <=> Connected)
<1>1. UserReads' <=> UserReads
  BY DEF Under, UserReads
<1> QED
  BY <1>1 DEF Under, Reachable, HasToken, Connected

LEMMA Reauthorized ==
    ASSUME Under, Reauthorize
    PROVE  /\ connection1' \in Connection1 /\ connection1'.scope = connection1.scope
           /\ ~UserReads' /\ ~HasToken' /\ ~Connected'
<1>1. connection1 \in Connection1
  BY ImportTypes DEF Under
<1>2. connection1' \in Connection1 /\ connection1'.scope = connection1.scope
      /\ connection1'.status \in {"none", "reauth_required"}
  BY <1>1 DEF Reauthorize, Connection1
<1> QED
  BY <1>2 DEF UserReads, HasToken, Connected

LEMMA ToFields ==
    ASSUME errand \in Errand, NEW s \in Step0, To(s)
    PROVE  /\ errand' \in Errand /\ errand'.step = s /\ told' = told
           /\ errand'.prepared = errand.prepared /\ errand'.route = errand.route
           /\ errand'.token = errand.token /\ errand'.status = errand.status
<1>1. 0 \in 0..FetchRetries
  BY ImportAssumption
<1> QED
  BY <1>1 DEF To, Errand

LEMMA AgainFields ==
    ASSUME errand \in Errand, NEW a, Retried(a) \/ Renewed(a)
    PROVE  /\ errand' \in Errand /\ errand'.step = errand.step
           /\ errand'.prepared = errand.prepared /\ errand'.route = errand.route
           /\ errand'.token = errand.token /\ errand'.status = errand.status
           /\ UNCHANGED <<connection1, told, failed>>
<1>1. CASE Retried(a)
  <2>1. errand.tries + 1 \in 0..FetchRetries
    BY <1>1, ImportAssumption DEF Retried, Errand
  <2> QED
    BY <1>1, <2>1 DEF Retried, Errand
<1>2. CASE Renewed(a)
  <2>1. 0 \in 0..FetchRetries
    BY ImportAssumption
  <2> QED
    BY <1>2, <2>1 DEF Renewed, Errand
<1> QED
  BY <1>1, <1>2

LEMMA MoveFits ==
    ASSUME Under, told' = told, errand' \in Errand, connection1' \in Connection1, failed' \in BOOLEAN,
           LinkFits', ~failed' => Known'
    PROVE  ImportInv'
<1>1. ImportTypeOK' /\ WorldFits'
  BY LinkStays DEF Under, ImportInv, ImportTypeOK
<1>2. NoFaultNoExcuse' /\ PreparedAlike'
  BY DEF Under, NoFaultNoExcuse, PreparedAlike
<1> QED
  BY <1>1, <1>2 DEF ImportInv

LEMMA TellFits ==
    ASSUME Under, NEW code \in Code \cup {"songs", "no songs"}, NEW retriable \in BOOLEAN,
           Tell(code, retriable), connection1' \in Connection1, failed' \in BOOLEAN,
           code = "INVALID_LINK" /\ errand.route # Nobody => link.host = "apple" /\ link.i = "empty",
           ~failed' /\ errand.route # Nobody => Truthful(code, retriable)'
    PROVE  ImportInv'
<1>1. errand \in Errand
  BY ImportTypes DEF Under
<1>2. errand' \in Errand /\ errand'.step = "done" /\ errand'.route = errand.route
  BY <1>1 DEF Tell, Errand, Step0
<1>3. told' \in Told0 /\ told'.code = code /\ told'.retriable = retriable
  BY DEF Tell, Told0
<1>4. ImportTypeOK' /\ WorldFits'
  BY <1>2, <1>3, LinkStays DEF Under, ImportInv, ImportTypeOK
<1>5. StepFits(errand.step)'
  BY <1>2 DEF StepFits, Asking, OfPlaylists, OfApple
<1>6. LinkFits' /\ Known'
  BY <1>2, <1>5 DEF LinkFits, Known, Asking, OfPlaylists, OfApple, Unrouted
<1>7. PreparedAlike'
  BY <1>2, <1>3 DEF Under, PreparedAlike
<1>8. NoFaultNoExcuse'
  BY <1>2, <1>3 DEF NoFaultNoExcuse, Truthful
<1> QED
  BY <1>4, <1>6, <1>7, <1>8 DEF ImportInv

LEMMA AgainFits ==
    ASSUME Under, NEW a, Retried(a) \/ Renewed(a)
    PROVE  ImportInv'
<1>1. errand \in Errand /\ connection1 \in Connection1 /\ failed \in BOOLEAN /\ LinkFits /\ (~failed => Known)
  BY ImportTypes DEF Under, ImportInv
<1>2. /\ errand' \in Errand /\ errand'.step = errand.step
      /\ errand'.prepared = errand.prepared /\ errand'.route = errand.route
      /\ errand'.token = errand.token /\ errand'.status = errand.status
      /\ connection1' = connection1 /\ told' = told /\ failed' = failed
  BY <1>1, AgainFields
<1>3. StepFits(errand.step)'
  BY <1>1, <1>2, StepStays DEF LinkFits
<1>4. LinkFits'
  BY <1>1, <1>2, <1>3, LinkStays DEF LinkFits, Under
<1>5. ~failed' => Known'
  BY <1>1, <1>2, UserStays DEF Known, Under
<1> QED
  BY <1>1, <1>2, <1>4, <1>5, MoveFits

\* An import goes on to a question.
LEMMA ToFits ==
    ASSUME Under, errand.step \in Asking \cup {"lookup"}, NEW s \in Asking, To(s), StepFits(s),
           s \in {"library", "user token"} => ~errand.token,
           connection1' \in Connection1, failed' \in BOOLEAN, ~failed' => Known'
    PROVE  ImportInv'
<1>1. errand \in Errand /\ LinkFits
  BY ImportTypes DEF Under, ImportInv
<1>2. s \in Step0
  BY DEF Asking, OfPlaylists, OfApple, Step0
<1>3. /\ errand' \in Errand /\ errand'.step = s /\ told' = told
      /\ errand'.prepared = errand.prepared /\ errand'.route = errand.route
      /\ errand'.token = errand.token
  BY <1>1, <1>2, ToFields
<1>4. StepFits(s)'
  BY StepStays
<1>5. errand.prepared = Meant /\ errand.route = RouteOf(link)
  BY <1>1 DEF LinkFits
<1>6. LinkFits'
  BY <1>3, <1>4, <1>5, LinkStays DEF LinkFits, Under, Asking, OfPlaylists, OfApple, Unrouted
<1> QED
  BY <1>3, <1>6, MoveFits

LEMMA SongsFits ==
    ASSUME Under, Songs, connection1' \in Connection1, failed' \in BOOLEAN,
           ~failed' => Reachable' \/ ~world.songs
    PROVE  ImportInv'
<1>1. world' = world /\ world.songs \in BOOLEAN
  BY ImportTypes DEF Under
<1>2. CASE world.songs
  <2>1. Tell("songs", FALSE)
    BY <1>2 DEF Songs
  <2>2. ~failed' => Truthful("songs", FALSE)'
    BY <1>1, <1>2 DEF Truthful
  <2> QED
    BY <2>1, <2>2, TellFits
<1>3. CASE ~world.songs
  <2>1. Tell("PROVIDER_NOT_FOUND", FALSE)
    BY <1>3 DEF Songs
  <2>2. Truthful("PROVIDER_NOT_FOUND", FALSE)'
    BY <1>1, <1>3 DEF Truthful
  <2> QED
    BY <2>1, <2>2, TellFits DEF Code
<1> QED
  BY <1>2, <1>3

LEMMA StatusFits ==
    ASSUME Under, NEW a, TellStatus(a), connection1' \in Connection1, failed' \in BOOLEAN,
           ~failed' /\ errand.route # Nobody =>
             a \in {"401", "403", "404"} /\ ~(Reachable' /\ world.songs)
    PROVE  ImportInv'
<1>1. ErrorOf(a) \in Code \ {"INVALID_LINK", "PROVIDER_NOT_CONNECTED", "PROVIDER_REAUTH_REQUIRED"}
  BY DEF ErrorOf, Code
<1>2. a \in {"401", "403", "404"} => (a \in Fault \cup {"408"}) = FALSE
  BY DEF Fault
<1> DEFINE code == ErrorOf(a)
           retriable == a \in Fault \cup {"408"}
<1>3. Tell(code, retriable) /\ retriable \in BOOLEAN /\ code \in Code /\ code # "songs"
  BY <1>1 DEF TellStatus, Code
<1>4. code \notin {"INVALID_LINK", "PROVIDER_NOT_CONNECTED", "PROVIDER_REAUTH_REQUIRED", "songs"}
  BY <1>1, <1>3
<1>5. ~failed' /\ errand.route # Nobody => ~retriable /\ ~(Reachable' /\ world.songs)
  BY <1>2
<1> HIDE DEF code, retriable
<1>6. world' = world
  BY DEF Under
<1>7. ~failed' /\ errand.route # Nobody => Truthful(code, retriable)'
  BY <1>4, <1>5, <1>6 DEF Truthful
<1> QED
  BY <1>3, <1>4, <1>7, TellFits

LEMMA ThroughMeans ==
    ASSUME NEW a, NEW due, failed \in BOOLEAN, Through(a, due) \/ Concluded(a, due)
    PROVE  failed' \in BOOLEAN /\ (~failed' => ~failed /\ a = due)
  BY DEF Through, Concluded

LEMMA PrepareStep == ASSUME Under, PrepareLink PROVE ImportInv'
<1> DEFINE l == errand.prepared
<1>1. /\ errand \in Errand /\ l \in Link /\ link \in Link /\ LinkFits /\ StepFits(errand.step)
      /\ connection1' = connection1 /\ failed' = failed /\ connection1 \in Connection1 /\ failed \in BOOLEAN
  BY ImportTypes DEF Under, ImportInv, LinkFits, PrepareLink
<1>2. link' = link /\ Meant' = Meant
  BY LinkStays DEF Under
<1>3. errand.step = "prepare" => /\ l \in {link, Full(link)} /\ errand.route = Nobody /\ ~errand.token
                                 /\ LinkType(l) = LinkType(link)
                                 /\ (~IsShort(l) => l = Full(link))
  <2>1. l \in {link, Full(link)} => LinkType(l) = LinkType(link) /\ (~IsShort(l) => l = Full(link))
    BY <1>1, FullLink DEF Full
  <2> QED
    BY <1>1, <2>1 DEF LinkFits, Unrouted
<1>4. errand.step = "prepare again" =>
        /\ l = Meant /\ errand.route = RouteOf(link) /\ ~errand.token /\ ~IsShort(l) /\ Normalized(l) = l
        /\ link.host \in {"spotify", "apple"} /\ LinkType(link) # "unknown" /\ l.host = link.host
  <2>1. ~IsShort(Meant) /\ Normalized(Meant) = Meant /\ Meant.host = link.host
    BY <1>1, FullLink, NormalizedLink DEF Meant
  <2> QED
    BY <1>1, <2>1 DEF LinkFits, StepFits, Asking
<1>5. errand.step \in {"prepare", "prepare again"}
  BY DEF PrepareLink
<1>6. CASE IsShort(l) /\ To("short")
  <2>1. errand.step = "prepare"
    BY <1>4, <1>5, <1>6
  <2>2. /\ errand' \in Errand /\ errand'.step = "short" /\ told' = told /\ errand'.prepared = l
        /\ errand'.route = errand.route /\ errand'.token = errand.token
    BY <1>1, <1>6, ToFields DEF Step0
  <2> HIDE DEF l
  <2>3. LinkFits'
    BY <1>2, <1>3, <1>6, <2>1, <2>2 DEF LinkFits, StepFits, Asking, OfPlaylists, OfApple, Unrouted
  <2>4. Known'
    BY <2>2 DEF Known
  <2> QED
    BY <1>1, <2>2, <2>3, <2>4, MoveFits
<1>7. CASE ~IsShort(l) /\ Rejected(l) # "none" /\ Tell(Rejected(l), FALSE)
  <2>1. Rejected(l) \in {"INVALID_LINK", "UNSUPPORTED_PROVIDER_URL"}
    BY <1>7 DEF Rejected
  <2>2. errand.route # Nobody => link.host = "apple" /\ link.i = "empty" /\ ~WellFormed
    <3>1. SUFFICES ASSUME errand.route # Nobody PROVE link.host = "apple" /\ link.i = "empty" /\ ~WellFormed
      OBVIOUS
    <3>2. l = Normalized(Full(link)) /\ LinkType(link) # "unknown" /\ l.host \in {"spotify", "apple"}
      BY <1>3, <1>4, <1>5, <3>1 DEF Meant
    <3>3. LinkType(l) = "unknown"
      BY <1>7, <3>2 DEF Rejected
    <3>4. LinkType(Full(link)) = LinkType(link) /\ (HasId(Full(link)) <=> HasId(link)) /\ Full(link) \in Link
          /\ Full(link).host = link.host /\ (link.host = "apple" => Full(link) = link)
      BY <1>1, FullLink
    <3>5. Full(link).host = "apple" /\ Full(link).i = "empty" /\ ~HasId(Full(link))
      BY <3>2, <3>3, <3>4, NormalizedLink
    <3> QED
      BY <3>4, <3>5 DEF WellFormed
  <2>3. PICK code \in {"INVALID_LINK", "UNSUPPORTED_PROVIDER_URL"} : Tell(code, FALSE)
    BY <1>7, <2>1
  <2>4. errand.route # Nobody => Truthful(code, FALSE)'
    BY <2>2, <2>3, LinkStays DEF Truthful
  <2> QED
    BY <1>1, <2>2, <2>3, <2>4, TellFits DEF Code
<1>8. CASE ~IsShort(l) /\ Rejected(l) = "none" /\ told' = told
           /\ errand' = [errand EXCEPT !.prepared = Normalized(l),
                !.step = IF AtStep("prepare") THEN "prepare again" ELSE "lookup",
                !.route = IF AtStep("prepare")
                          THEN IF LinkType(l) = "track" THEN "track" ELSE "collection"
                          ELSE @]
  <2>1. Normalized(l) \in Link
    BY <1>1, NormalizedLink
  <2>2. /\ errand' \in Errand /\ errand'.prepared = Normalized(l) /\ errand'.token = errand.token
        /\ errand'.step = IF AtStep("prepare") THEN "prepare again" ELSE "lookup"
        /\ errand'.route = IF AtStep("prepare") THEN RouteOf(l) ELSE errand.route
    <3>1. Normalized(l) \in SpotifyLink \cup AppleLink \cup OtherLink
      BY <2>1 DEF Link
    <3> DEFINE step == IF AtStep("prepare") THEN "prepare again" ELSE "lookup"
               route == IF AtStep("prepare") THEN RouteOf(l) ELSE errand.route
    <3>2. step \in Step0 /\ route \in {"track", "collection", Nobody}
      BY <1>1 DEF Step0, RouteOf, Errand
    <3>3. errand' = [errand EXCEPT !.prepared = Normalized(l), !.step = step, !.route = route]
      BY <1>8 DEF RouteOf
    <3> HIDE DEF l, step, route
    <3>4. errand' \in Errand /\ errand'.prepared = Normalized(l) /\ errand'.token = errand.token
          /\ errand'.step = step /\ errand'.route = route
      BY <1>1, <3>1, <3>2, <3>3 DEF Errand
    <3> QED
      BY <3>4 DEF step, route
  <2>3. Normalized(l) = Meant /\ LinkType(link) # "unknown" /\ link.host \in {"spotify", "apple"}
        /\ errand'.route = RouteOf(link)
    <3>1. CASE errand.step = "prepare again"
      BY <1>4, <2>2, <3>1 DEF AtStep
    <3>2. CASE errand.step = "prepare"
      <4>1. l = Full(link) /\ LinkType(l) = LinkType(link)
        BY <1>3, <1>8, <3>2
      <4>2. LinkType(link) # "unknown"
        BY <1>8, <4>1 DEF Rejected
      <4>3. link.host \in {"spotify", "apple"}
        BY <4>2 DEF LinkType
      <4> QED
        BY <2>2, <3>2, <4>1, <4>2, <4>3 DEF Meant, RouteOf, AtStep
    <3> QED
      BY <1>5, <3>1, <3>2
  <2>4. ~errand.token
    BY <1>3, <1>4, <1>5
  <2> HIDE DEF l
  <2>5. LinkFits'
    BY <1>2, <2>2, <2>3, <2>4 DEF LinkFits, StepFits, Asking, OfPlaylists, OfApple, Unrouted
  <2>6. Known'
    BY <2>2 DEF Known
  <2> QED
    BY <1>1, <1>8, <2>2, <2>5, <2>6, MoveFits
<1> QED
  BY <1>6, <1>7, <1>8 DEF PrepareLink

LEMMA ShortStep == ASSUME Under, ResolveShortLink PROVE ImportInv'
<1> DEFINE l == errand.prepared
<1>1. /\ errand \in Errand /\ l \in Link /\ link \in Link /\ LinkFits /\ errand.step = "short"
      /\ connection1' = connection1 /\ connection1 \in Connection1 /\ failed \in BOOLEAN
  BY ImportTypes DEF Under, ImportInv, ResolveShortLink, AtStep
<1>2. errand.route = Nobody /\ IsShort(l) /\ l \in {link, Full(link)} /\ ~errand.token
  BY <1>1 DEF LinkFits, Unrouted
<1>3. l = link /\ l \in SpotifyLink /\ l.short
  BY <1>1, <1>2, FullLink, LinkKinds DEF IsShort
<1>4. CASE \E a : Retried(a)
  BY <1>4, AgainFits
<1>5. CASE /\ errand' = [errand EXCEPT !.step = "prepare", !.tries = 0, !.prepared.short = FALSE]
           /\ told' = told /\ failed' = failed
  <2>1. errand' = [errand EXCEPT !.step = "prepare", !.tries = 0, !.prepared = [l EXCEPT !.short = FALSE]]
    BY <1>1, <1>5 DEF Errand
  <2>2. [l EXCEPT !.short = FALSE] = Full(link) /\ Full(link) \in Link
    BY <1>1, <1>2, <1>3, FullLink DEF Full
  <2>3. 0 \in 0..FetchRetries
    BY ImportAssumption
  <2>4. /\ errand' \in Errand /\ errand'.step = "prepare" /\ errand'.prepared = Full(link)
        /\ errand'.route = errand.route /\ errand'.token = errand.token
    BY <1>1, <2>1, <2>2, <2>3 DEF Errand, Step0, Link
  <2>5. link' = link
    BY DEF Under
  <2>6. LinkFits' /\ Known'
    BY <1>2, <2>4, <2>5 DEF LinkFits, StepFits, Asking, OfPlaylists, OfApple, Unrouted, Known
  <2> QED
    BY <1>1, <1>5, <2>4, <2>6, MoveFits
<1>6. CASE Tell("NORMALIZATION_FAILURE", FALSE) /\ failed' = TRUE
  BY <1>1, <1>2, <1>6, TellFits DEF Code
<1>7. CASE \E a : TellStatus(a) /\ failed' = TRUE
  BY <1>1, <1>7, StatusFits
<1> QED
  BY <1>4, <1>5, <1>6, <1>7 DEF ResolveShortLink

\* What the steps of a question start from.
LEMMA AskingFacts ==
    ASSUME Under, errand.step \in Asking \cup {"lookup"}
    PROVE  /\ errand \in Errand /\ link \in Link /\ link' = link /\ world' = world /\ told' \in {told'}
           /\ connection1 \in Connection1 /\ failed \in BOOLEAN /\ WorldFits
           /\ errand.prepared = Meant /\ errand.route = RouteOf(link) /\ StepFits(errand.step)
           /\ link.host \in {"spotify", "apple"} /\ LinkType(link) # "unknown"
           /\ (LinkType(Meant) = "playlist") = (LinkType(link) = "playlist")
           /\ (IsPersonal(Meant) <=> IsPersonal(link)) /\ Meant.host = link.host
           /\ WellFormed => HasId(Meant) /\ LinkType(Meant) = LinkType(link)
           /\ ~failed => Known
<1>1. /\ errand \in Errand /\ link \in Link /\ link' = link /\ world' = world
      /\ connection1 \in Connection1 /\ failed \in BOOLEAN /\ WorldFits /\ LinkFits /\ (~failed => Known)
  BY ImportTypes DEF Under, ImportInv
<1>2. errand.prepared = Meant /\ errand.route = RouteOf(link) /\ StepFits(errand.step)
  BY <1>1 DEF LinkFits
<1>3. link.host \in {"spotify", "apple"} /\ LinkType(link) # "unknown"
  BY <1>2 DEF StepFits
<1>4. /\ Full(link) \in Link /\ Full(link).host = link.host /\ LinkType(Full(link)) = LinkType(link)
      /\ (HasId(Full(link)) <=> HasId(link)) /\ (link.host = "apple" => Full(link) = link)
  BY <1>1, FullLink
<1>5. /\ Meant.host = link.host /\ (link.host = "apple" => Meant.id = link.id)
      /\ (LinkType(Meant) = "playlist") = (LinkType(link) = "playlist")
      /\ WellFormed => HasId(Meant) /\ LinkType(Meant) = LinkType(link)
  BY <1>3, <1>4, NormalizedLink DEF Meant, WellFormed
<1>6. IsPersonal(Meant) <=> IsPersonal(link)
  BY <1>5 DEF IsPersonal
<1> QED
  BY <1>1, <1>2, <1>3, <1>5, <1>6

LEMMA LookupMade == ASSUME Under, Lookup PROVE ImportInv'
<1>1. errand.step = "lookup" /\ connection1' = connection1 /\ failed' = failed
  BY DEF Lookup, AtStep
<1>2. /\ errand \in Errand /\ link \in Link /\ link' = link /\ world' = world
      /\ connection1 \in Connection1 /\ failed \in BOOLEAN
      /\ errand.prepared = Meant /\ errand.route = RouteOf(link)
      /\ link.host \in {"spotify", "apple"} /\ LinkType(link) # "unknown"
      /\ (LinkType(Meant) = "playlist") = (LinkType(link) = "playlist")
      /\ (IsPersonal(Meant) <=> IsPersonal(link)) /\ Meant.host = link.host
      /\ WellFormed => HasId(Meant) /\ LinkType(Meant) = LinkType(link)
  BY <1>1, AskingFacts
<1>3. CASE (errand.route = "track") # (LinkType(Meant) = "track")
  <2>1. Tell("INVALID_LINK", FALSE)
    BY <1>2, <1>3 DEF Lookup
  <2>2. LinkType(Meant) # LinkType(link)
    BY <1>2, <1>3 DEF RouteOf
  <2>3. link.host = "apple" /\ link.i = "empty" /\ ~WellFormed
    BY <1>2, <2>2, FullLink, NormalizedLink DEF Meant
  <2>4. Truthful("INVALID_LINK", FALSE)'
    BY <2>3, LinkStays DEF Truthful
  <2> QED
    BY <1>1, <1>2, <2>1, <2>3, <2>4, TellFits DEF Code
<1>4. CASE (errand.route = "track") = (LinkType(Meant) = "track") /\ ~HasId(Meant)
  <2>1. Tell("NORMALIZATION_FAILURE", FALSE)
    BY <1>2, <1>4 DEF Lookup
  <2>2. Truthful("NORMALIZATION_FAILURE", FALSE)'
    BY <1>2, <1>4, LinkStays DEF Truthful
  <2> QED
    BY <1>1, <1>2, <2>1, <2>2, TellFits DEF Code
<1>5. CASE (errand.route = "track") = (LinkType(Meant) = "track") /\ HasId(Meant)
  <2> DEFINE list == LinkType(link) = "playlist"
             s == IF link.host = "apple"
                  THEN IF IsPersonal(link) /\ list THEN "apple token" ELSE "apple"
                  ELSE IF list THEN "library" ELSE "application"
  <2>1. To(s)
    BY <1>2, <1>5 DEF Lookup
  <2>2. (LinkType(link) = "track") <=> (LinkType(Meant) = "track")
    BY <1>2, <1>5 DEF RouteOf
  <2>3. ~errand.token
    BY <1>1 DEF Under, ImportInv, LinkFits
  <2>4. StepFits(s)
    BY <1>2, <1>5, <2>2 DEF StepFits, Asking, OfPlaylists, OfApple
  <2>5. s \in Asking /\ s \in {"apple token", "apple", "library", "application"}
    BY DEF Asking, OfApple, OfPlaylists
  <2>6. s = "application" => ~list
    BY <1>2
  <2>7. s = "apple" => ~(IsPersonal(link) /\ list)
    BY <1>2
  <2> HIDE DEF s
  <2>8. s \in Step0
    BY <2>5 DEF Step0
  <2>9. errand'.step = s
    BY <1>2, <2>1, <2>8, ToFields
  <2>10. Known'
    BY <1>2, <2>5, <2>6, <2>7, <2>9 DEF Known
  <2>11. PICK t \in Asking : t = s
    BY <2>5
  <2> QED
    BY <1>1, <1>2, <2>1, <2>3, <2>4, <2>5, <2>10, <2>11, ToFits
<1> QED
  BY <1>3, <1>4, <1>5

-------------------------------------------------------------------------------
(* Spotify.                                                                    *)

LEMMA LibraryTried == ASSUME Under, TryLibrary PROVE ImportInv'
<1>1. errand.step = "library"
  BY DEF TryLibrary, AtStep
<1>2. /\ errand \in Errand /\ link' = link /\ world' = world /\ link.host = "spotify"
      /\ connection1 \in Connection1 /\ failed \in BOOLEAN /\ StepFits("library") /\ ~errand.token
      /\ HasId(Meant)
  BY <1>1, AskingFacts DEF Under, ImportInv, LinkFits, StepFits, Asking, OfPlaylists
<1>3. StepFits("user token") /\ "user token" \in Asking /\ "user token" \in Step0 /\ "library" \in Asking
  BY <1>2 DEF StepFits, Asking, OfPlaylists, OfApple, Step0
<1>4. ASSUME To("user token"), connection1' \in Connection1, failed' \in BOOLEAN,
             ~failed' => connection1'.status # "rejected" /\ (UserReads' => ~world.songs)
      PROVE  ImportInv'
  <2>1. errand'.step = "user token"
    BY <1>2, <1>3, <1>4, ToFields
  <2>2. ~failed' => Known'
    BY <1>2, <1>4, <2>1 DEF Known
  <2> QED
    BY <1>1, <1>2, <1>3, <1>4, <2>2, ToFits
<1>5. CASE connection1' = connection1 /\ To("user token") /\ failed' = (failed \/ HasToken)
  <2>1. failed' \in BOOLEAN
    BY <1>2, <1>5
  <2>2. ~failed' => connection1.status # "rejected" /\ ~UserReads
    BY <1>2, <1>5 DEF HasToken, UserReads
  <2> QED
    BY <1>2, <1>4, <1>5, <2>1, <2>2, UserStays
<1>6. ASSUME HasToken, NEW a \in Answer, failed' = (failed \/ a # ToUser),
             IF a = "401" THEN Reauthorize ELSE UNCHANGED connection1,
             IF a = "ok" /\ world.songs THEN Songs ELSE To("user token")
      PROVE  ImportInv'
  <2>1. failed' \in BOOLEAN /\ (~failed' => a = ToUser)
    BY <1>2, <1>6
  <2>2. CASE a = "401"
    <3>1. To("user token") /\ Reauthorize
      BY <1>6, <2>2
    <3>2. connection1'.status # "rejected"
      BY <1>2, <3>1, Reauthorized DEF HasToken
    <3> QED
      BY <1>4, <2>1, <3>1, <3>2, Reauthorized
  <2>3. CASE a # "401"
    <3>1. connection1' = connection1
      BY <1>6, <2>3
    <3>2. ~failed' => Connected /\ (UserReads <=> a = "ok")
      BY <2>1, <2>3 DEF ToUser, Connected
    <3>3. CASE a = "ok" /\ world.songs
      <4>1. Songs
        BY <1>6, <3>3
      <4>2. UserReads => Reachable
        BY <1>2 DEF Reachable
      <4> QED
        BY <1>2, <2>1, <3>1, <3>2, <3>3, <4>1, <4>2, SongsFits, UserStays
    <3>4. CASE ~(a = "ok" /\ world.songs)
      <4>1. To("user token")
        BY <1>6, <3>4
      <4>2. ~failed' => connection1.status # "rejected" /\ (UserReads => ~world.songs)
        BY <3>2, <3>4 DEF Connected
      <4> QED
        BY <1>2, <1>4, <2>1, <3>1, <4>1, <4>2, UserStays
    <3> QED
      BY <3>3, <3>4
  <2> QED
    BY <2>2, <2>3
<1> QED
  BY <1>5, <1>6 DEF TryLibrary

LEMMA UserTokenStep == ASSUME Under, UserToken PROVE ImportInv'
<1>1. errand.step = "user token" /\ connection1' = connection1 /\ "user token" \in Asking
  BY DEF UserToken, AtStep, Asking, OfPlaylists
<1>2. /\ errand \in Errand /\ link' = link /\ world' = world /\ link.host = "spotify"
      /\ connection1 \in Connection1 /\ failed \in BOOLEAN /\ StepFits("user token") /\ ~errand.token
      /\ HasId(Meant) /\ errand.prepared = Meant /\ errand.route = RouteOf(link)
      /\ (~failed => connection1.status # "rejected" /\ (UserReads => ~world.songs))
  BY <1>1, AskingFacts DEF Under, ImportInv, LinkFits, StepFits, Asking, OfPlaylists, Known
<1>3. CASE HasToken /\ errand' = [errand EXCEPT !.step = "user", !.token = TRUE]
           /\ told' = told /\ failed' = failed
  <2>1. /\ errand' \in Errand /\ errand'.step = "user" /\ errand'.token = TRUE
        /\ errand'.prepared = Meant /\ errand'.route = RouteOf(link)
    BY <1>2, <1>3 DEF Errand, Step0
  <2>2. StepFits("user")'
    BY <1>2, StepStays DEF StepFits, Asking, OfPlaylists, OfApple
  <2>3. LinkFits'
    BY <1>2, <2>1, <2>2, LinkStays DEF LinkFits, Asking, OfPlaylists, OfApple, Unrouted
  <2>4. ~failed' => Connected /\ (UserReads => ~world.songs)
    BY <1>2, <1>3 DEF HasToken, Connected
  <2>5. ~failed' => Known'
    BY <1>1, <1>2, <2>1, <2>4, UserStays DEF Known
  <2> QED
    BY <1>1, <1>2, <1>3, <2>1, <2>3, <2>5, MoveFits
<1>4. CASE To("application") /\ failed' = (failed \/ HasToken)
  <2>1. "application" \in Asking /\ "application" \in Step0 /\ StepFits("application")
    BY <1>2 DEF Asking, Step0, StepFits, OfPlaylists, OfApple
  <2>2. errand'.step = "application" /\ errand'.token = errand.token
    BY <1>2, <1>4, <2>1, ToFields
  <2>3. ~failed' => ~HasToken' /\ ~UserReads'
    BY <1>1, <1>4, UserStays DEF HasToken, UserReads
  <2>4. ~failed' => Known'
    BY <1>2, <2>2, <2>3 DEF Known
  <2> QED
    BY <1>1, <1>2, <1>4, <2>1, <2>4, ToFits
<1> QED
  BY <1>3, <1>4 DEF UserToken

LEMMA AskAsUserStep == ASSUME Under, AskAsUser PROVE ImportInv'
<1>1. errand.step = "user" /\ "user" \in Asking
  BY DEF AskAsUser, AtStep, Asking, OfPlaylists
<1>2. /\ errand \in Errand /\ link' = link /\ world' = world /\ link.host = "spotify"
      /\ connection1 \in Connection1 /\ failed \in BOOLEAN /\ StepFits("user")
      /\ HasId(Meant) /\ errand.prepared = Meant /\ errand.route = RouteOf(link)
      /\ (~failed => errand.token /\ Connected /\ (UserReads => ~world.songs))
  BY <1>1, AskingFacts DEF StepFits, Asking, OfPlaylists, Known
<1>3. ASSUME NEW a \in Answer, Through(a, ToUser),
             IF a = "401" THEN Reauthorize ELSE UNCHANGED connection1,
             CASE a = "ok"     -> Songs
               [] a \in Thrown -> TellStatus(a)
               [] OTHER -> /\ errand' = [errand EXCEPT !.step = "application",
                                           !.tries = 0, !.userStatus = a]
                           /\ told' = told
      PROVE  ImportInv'
  <2>1. connection1' \in Connection1
    BY <1>2, <1>3, Reauthorized
  <2>2. failed' \in BOOLEAN /\ (~failed' => ~failed /\ a = ToUser)
    <3> PICK due : due = ToUser
      OBVIOUS
    <3> QED
      BY <1>2, <1>3, ThroughMeans
  <2>3. ~failed' => a \in {"ok", "404"} /\ connection1' = connection1 /\ (UserReads <=> a = "ok") /\ Connected
    BY <1>2, <1>3, <2>2 DEF ToUser, Connected
  <2>4. CASE a = "ok"
    <3>1. Songs
      BY <1>3, <2>4 DEF Thrown
    <3>2. ~failed' => ~world.songs
      BY <1>2, <2>2, <2>3, <2>4
    <3> QED
      BY <2>1, <2>2, <3>1, <3>2, SongsFits
  <2>5. CASE a \in Thrown
    <3>1. TellStatus(a)
      BY <1>3, <2>5 DEF Thrown
    <3>2. failed'
      BY <2>2, <2>3, <2>5 DEF Thrown
    <3> QED
      BY <2>1, <2>2, <3>1, <3>2, StatusFits
  <2>6. CASE a # "ok" /\ a \notin Thrown
    <3>1. errand' = [errand EXCEPT !.step = "application", !.tries = 0, !.userStatus = a] /\ told' = told
      BY <1>3, <2>6
    <3>2. 0 \in 0..FetchRetries
      BY ImportAssumption
    <3>3. /\ errand' \in Errand /\ errand'.step = "application" /\ errand'.token = errand.token
          /\ errand'.prepared = Meant /\ errand'.route = RouteOf(link)
      BY <1>2, <3>1, <3>2 DEF Errand, Step0
    <3>4. StepFits("application")'
      BY <1>2, StepStays DEF StepFits, Asking, OfPlaylists, OfApple
    <3>5. LinkFits'
      BY <1>2, <3>3, <3>4, LinkStays DEF LinkFits, Asking, OfPlaylists, OfApple, Unrouted
    <3>6. ~failed' => errand.token /\ ~UserReads' /\ Connected'
      BY <1>2, <2>2, <2>3, <2>6, UserStays
    <3>7. ~failed' => Known'
      BY <3>3, <3>6 DEF Known
    <3> QED
      BY <2>1, <2>2, <3>1, <3>3, <3>5, <3>7, MoveFits
  <2> QED
    BY <2>4, <2>5, <2>6
<1>4. CASE \E a : Retried(a)
  BY <1>4, AgainFits
<1> QED
  BY <1>3, <1>4 DEF AskAsUser

LEMMA AskAsApplicationStep == ASSUME Under, AskAsApplication PROVE ImportInv'
<1> DEFINE list == LinkType(link) = "playlist"
<1>1. errand.step = "application" /\ "application" \in Asking
  BY DEF AskAsApplication, AtStep, Asking, OfPlaylists
<1>2. /\ errand \in Errand /\ link' = link /\ world' = world /\ link.host = "spotify"
      /\ connection1 \in Connection1 /\ failed \in BOOLEAN /\ StepFits("application")
      /\ HasId(Meant) /\ errand.prepared = Meant /\ errand.route = RouteOf(link)
      /\ (LinkType(Meant) = "playlist") = list /\ WorldFits /\ errand.token \in BOOLEAN
      /\ (~failed /\ list => ~UserReads /\ (IF errand.token THEN Connected ELSE ~HasToken))
  BY <1>1, AskingFacts, ImportTypes DEF Under, StepFits, Asking, OfPlaylists, Known
<1>3. ASSUME NEW a \in Answer, Concluded(a, ToApplication), connection1' = connection1,
             CASE a = "ok" -> Songs
               [] a \in Thrown \/ (a # "ok" /\ ~list) -> TellStatus(a)
               [] OTHER -> /\ told' = told
                           /\ errand' = [errand EXCEPT !.tries = 0, !.again = FALSE, !.status = a,
                                    !.step = IF a \in {"403", "404"} /\ ~errand.token
                                             THEN "later token" ELSE "judge"]
      PROVE  ImportInv'
  <2>1. failed' \in BOOLEAN /\ (~failed' => ~failed /\ a = ToApplication)
    <3> PICK due : due = ToApplication
      OBVIOUS
    <3> QED
      BY <1>2, <1>3, ThroughMeans
  <2>2. ~failed' => a \in {"ok", "404"} /\ (a = "ok" <=> world.access = "public")
    BY <2>1 DEF ToApplication
  <2>3. CASE a = "ok"
    <3>1. Songs
      BY <1>3, <2>3 DEF Thrown
    <3>2. ~failed' => Reachable'
      BY <1>2, <2>2, <2>3 DEF Reachable
    <3> QED
      BY <1>2, <1>3, <2>1, <3>1, <3>2, SongsFits
  <2>4. CASE a # "ok" /\ (a \in Thrown \/ ~list)
    <3>1. TellStatus(a)
      BY <1>3, <2>4
    <3>2. ~failed' => a = "404" /\ ~list /\ world.access = "gone"
      BY <1>2, <2>2, <2>4 DEF Thrown, WorldFits
    <3>3. ~failed' => ~Reachable
      BY <1>2, <3>2 DEF Reachable, UserReads
    <3> QED
      BY <1>2, <1>3, <2>1, <3>1, <3>2, <3>3, StatusFits, UserStays
  <2>5. CASE a # "ok" /\ a \notin Thrown /\ list
    <3> DEFINE s == IF a \in {"403", "404"} /\ ~errand.token THEN "later token" ELSE "judge"
    <3>1. errand' = [errand EXCEPT !.tries = 0, !.again = FALSE, !.status = a, !.step = s] /\ told' = told
      BY <1>3, <2>5
    <3>2. 0 \in 0..FetchRetries /\ s \in Step0 /\ s \in {"later token", "judge"}
      BY ImportAssumption DEF Step0
    <3>3. a \in {"403", "404"} /\ ~errand.token => s = "later token"
      OBVIOUS
    <3>4. errand.token => s = "judge"
      OBVIOUS
    <3> HIDE DEF s
    <3>5. /\ errand' \in Errand /\ errand'.step = s /\ errand'.token = errand.token /\ errand'.status = a
          /\ errand'.prepared = Meant /\ errand'.route = RouteOf(link)
      BY <1>2, <3>1, <3>2 DEF Errand
    <3>6. \A t \in {"later token", "judge"} : StepFits(t)'
      BY <1>2, <2>5, StepStays DEF StepFits, Asking, OfPlaylists, OfApple
    <3>7. LinkFits'
      BY <1>2, <3>2, <3>5, <3>6, LinkStays DEF LinkFits, Asking, OfPlaylists, OfApple, Unrouted
    <3>8. ~failed' => a = "404" /\ world.access # "public" /\ ~UserReads'
                      /\ (IF errand.token THEN Connected' ELSE ~HasToken' /\ s = "later token")
      BY <1>2, <1>3, <2>1, <2>2, <2>5, <3>3, UserStays
    <3>9. ~failed' => Known'
      BY <1>2, <3>2, <3>4, <3>5, <3>8 DEF Known
    <3> QED
      BY <1>2, <1>3, <2>1, <3>1, <3>5, <3>7, <3>9, MoveFits
  <2> QED
    BY <2>3, <2>4, <2>5
<1>4. CASE \E a : Retried(a) \/ Renewed(a)
  BY <1>4, AgainFits
<1>5. CASE Tell("PROVIDER_AUTH_FAILURE", FALSE) /\ failed' = TRUE /\ connection1' = connection1
  BY <1>2, <1>5, TellFits DEF Code
<1> QED
  BY <1>2, <1>3, <1>4, <1>5 DEF AskAsApplication

LEMMA LaterTokenStep == ASSUME Under, LaterToken PROVE ImportInv'
<1>1. errand.step = "later token" /\ connection1' = connection1 /\ "later token" \in Asking
  BY DEF LaterToken, AtStep, Asking, OfPlaylists
<1>2. /\ errand \in Errand /\ link' = link /\ world' = world
      /\ connection1 \in Connection1 /\ failed \in BOOLEAN /\ StepFits("later token")
      /\ (~failed => ~errand.token /\ ~HasToken /\ errand.status = "404" /\ world.access # "public")
  BY <1>1, AskingFacts DEF Known
<1>3. /\ \A s \in {"later user", "judge"} : s \in Asking /\ s \in Step0
      /\ StepFits("later user") /\ StepFits("judge")
  BY <1>2 DEF StepFits, Asking, OfPlaylists, OfApple, Step0
<1>4. CASE HasToken /\ To("later user") /\ failed' = failed
  BY <1>1, <1>2, <1>3, <1>4, ToFits
<1>5. CASE To("judge") /\ failed' = (failed \/ HasToken)
  <2>1. errand'.step = "judge" /\ errand'.token = errand.token /\ errand'.status = errand.status
    BY <1>2, <1>3, <1>5, ToFields
  <2>2. ~failed' => ~failed /\ ~UserReads' /\ ~Connected'
    BY <1>1, <1>2, <1>5, UserStays DEF HasToken, UserReads, Connected
  <2>3. ~failed' => Known'
    BY <1>2, <2>1, <2>2 DEF Known
  <2> QED
    BY <1>1, <1>2, <1>3, <1>5, <2>3, ToFits
<1> QED
  BY <1>4, <1>5 DEF LaterToken

\* No import comes here without a failure.
LEMMA AskAsUserLaterStep == ASSUME Under, AskAsUserLater PROVE ImportInv'
<1>1. errand.step = "later user" /\ "later user" \in Asking
  BY DEF AskAsUserLater, AtStep, Asking, OfPlaylists
<1>2. /\ errand \in Errand /\ connection1 \in Connection1 /\ StepFits("later user") /\ failed = TRUE
  BY <1>1, AskingFacts, ImportTypes DEF Known, Under
<1>3. ASSUME NEW a \in Answer, Through(a, ToUser), connection1' = connection1,
             CASE a = "ok"     -> Songs
               [] a \in Thrown -> TellStatus(a)
               [] OTHER        -> To("judge")
      PROVE  ImportInv'
  <2>1. failed' = TRUE
    BY <1>2, <1>3 DEF Through
  <2>2. Songs \/ TellStatus(a) \/ To("judge")
    BY <1>3 DEF Thrown
  <2>3. StepFits("judge") /\ "judge" \in Asking
    BY <1>2 DEF StepFits, Asking, OfPlaylists, OfApple
  <2> QED
    BY <1>1, <1>2, <1>3, <2>1, <2>2, <2>3, SongsFits, StatusFits, ToFits
<1>4. CASE \E a : Retried(a)
  BY <1>4, AgainFits
<1> QED
  BY <1>3, <1>4 DEF AskAsUserLater

LEMMA JudgeStep == ASSUME Under, Judge PROVE ImportInv'
<1>1. errand.step = "judge" /\ connection1' = connection1 /\ failed' = failed /\ "judge" \in Asking
  BY DEF Judge, AtStep, Asking, OfPlaylists
<1>2. /\ errand \in Errand /\ link' = link /\ world' = world
      /\ connection1 \in Connection1 /\ failed \in BOOLEAN
      /\ (~failed => /\ errand.status = "404" /\ world.access # "public" /\ ~UserReads
                     /\ (errand.token <=> Connected))
  BY <1>1, AskingFacts DEF Known
<1>3. (Connected' <=> Connected) /\ (Reachable' <=> Reachable) /\ (~failed => ~Reachable)
  BY <1>1, <1>2, UserStays DEF Reachable
<1>4. CASE "404" \notin {errand.status, errand.userStatus}
  <2>1. TellStatus(errand.status)
    BY <1>4 DEF Judge
  <2>2. PICK a : a = errand.status
    OBVIOUS
  <2>3. TellStatus(a) /\ failed
    BY <1>2, <1>4, <2>1, <2>2
  <2> QED
    BY <1>1, <1>2, <2>3, StatusFits
<1>5. CASE ~("404" \notin {errand.status, errand.userStatus})
  <2> DEFINE code == IF ~errand.token THEN "PROVIDER_NOT_CONNECTED"
                     ELSE IF ~connection1.scope THEN "PROVIDER_REAUTH_REQUIRED"
                     ELSE "PROVIDER_NOT_FOUND"
  <2>1. PICK told0 \in {"PROVIDER_NOT_CONNECTED", "PROVIDER_REAUTH_REQUIRED", "PROVIDER_NOT_FOUND"} : told0 = code
    OBVIOUS
  <2>2. Tell(told0, FALSE)
    BY <1>5, <2>1 DEF Judge
  <2>3. ~failed => /\ told0 = "PROVIDER_NOT_CONNECTED" => ~Connected
                   /\ told0 = "PROVIDER_REAUTH_REQUIRED" => Connected /\ ~connection1.scope
    BY <1>2, <2>1
  <2>4. ~failed' => Truthful(told0, FALSE)'
    BY <1>1, <1>3, <2>1, <2>3 DEF Truthful, Connected
  <2> QED
    BY <1>1, <1>2, <2>1, <2>2, <2>4, TellFits DEF Code
<1> QED
  BY <1>4, <1>5

-------------------------------------------------------------------------------
(* Apple Music.                                                                *)

LEMMA AppleTokenStep == ASSUME Under, AppleToken PROVE ImportInv'
<1>1. errand.step = "apple token" /\ connection1' = connection1 /\ "apple token" \in Asking
  BY DEF AppleToken, AtStep, Asking, OfApple
<1>2. /\ errand \in Errand /\ link' = link /\ world' = world /\ link.host = "apple"
      /\ connection1 \in Connection1 /\ failed \in BOOLEAN /\ StepFits("apple token") /\ WorldFits
      /\ IsPersonal(link) /\ LinkType(link) = "playlist" /\ world.access # "public"
  BY <1>1, AskingFacts DEF WorldFits, StepFits, OfApple
<1>3. ASSUME NEW s \in {"apple", "apple library"}, HasToken, To(s), failed' = failed,
             s = "apple" <=> link.id = "p."
      PROVE  ImportInv'
  <2>1. s \in Asking /\ s \in Step0
    BY <1>3 DEF Asking, OfApple, Step0
  <2>2. StepFits(s)
    BY <1>2, <1>3 DEF StepFits, Asking, OfApple, OfPlaylists, IsPersonal
  <2>3. errand'.step = s
    BY <1>2, <1>3, <2>1, ToFields
  <2>4. Known'
    BY <1>1, <1>2, <1>3, <2>3, UserStays DEF Known
  <2> QED
    BY <1>1, <1>2, <1>3, <2>1, <2>2, <2>4, ToFits
<1>4. CASE HasToken /\ To(IF link.id = "p." THEN "apple" ELSE "apple library") /\ failed' = failed
  BY <1>3, <1>4
<1>5. CASE Tell("PROVIDER_NOT_CONNECTED", FALSE) /\ failed' = (failed \/ HasToken)
  <2>1. ~failed' => Truthful("PROVIDER_NOT_CONNECTED", FALSE)'
    BY <1>1, <1>2, <1>5, UserStays DEF Truthful, Reachable, UserReads, HasToken
  <2> QED
    BY <1>1, <1>2, <1>5, <2>1, TellFits DEF Code
<1> QED
  BY <1>4, <1>5 DEF AppleToken

LEMMA FindInLibraryStep == ASSUME Under, FindInLibrary PROVE ImportInv'
<1> DEFINE want == IF Connected THEN "ok" ELSE "401"
<1>1. errand.step = "apple library" /\ "apple library" \in Asking
  BY DEF FindInLibrary, AtStep, Asking, OfApple
<1>2. /\ errand \in Errand /\ link' = link /\ world' = world /\ link.host = "apple"
      /\ connection1 \in Connection1 /\ failed \in BOOLEAN /\ StepFits("apple library") /\ WorldFits
      /\ IsPersonal(link) /\ LinkType(link) = "playlist" /\ link.id = "pl.u-" /\ world.access # "public"
  BY <1>1, AskingFacts DEF WorldFits, StepFits, OfApple
<1>3. ASSUME NEW a \in Answer, Concluded(a, want),
             IF a = "401" THEN Reauthorize ELSE UNCHANGED connection1,
             CASE a = "ok" /\ world.access = "own" -> To("apple")
               [] a \in Thrown                     -> TellStatus(a)
               [] OTHER -> Tell("PROVIDER_NOT_FOUND", FALSE)
      PROVE  ImportInv'
  <2>1. connection1' \in Connection1
    BY <1>2, <1>3, Reauthorized
  <2>2. failed' \in BOOLEAN /\ (~failed' => ~failed /\ a = want)
    <3>0. PICK due : due = want
      OBVIOUS
    <3>1. Concluded(a, due)
      BY <1>3, <3>0
    <3>2. failed \in BOOLEAN
      BY <1>2
    <3>3. failed' \in BOOLEAN /\ (~failed' => ~failed /\ a = due)
      BY <3>1, <3>2, ThroughMeans
    <3> QED
      BY <3>0, <3>3
  <2>3. ~failed' /\ a # "401" => a = "ok" /\ Connected /\ connection1' = connection1
    BY <1>3, <2>2
  <2>4. CASE a = "ok" /\ world.access = "own"
    <3>1. To("apple")
      BY <1>3, <2>4 DEF Thrown
    <3>2. "apple" \in Asking /\ "apple" \in Step0 /\ StepFits("apple")
      BY <1>2 DEF StepFits, Asking, OfApple, OfPlaylists, Step0
    <3>3. errand'.step = "apple"
      BY <1>2, <3>1, <3>2, ToFields
    <3>4. ~failed' => Connected' /\ HasToken'
      BY <2>3, <2>4, UserStays DEF Connected, HasToken
    <3>5. ~failed' => Known'
      BY <1>2, <2>4, <3>3, <3>4 DEF Known
    <3> QED
      BY <1>1, <2>1, <2>2, <3>1, <3>2, <3>5, ToFits
  <2>5. CASE a \in Thrown
    <3>1. TellStatus(a) /\ failed'
      BY <1>3, <2>2, <2>5 DEF Thrown
    <3> QED
      BY <2>1, <2>2, <3>1, StatusFits
  <2>6. CASE ~(a = "ok" /\ world.access = "own") /\ a \notin Thrown
    <3>1. Tell("PROVIDER_NOT_FOUND", FALSE)
      BY <1>3, <2>6
    <3>2. ~failed' => ~Reachable'
      <4>1. CASE a = "401"
        <5>1. ~UserReads'
          BY <1>3, <4>1, Reauthorized
        <5> QED
          BY <1>2, <5>1 DEF Reachable
      <4>2. CASE a # "401"
        <5>1. ~failed' => ~(UserReads /\ ~(world.access = "deep"))
          BY <1>2, <2>3, <2>6, <4>2 DEF UserReads
        <5>2. ~failed' => ~Reachable
          BY <1>2, <5>1 DEF Reachable
        <5> QED
          BY <2>3, <4>2, <5>2, UserStays
      <4> QED
        BY <4>1, <4>2
    <3>3. ~failed' => Truthful("PROVIDER_NOT_FOUND", FALSE)'
      BY <3>2 DEF Truthful
    <3> QED
      BY <2>1, <2>2, <3>1, <3>3, TellFits DEF Code
  <2> QED
    BY <2>4, <2>5, <2>6
<1>4. CASE \E a : Retried(a) \/ Renewed(a)
  BY <1>4, AgainFits
<1> QED
  BY <1>3, <1>4 DEF FindInLibrary, Connected

LEMMA AskAppleStep == ASSUME Under, AskApple PROVE ImportInv'
<1> DEFINE personal == IsPersonal(link) /\ LinkType(link) = "playlist"
           want == IF personal THEN ToUser ELSE ToApplication
<1>1. errand.step = "apple" /\ "apple" \in Asking
  BY DEF AskApple, AtStep, Asking, OfApple
<1>2. /\ errand \in Errand /\ link' = link /\ world' = world /\ link.host = "apple"
      /\ connection1 \in Connection1 /\ failed \in BOOLEAN /\ WorldFits
      /\ (~failed /\ personal => HasToken /\ (link.id = "pl.u-" => Connected /\ world.access = "own"))
  BY <1>1, AskingFacts DEF StepFits, OfApple, Known
<1>3. personal => world.access # "public" /\ link.id \in {"pl.u-", "p."}
  BY <1>2 DEF WorldFits, IsPersonal
<1>4. ~personal => world.access \in {"public", "gone"}
  BY <1>2 DEF WorldFits
<1>5. ASSUME NEW a \in Answer, Concluded(a, want),
             IF a = "401" /\ personal THEN Reauthorize ELSE UNCHANGED connection1,
             IF a = "ok" THEN Songs ELSE TellStatus(a)
      PROVE  ImportInv'
  <2>1. connection1' \in Connection1
    BY <1>2, <1>5, Reauthorized
  <2>2. failed' \in BOOLEAN /\ (~failed' => ~failed /\ a = want)
    <3> PICK due : due = want
      OBVIOUS
    <3> QED
      BY <1>2, <1>5, ThroughMeans
  <2>3. ~failed' => a \in {"ok", "401", "404"} /\ (a = "401" => personal)
    BY <2>2 DEF ToUser, ToApplication
  <2>4. ~failed' => (a = "ok" <=> Reachable)
    <3>1. CASE personal
      BY <1>2, <1>3, <2>2, <3>1 DEF ToUser, Reachable, UserReads, Connected
    <3>2. CASE ~personal
      BY <1>4, <2>2, <3>2 DEF ToApplication, Reachable, UserReads
    <3> QED
      BY <3>1, <3>2
  <2>5. CASE a = "ok"
    <3>1. Songs /\ connection1' = connection1
      BY <1>5, <2>5
    <3> QED
      BY <2>1, <2>2, <2>4, <2>5, <3>1, SongsFits, UserStays
  <2>6. CASE a # "ok"
    <3>1. ~failed' => ~Reachable'
      <4>1. CASE a = "401" /\ personal
        <5>1. ~UserReads'
          BY <1>5, <4>1, Reauthorized
        <5> QED
          BY <1>2, <1>3, <4>1, <5>1 DEF Reachable
      <4>2. CASE ~(a = "401" /\ personal)
        BY <1>5, <2>4, <2>6, <4>2, UserStays
      <4> QED
        BY <4>1, <4>2
    <3> QED
      BY <1>5, <2>1, <2>2, <2>3, <2>6, <3>1, StatusFits
  <2> QED
    BY <2>5, <2>6
<1>6. CASE \E a : Retried(a) \/ Renewed(a)
  BY <1>6, AgainFits
<1>7. CASE Tell("PROVIDER_AUTH_FAILURE", FALSE) /\ failed' = TRUE /\ connection1' = connection1
  BY <1>2, <1>7, TellFits DEF Code
<1> QED
  BY <1>5, <1>6, <1>7 DEF AskApple

-------------------------------------------------------------------------------
(* Search and the songs played last.                                           *)

LEMMA UnroutedStep == ASSUME Under, Search \/ RecentToken \/ Recent PROVE ImportInv'
<1>1. errand.step \in {"search", "recent token", "recent"} /\ connection1' = connection1
  BY DEF Search, RecentToken, Recent, AtStep
<1>2. /\ errand \in Errand /\ link' = link /\ world' = world /\ errand.route = Nobody
      /\ connection1 \in Connection1 /\ failed \in BOOLEAN
  BY <1>1, ImportTypes DEF Under, ImportInv, LinkFits, Unrouted
<1>3. ASSUME failed' \in BOOLEAN, Nothing1 \/ Tell("songs", FALSE) PROVE ImportInv'
  BY <1>1, <1>2, <1>3, TellFits DEF Nothing1, Code
<1>4. ASSUME To("recent"), failed' = failed PROVE ImportInv'
  <2>1. errand' \in Errand /\ errand'.step = "recent" /\ errand'.route = errand.route /\ told' = told
    BY <1>2, <1>4, ToFields DEF Step0
  <2>2. LinkFits' /\ Known'
    BY <1>2, <2>1 DEF LinkFits, StepFits, Asking, OfPlaylists, OfApple, Unrouted, Known
  <2> QED
    BY <1>1, <1>2, <1>4, <2>1, <2>2, MoveFits
<1>5. CASE \E a : Retried(a)
  BY <1>5, AgainFits
<1>6. CASE Search
  <2>1. ASSUME NEW a, Through(a, "ok") PROVE failed' \in BOOLEAN
    BY <1>2, <2>1, ThroughMeans
  <2> QED
    BY <1>3, <1>5, <1>6, <2>1 DEF Search
<1>7. CASE RecentToken
  BY <1>2, <1>3, <1>4, <1>7 DEF RecentToken
<1>8. CASE Recent
  <2>1. ASSUME NEW a, Through(a, IF connection1.status = "connected" THEN "ok" ELSE "401")
        PROVE  failed' \in BOOLEAN
    BY <1>2, <2>1 DEF Through
  <2> QED
    BY <1>3, <1>5, <1>8, <2>1 DEF Recent
<1> QED
  BY <1>6, <1>7, <1>8

LEMMA ImportInvInit == ImportInit => ImportInv
<1> SUFFICES ASSUME ImportInit PROVE ImportInv
  OBVIOUS
<1>1. /\ errand \in Errand /\ errand.step \in {"prepare", "search", "recent token"}
      /\ errand.prepared = link /\ errand.route = Nobody /\ errand.token = FALSE
  <2>1. 0 \in 0..FetchRetries
    BY ImportAssumption
  <2>2. PICK s \in {"prepare", "search", "recent token"} :
          errand = [step |-> s, tries |-> 0, again |-> FALSE, prepared |-> link, route |-> Nobody,
                    token |-> FALSE, userStatus |-> Nobody, status |-> Nobody]
    BY DEF ImportInit
  <2>3. link \in SpotifyLink \cup AppleLink \cup OtherLink
    BY DEF ImportInit
  <2> QED
    BY <2>1, <2>2, <2>3 DEF Errand, Step0
<1>2. ImportTypeOK /\ WorldFits
  BY <1>1 DEF ImportInit, ImportTypeOK, WorldFits
<1>3. LinkFits /\ Known
  BY <1>1 DEF LinkFits, StepFits, Asking, OfPlaylists, OfApple, Unrouted, Known
<1>4. NoFaultNoExcuse /\ PreparedAlike
  BY DEF ImportInit, NoFaultNoExcuse, PreparedAlike
<1> QED
  BY <1>2, <1>3, <1>4 DEF ImportInv

LEMMA ImportInvStep == ImportInv /\ [ImportNext]_importVars => ImportInv'
<1> SUFFICES ASSUME ImportInv, [ImportNext]_importVars PROVE ImportInv'
  OBVIOUS
<1>1. CASE ImportNext
  <2>1. Under
    BY <1>1 DEF ImportNext, Under
  <2> QED
    BY <1>1, <2>1, PrepareStep, ShortStep, LookupMade, LibraryTried, UserTokenStep, AskAsUserStep,
       AskAsApplicationStep, LaterTokenStep, AskAsUserLaterStep, JudgeStep, AppleTokenStep,
       FindInLibraryStep, AskAppleStep, UnroutedStep DEF ImportNext
<1>2. CASE UNCHANGED importVars
  <2>1. /\ link' = link /\ world' = world /\ connection1' = connection1 /\ errand' = errand
        /\ told' = told /\ failed' = failed
    BY <1>2 DEF importVars
  <2>2. /\ UserReads' <=> UserReads
        /\ WellFormed' <=> WellFormed
        /\ Meant' = Meant
    BY <2>1 DEF UserReads, WellFormed, Meant
  <2>3. ImportTypeOK' /\ WorldFits'
    BY <2>1 DEF ImportInv, ImportTypeOK, WorldFits
  <2>4. LinkFits'
    BY <2>1, <2>2 DEF ImportInv, LinkFits, StepFits
  <2>5. ~failed' => Known'
    BY <2>1, <2>2 DEF ImportInv, Known, Connected, HasToken
  <2>6. NoFaultNoExcuse' /\ PreparedAlike'
    BY <2>1, <2>2 DEF ImportInv, NoFaultNoExcuse, PreparedAlike, Reachable
  <2> QED
    BY <2>3, <2>4, <2>5, <2>6 DEF ImportInv
<1> QED
  BY <1>1, <1>2

-------------------------------------------------------------------------------
(* Collections: what a filter leaves                                           *)

LEMMA LeastNumber ==
    ASSUME NEW U \in SUBSET Nat, U # {}
    PROVE  \E u \in U : \A v \in U : u <= v
<1>1. IsWellFoundedOn({p \in Nat \X Nat : p[1] < p[2]}, Nat)
  BY NatLessThanWellFounded DEF OpToRel
<1>2. PICK u \in U : \A v \in U : ~(<<v, u>> \in {p \in Nat \X Nat : p[1] < p[2]})
  BY <1>1, WFMin
<1>3. \A v \in U : v \in Nat
  OBVIOUS
<1>4. ASSUME NEW v \in U PROVE u <= v
  <2>1. u \in Nat /\ v \in Nat /\ ~(<<v, u>> \in {p \in Nat \X Nat : p[1] < p[2]})
    BY <1>2, <1>3
  <2>2. ~(v < u)
    BY <2>1
  <2> QED
    BY <2>1, <2>2
<1> QED
  BY <1>4

\* The places before one, and how many they are.
PlacesBefore(S, i) == {j \in S : j < i}

LEMMA SubsetCounts ==
    ASSUME NEW n \in Nat, NEW S \in SUBSET (1..n)
    PROVE  IsFiniteSet(S) /\ Cardinality(S) \in Nat /\ Cardinality(S) <= n
<1>1. IsFiniteSet(1..n) /\ Cardinality(1..n) = n
  BY FS_Interval
<1>2. IsFiniteSet(S) /\ Cardinality(S) <= Cardinality(1..n)
  BY <1>1, FS_Subset
<1> QED
  BY <1>1, <1>2, FS_CardinalityType

LEMMA BeforeCounts ==
    ASSUME NEW n \in Nat, NEW S \in SUBSET (1..n), NEW i
    PROVE  /\ IsFiniteSet(PlacesBefore(S, i))
           /\ Cardinality(PlacesBefore(S, i)) \in Nat
           /\ Cardinality(PlacesBefore(S, i)) <= Cardinality(S)
<1>1. IsFiniteSet(S)
  BY SubsetCounts
<1>2. PlacesBefore(S, i) \subseteq S
  BY DEF PlacesBefore
<1>3. IsFiniteSet(PlacesBefore(S, i)) /\ Cardinality(PlacesBefore(S, i)) <= Cardinality(S)
  BY <1>1, <1>2, FS_Subset
<1> QED
  BY <1>3, FS_CardinalityType

LEMMA BeforeNext ==
    ASSUME NEW n \in Nat, NEW S \in SUBSET (1..n), NEW i \in Nat
    PROVE  Cardinality(PlacesBefore(S, i + 1)) =
             Cardinality(PlacesBefore(S, i)) + (IF i \in S THEN 1 ELSE 0)
<1>0. \A j \in S : j \in Nat
  OBVIOUS
<1>1. IsFiniteSet(PlacesBefore(S, i)) /\ Cardinality(PlacesBefore(S, i)) \in Nat
  BY BeforeCounts
<1>2. CASE i \in S
  <2>1. \A j \in S : j < i + 1 <=> j < i \/ j = i
    BY <1>0
  <2>2. PlacesBefore(S, i + 1) = PlacesBefore(S, i) \cup {i}
    BY <1>2, <2>1 DEF PlacesBefore
  <2>3. i \notin PlacesBefore(S, i)
    BY DEF PlacesBefore
  <2>4. Cardinality(PlacesBefore(S, i) \cup {i}) = Cardinality(PlacesBefore(S, i)) + 1
    BY <1>1, <2>3, FS_AddElement
  <2> QED
    BY <1>2, <2>2, <2>4
<1>3. CASE i \notin S
  <2>1. \A j \in S : j < i + 1 <=> j < i
    BY <1>0, <1>3
  <2>2. PlacesBefore(S, i + 1) = PlacesBefore(S, i)
    BY <2>1 DEF PlacesBefore
  <2> QED
    BY <1>1, <1>3, <2>2
<1> QED
  BY <1>2, <1>3

LEMMA BeforeGrows ==
    ASSUME NEW n \in Nat, NEW S \in SUBSET (1..n), NEW i \in S, NEW j \in Nat, i < j
    PROVE  Cardinality(PlacesBefore(S, i)) < Cardinality(PlacesBefore(S, j))
<1>1. i \in Nat /\ \A p \in S : p \in Nat
  OBVIOUS
<1>2. PlacesBefore(S, i + 1) \subseteq PlacesBefore(S, j)
  <2>1. \A p \in S : p < i + 1 => p < j
    BY <1>1
  <2> QED
    BY <2>1 DEF PlacesBefore
<1>3. IsFiniteSet(PlacesBefore(S, j)) /\ Cardinality(PlacesBefore(S, j)) \in Nat
  BY BeforeCounts
<1>4. Cardinality(PlacesBefore(S, i + 1)) <= Cardinality(PlacesBefore(S, j))
  BY <1>2, <1>3, FS_Subset
<1>5. /\ Cardinality(PlacesBefore(S, i + 1)) = Cardinality(PlacesBefore(S, i)) + 1
      /\ Cardinality(PlacesBefore(S, i)) \in Nat
  BY <1>1, BeforeCounts, BeforeNext
<1> QED
  BY <1>3, <1>4, <1>5

LEMMA NthIs ==
    ASSUME NEW n \in Nat, NEW S \in SUBSET (1..n), NEW i \in S
    PROVE  Nth(S, Cardinality(PlacesBefore(S, i)) + 1) = i
<1>0. \A p \in S : p \in Nat
  OBVIOUS
<1>1. i \in Nat /\ Cardinality(PlacesBefore(S, i)) \in Nat
  BY <1>0, BeforeCounts
<1>2. \A j \in S : Cardinality(PlacesBefore(S, j)) = Cardinality(PlacesBefore(S, i)) => j = i
  <2> TAKE j \in S
  <2>1. j \in Nat /\ Cardinality(PlacesBefore(S, j)) \in Nat
    BY <1>0, BeforeCounts
  <2>2. i < j => Cardinality(PlacesBefore(S, i)) < Cardinality(PlacesBefore(S, j))
    BY <2>1, BeforeGrows
  <2>3. j < i => Cardinality(PlacesBefore(S, j)) < Cardinality(PlacesBefore(S, i))
    BY <1>1, BeforeGrows
  <2> QED
    BY <1>1, <2>1, <2>2, <2>3
<1>3. (Cardinality(PlacesBefore(S, i)) + 1) - 1 = Cardinality(PlacesBefore(S, i))
  BY <1>1
<1>4. Nth(S, Cardinality(PlacesBefore(S, i)) + 1)
        = CHOOSE j \in S : Cardinality(PlacesBefore(S, j)) = Cardinality(PlacesBefore(S, i))
  BY <1>3 DEF Nth, PlacesBefore
<1> QED
  BY <1>2, <1>4

LEMMA NthAt ==
    ASSUME NEW n \in Nat, NEW S \in SUBSET (1..n), NEW k \in 1..Cardinality(S)
    PROVE  Nth(S, k) \in S /\ Cardinality(PlacesBefore(S, Nth(S, k))) = k - 1
<1>0. Cardinality(S) \in Nat /\ k \in Nat \ {0} /\ k <= Cardinality(S)
  <2>1. Cardinality(S) \in Nat
    BY SubsetCounts
  <2> QED
    BY <2>1
<1>00. \A j \in S : j \in Nat /\ j >= 1 /\ j <= n
  OBVIOUS
<1> DEFINE U == {m \in Nat : Cardinality(PlacesBefore(S, m)) >= k}
<1>1. n + 1 \in U
  <2>1. PlacesBefore(S, n + 1) = S
    <3>1. \A j \in S : j < n + 1
      BY <1>00
    <3> QED
      BY <3>1 DEF PlacesBefore
  <2> QED
    BY <1>0, <2>1
<1>2. PICK m \in U : \A v \in U : m <= v
  <2> HIDE DEF U
  <2>1. U \in SUBSET Nat
    BY DEF U
  <2> QED
    BY <1>1, <2>1, LeastNumber
<1>3. m \in Nat /\ Cardinality(PlacesBefore(S, m)) >= k
  BY <1>2
<1>4. m # 0
  <2>0. \A j \in S : ~(j < 0)
    BY <1>00
  <2>1. PlacesBefore(S, 0) = {} /\ Cardinality({}) = 0
    BY <2>0, FS_EmptySet DEF PlacesBefore
  <2> QED
    BY <1>0, <1>3, <2>1
<1>5. PICK i \in Nat : m = i + 1
  BY <1>3, <1>4
<1>6. ~(Cardinality(PlacesBefore(S, i)) >= k)
  BY <1>2, <1>5
<1>7. i \in S
  <2>1. Cardinality(PlacesBefore(S, i)) \in Nat
    BY BeforeCounts
  <2>2. Cardinality(PlacesBefore(S, i + 1)) = Cardinality(PlacesBefore(S, i)) + (IF i \in S THEN 1 ELSE 0)
    BY BeforeNext
  <2> QED
    BY <1>0, <1>3, <1>5, <1>6, <2>1, <2>2
<1>8. Cardinality(PlacesBefore(S, i)) \in Nat /\ Cardinality(PlacesBefore(S, i + 1)) = Cardinality(PlacesBefore(S, i)) + 1
  BY <1>7, BeforeCounts, BeforeNext
<1>9. Cardinality(PlacesBefore(S, i)) + 1 = k
  BY <1>0, <1>3, <1>5, <1>6, <1>8
<1>10. Nth(S, k) = i
  BY <1>7, <1>9, NthIs
<1> QED
  BY <1>0, <1>7, <1>8, <1>9, <1>10

\* The elements at some places of a list, in order: each of them, and no other.
LEMMA PickedIs ==
    ASSUME NEW T, NEW s \in Seq(T), NEW S \in SUBSET (1..Len(s))
    PROVE  /\ Picked(s, S) \in Seq(T) /\ Len(Picked(s, S)) = Cardinality(S)
           /\ \A k \in 1..Cardinality(S) : Nth(S, k) \in S /\ Picked(s, S)[k] = s[Nth(S, k)]
           /\ \A k, l \in 1..Cardinality(S) : k < l => Nth(S, k) < Nth(S, l)
           /\ \A i \in S : \E k \in 1..Cardinality(S) : Nth(S, k) = i
<1>0. Len(s) \in Nat /\ \A i \in 1..Len(s) : s[i] \in T
  OBVIOUS
<1>00. \A i \in S : i \in Nat /\ i >= 1 /\ i <= Len(s)
  BY <1>0
<1>1. Cardinality(S) \in Nat
  BY <1>0, SubsetCounts
<1>2. \A k \in 1..Cardinality(S) : Nth(S, k) \in S /\ Cardinality(PlacesBefore(S, Nth(S, k))) = k - 1
  BY <1>0, NthAt
<1>3. \A k \in 1..Cardinality(S) : s[Nth(S, k)] \in T
  BY <1>0, <1>2
<1>4. Picked(s, S) \in Seq(T) /\ Len(Picked(s, S)) = Cardinality(S)
  BY <1>1, <1>3 DEF Picked
<1>5. \A k \in 1..Cardinality(S) : Picked(s, S)[k] = s[Nth(S, k)]
  BY DEF Picked
<1>6. \A k, l \in 1..Cardinality(S) : k < l => Nth(S, k) < Nth(S, l)
  <2> SUFFICES ASSUME NEW k \in 1..Cardinality(S), NEW l \in 1..Cardinality(S), k < l
               PROVE  Nth(S, k) < Nth(S, l)
    OBVIOUS
  <2>1. /\ Nth(S, k) \in S /\ Cardinality(PlacesBefore(S, Nth(S, k))) = k - 1
        /\ Nth(S, l) \in S /\ Cardinality(PlacesBefore(S, Nth(S, l))) = l - 1
    BY <1>2
  <2>2. PICK i \in S : i = Nth(S, k)
    BY <2>1
  <2>3. PICK j \in S : j = Nth(S, l)
    BY <2>1
  <2>4. i \in Nat /\ j \in Nat
    OBVIOUS
  <2>5. j < i => Cardinality(PlacesBefore(S, j)) < Cardinality(PlacesBefore(S, i))
    BY <1>0, <2>4, BeforeGrows
  <2> QED
    BY <1>1, <2>1, <2>2, <2>3, <2>4, <2>5
<1>7. ASSUME NEW i \in S PROVE \E k \in 1..Cardinality(S) : Nth(S, k) = i
  <2>1. i \in Nat
    OBVIOUS
  <2>2. Cardinality(PlacesBefore(S, i)) \in Nat
    BY <1>0, <2>1, BeforeCounts
  <2>3. Cardinality(PlacesBefore(S, i)) < Cardinality(S)
    <3>1. PlacesBefore(S, Len(s) + 1) = S
      <4>1. \A j \in S : j < Len(s) + 1
        BY <1>0, <1>00
      <4> QED
        BY <4>1 DEF PlacesBefore
    <3>2. i < Len(s) + 1 /\ Len(s) + 1 \in Nat
      BY <1>0, <1>00
    <3> QED
      BY <1>0, <3>1, <3>2, BeforeGrows
  <2>4. Cardinality(PlacesBefore(S, i)) + 1 \in 1..Cardinality(S)
    BY <1>1, <2>2, <2>3
  <2> QED
    BY <1>0, <2>4, NthIs
<1> QED
  BY <1>4, <1>5, <1>6, <1>2, <1>7

-------------------------------------------------------------------------------
(* Collections                                                                 *)

\* Songs in the order of their places, each place once.
Ascending(t) == \A i, j \in 1..Len(t) : i < j => t[i].place < t[j].place

\* The songs with an id among the first n of a list.
SongsOf(list, n) == {OccurrenceId(list[i], i - 1) : i \in {i \in 1..n : list[i] \notin LocalTune}}

Starts(s, t) == Len(s) <= Len(t) /\ \A i \in 1..Len(s) : s[i] = t[i]

\* What is read so far is in order and before the offset; of a list left alone it
\* is every song up to there, and a page that is read is the next to be shown.
ReadInOrder ==
    /\ Ascending(reading.tracks)
    /\ \A i \in 1..Len(reading.tracks) : reading.tracks[i].place < reading.offset
    /\ reading.for = "page" => reading.page = shown.next

ReadInFull ==
    shown.calm /\ reading.for # "nobody" =>
        /\ reading.offset <= Len(playlist)
        /\ Range(reading.tracks) = SongsOf(playlist, reading.offset)
        /\ reading.done => reading.offset = Len(playlist) \/ Len(reading.tracks) >= ReadCap

\* Pages that have a next are full.
ShownByPages ==
    /\ Len(shown.tracks) <= MaxLength
    /\ shown.next > 0 => Len(shown.tracks) = (shown.next - 1) * PageLimit
    /\ shown.calm => /\ Starts(shown.tracks, Kept(playlist, 0))
                     /\ shown.next = 0 => \/ Len(shown.tracks) = Len(Kept(playlist, 0))
                                          \/ Len(shown.tracks) >= ReadCap

CollectionInv ==
    /\ CollectionTypeOK /\ IsFiniteSet(chosen)
    /\ ReadInOrder /\ ReadInFull /\ ShownByPages /\ SharedAsChosen

Placed == [tune : Tune, place : Nat]

LEMMA OccurrencesArePlaced == Occurrence \subseteq Placed
  BY CollectionAssumption DEF Occurrence, Placed

\* What is kept of a batch: its songs with an id, in order.
LEMMA KeptIs ==
    ASSUME NEW b \in Seq(Tune), NEW o \in Nat
    PROVE  /\ Kept(b, o) \in Seq(Placed) /\ Ascending(Kept(b, o))
           /\ \A p \in Range(Kept(b, o)) : \E i \in 1..Len(b) : b[i] \notin LocalTune /\ p = OccurrenceId(b[i], o + i - 1)
           /\ \A i \in 1..Len(b) : b[i] \notin LocalTune => OccurrenceId(b[i], o + i - 1) \in Range(Kept(b, o))
<1> DEFINE all == [i \in 1..Len(b) |-> OccurrenceId(b[i], o + i - 1)]
           kept == {i \in 1..Len(b) : b[i] \notin LocalTune}
<1>1. Kept(b, o) = Picked(all, kept)
  BY DEF Kept
<1>2. Len(b) \in Nat /\ \A i \in 1..Len(b) : b[i] \in Tune
  OBVIOUS
<1>3. \A i \in 1..Len(b) : OccurrenceId(b[i], o + i - 1) \in Placed /\ OccurrenceId(b[i], o + i - 1).place = o + i - 1
  BY <1>2 DEF OccurrenceId, Placed
<1>4. all \in Seq(Placed) /\ Len(all) = Len(b)
  BY <1>2, <1>3
<1>5. kept \in SUBSET (1..Len(all))
  BY <1>4
<1>6. \A i \in 1..Len(b) : all[i] = OccurrenceId(b[i], o + i - 1) /\ all[i].place = o + i - 1
  BY <1>3
<1>7. \A i \in 1..Len(b) : i \in kept <=> b[i] \notin LocalTune
  OBVIOUS
<1>70. \A i \in kept : i \in 1..Len(b) /\ i \in Nat
  BY <1>2
<1> HIDE DEF all, kept
<1>8. /\ Picked(all, kept) \in Seq(Placed) /\ Len(Picked(all, kept)) = Cardinality(kept)
      /\ \A k \in 1..Cardinality(kept) : Nth(kept, k) \in kept /\ Picked(all, kept)[k] = all[Nth(kept, k)]
      /\ \A k, l \in 1..Cardinality(kept) : k < l => Nth(kept, k) < Nth(kept, l)
      /\ \A i \in kept : \E k \in 1..Cardinality(kept) : Nth(kept, k) = i
  <2>1. /\ Picked(all, kept) \in Seq(Placed) /\ Len(Picked(all, kept)) = Cardinality(kept)
    BY <1>4, <1>5, PickedIs
  <2>2. \A k \in 1..Cardinality(kept) : Nth(kept, k) \in kept /\ Picked(all, kept)[k] = all[Nth(kept, k)]
    BY <1>4, <1>5, PickedIs
  <2>3. \A k, l \in 1..Cardinality(kept) : k < l => Nth(kept, k) < Nth(kept, l)
    BY <1>4, <1>5, PickedIs
  <2>4. \A i \in kept : \E k \in 1..Cardinality(kept) : Nth(kept, k) = i
    BY <1>4, <1>5, PickedIs
  <2> QED
    BY <2>1, <2>2, <2>3, <2>4
<1>9. Ascending(Picked(all, kept))
  <2> SUFFICES ASSUME NEW k \in 1..Cardinality(kept), NEW l \in 1..Cardinality(kept), k < l
               PROVE  Picked(all, kept)[k].place < Picked(all, kept)[l].place
    BY <1>8 DEF Ascending
  <2>1. Nth(kept, k) \in kept /\ Nth(kept, l) \in kept /\ Nth(kept, k) < Nth(kept, l)
    BY <1>8
  <2>2. PICK i \in kept : i = Nth(kept, k)
    BY <2>1
  <2>3. PICK j \in kept : j = Nth(kept, l)
    BY <2>1
  <2>4. all[i].place = o + i - 1 /\ all[j].place = o + j - 1 /\ i \in Nat /\ j \in Nat
    BY <1>6, <1>70
  <2>5. Picked(all, kept)[k] = all[i] /\ Picked(all, kept)[l] = all[j]
    BY <1>8, <2>2, <2>3
  <2> QED
    BY <2>1, <2>2, <2>3, <2>4, <2>5
<1>10. DOMAIN Picked(all, kept) = 1..Cardinality(kept)
  BY <1>8
<1>11. ASSUME NEW p \in Range(Picked(all, kept))
       PROVE  \E i \in 1..Len(b) : b[i] \notin LocalTune /\ p = OccurrenceId(b[i], o + i - 1)
  <2>1. PICK k \in 1..Cardinality(kept) : p = Picked(all, kept)[k]
    BY <1>10 DEF Range
  <2>2. PICK i \in kept : i = Nth(kept, k)
    BY <1>8
  <2>3. p = all[i] /\ i \in 1..Len(b)
    BY <1>8, <1>70, <2>1, <2>2
  <2> QED
    BY <1>6, <1>7, <2>3
<1>12. ASSUME NEW i \in 1..Len(b), b[i] \notin LocalTune
       PROVE  OccurrenceId(b[i], o + i - 1) \in Range(Picked(all, kept))
  <2>1. i \in kept
    BY <1>7, <1>12
  <2>2. PICK k \in 1..Cardinality(kept) : Nth(kept, k) = i
    BY <1>8, <2>1
  <2>3. Picked(all, kept)[k] = OccurrenceId(b[i], o + i - 1)
    BY <1>6, <1>8, <2>2
  <2> QED
    BY <1>10, <2>3 DEF Range
<1> QED
  BY <1>1, <1>8, <1>9, <1>11, <1>12

\* Of two lists in order, one that has the other's songs up to a place starts it.
LEMMA StartsWith ==
    ASSUME NEW s \in Seq(Placed), NEW t \in Seq(Placed), NEW n,
           Ascending(s), Ascending(t),
           \A p \in Range(s) : p \in Range(t) /\ p.place < n,
           \A p \in Range(t) : p.place < n => p \in Range(s),
           n \in Nat
    PROVE  Starts(s, t)
<1>0. /\ Len(s) \in Nat /\ Len(t) \in Nat /\ DOMAIN s = 1..Len(s) /\ DOMAIN t = 1..Len(t)
      /\ \A i \in 1..Len(s) : s[i] \in Placed
      /\ \A i \in 1..Len(t) : t[i] \in Placed
  OBVIOUS
<1>1. \A p \in Placed : p.place \in Nat
  BY DEF Placed
<1> DEFINE U == {i \in 1..Len(s) : ~(i <= Len(t) /\ s[i] = t[i])}
<1>2. ASSUME U # {} PROVE FALSE
  <2>1. U \in SUBSET Nat
    BY <1>0
  <2>2. PICK i \in U : \A j \in U : i <= j
    <3> HIDE DEF U
    <3> QED
      BY <1>2, <2>1, LeastNumber
  <2>3. i \in 1..Len(s) /\ i \in Nat /\ ~(i <= Len(t) /\ s[i] = t[i])
    BY <1>0, <2>2
  <2>4. \A k \in 1..Len(s) : k < i => k <= Len(t) /\ s[k] = t[k]
    BY <1>0, <2>2, <2>3
  <2>5. s[i] \in Range(s)
    BY <1>0, <2>3 DEF Range
  <2>6. PICK j \in 1..Len(t) : s[i] = t[j]
    BY <1>0, <2>5 DEF Range
  <2>7. ~(j < i)
    <3> SUFFICES ASSUME j < i PROVE FALSE
      OBVIOUS
    <3>1. j \in 1..Len(s)
      BY <1>0, <2>3
    <3>2. s[j] = s[i] /\ s[j].place < s[i].place /\ s[i].place \in Nat
      BY <1>0, <1>1, <2>3, <2>4, <2>6, <3>1 DEF Ascending
    <3> QED
      BY <3>2
  <2>8. i \in 1..Len(t)
    BY <1>0, <2>3, <2>7
  <2>9. i < j
    BY <1>0, <2>3, <2>6, <2>7, <2>8
  <2>10. /\ t[i].place < t[j].place /\ t[j].place < n
         /\ t[i].place \in Nat /\ t[j].place \in Nat
    BY <1>0, <1>1, <2>5, <2>6, <2>8, <2>9 DEF Ascending
  <2>11. t[i] \in Range(s)
    <3>1. t[i] \in Range(t)
      BY <1>0, <2>8 DEF Range
    <3> QED
      BY <2>10, <3>1
  <2>12. PICK m \in 1..Len(s) : t[i] = s[m]
    BY <1>0, <2>11 DEF Range
  <2>13. m # i
    BY <2>3, <2>8, <2>12
  <2>14. ~(m < i)
    <3> SUFFICES ASSUME m < i PROVE FALSE
      OBVIOUS
    <3>1. m \in 1..Len(t) /\ s[m] = t[m]
      BY <1>0, <2>4
    <3>2. t[m].place < t[i].place /\ t[m] = t[i]
      BY <2>8, <2>12, <3>1 DEF Ascending
    <3> QED
      BY <2>10, <3>2
  <2>15. s[i].place < s[m].place
    BY <1>0, <2>3, <2>13, <2>14 DEF Ascending
  <2> QED
    BY <2>6, <2>10, <2>12, <2>15
<1>3. \A i \in 1..Len(s) : i <= Len(t) /\ s[i] = t[i]
  BY <1>2
<1>4. Len(s) <= Len(t)
  BY <1>0, <1>3
<1> QED
  BY <1>3, <1>4 DEF Starts

LEMMA FirstNumbers == ASSUME NEW n \in Nat PROVE IsFiniteSet(1..n) /\ Cardinality(1..n) = n
  BY FS_Interval

LEMMA PlacedIs == \A p \in Placed : p.place \in Nat /\ p.tune \in Tune
  BY DEF Placed

LEMMA ListsAreTyped ==
    ASSUME NEW T, NEW s \in Seq(T)
    PROVE  /\ Len(s) \in Nat /\ DOMAIN s = 1..Len(s) /\ \A i \in 1..Len(s) : s[i] \in T
           /\ Range(s) = {s[i] : i \in 1..Len(s)}
  BY DEF Range

\* A list in order has no more songs than there are places.
LEMMA AscendingFits ==
    ASSUME NEW t \in Seq(Placed), Ascending(t), NEW n \in Nat,
           \A i \in 1..Len(t) : t[i].place < n
    PROVE  Len(t) <= n
<1>0. Len(t) \in Nat /\ \A i \in 1..Len(t) : t[i].place \in Nat
  BY ListsAreTyped, PlacedIs
<1> DEFINE f == [i \in 1..Len(t) |-> t[i].place + 1]
<1>1. f \in [1..Len(t) -> 1..n]
  BY <1>0
<1>2. \A i, j \in 1..Len(t) : f[i] = f[j] => i = j
  <2> SUFFICES ASSUME NEW i \in 1..Len(t), NEW j \in 1..Len(t), f[i] = f[j] PROVE i = j
    OBVIOUS
  <2>1. t[i].place = t[j].place
    BY <1>0
  <2>2. ~(i < j) /\ ~(j < i)
    BY <1>0, <2>1 DEF Ascending
  <2> QED
    BY <1>0, <2>2
<1>3. IsFiniteSet(1..n) /\ Cardinality(1..n) = n /\ Cardinality(1..Len(t)) = Len(t)
  BY <1>0, FirstNumbers
<1>4. f \in Injection(1..Len(t), 1..n)
  <2> HIDE DEF f
  <2> QED
    BY <1>1, <1>2, Fun_IsInj
<1>5. Cardinality(1..Len(t)) <= Cardinality(1..n)
  <2> HIDE DEF f
  <2> QED
    BY <1>3, <1>4, FS_Injection
<1> QED
  BY <1>3, <1>5

LEMMA SelectedIs ==
    ASSUME NEW tracks \in Seq(Placed), Ascending(tracks), NEW ids
    PROVE  /\ Selected(tracks, ids) \in Seq(Placed) /\ Ascending(Selected(tracks, ids))
           /\ Len(Selected(tracks, ids)) <= Len(tracks)
           /\ ids # {} => \A k \in 1..Len(Selected(tracks, ids)) : Selected(tracks, ids)[k] \in ids
<1>0. Len(tracks) \in Nat /\ (\A i \in 1..Len(tracks) : tracks[i] \in Placed /\ tracks[i].place \in Nat) /\ MaxShared \in Nat
  BY CollectionAssumption, ListsAreTyped, PlacedIs
<1>1. CASE ids = {}
  <2> DEFINE n == IF MaxShared < Len(tracks) THEN MaxShared ELSE Len(tracks)
  <2>1. n \in Nat /\ n <= Len(tracks)
    BY <1>0
  <2>2. Selected(tracks, ids) = SubSeq(tracks, 1, n)
    BY <1>1 DEF Selected
  <2> HIDE DEF n
  <2>3. \A i \in 1..n : tracks[i] \in Placed
    BY <1>0, <2>1
  <2>4. /\ SubSeq(tracks, 1, n) \in Seq(Placed)
        /\ Len(SubSeq(tracks, 1, n)) = n
        /\ \A i \in 1..n : SubSeq(tracks, 1, n)[i] = tracks[i]
    BY <2>1, <2>3
  <2>5. Ascending(SubSeq(tracks, 1, n))
    BY <1>0, <2>1, <2>4 DEF Ascending
  <2> QED
    BY <1>1, <2>1, <2>2, <2>4, <2>5
<1>2. CASE ids # {}
  <2> DEFINE found == {i \in 1..Len(tracks) : tracks[i] \in ids}
  <2>1. Selected(tracks, ids) = Picked(tracks, found)
    BY <1>2 DEF Selected
  <2>2. found \in SUBSET (1..Len(tracks)) /\ \A i \in found : tracks[i] \in ids /\ i \in 1..Len(tracks)
    OBVIOUS
  <2> HIDE DEF found
  <2>3. Picked(tracks, found) \in Seq(Placed) /\ Len(Picked(tracks, found)) = Cardinality(found)
    BY <2>2, PickedIs
  <2>4. \A k \in 1..Cardinality(found) : Nth(found, k) \in found /\ Picked(tracks, found)[k] = tracks[Nth(found, k)]
    BY <2>2, PickedIs
  <2>5. \A k, l \in 1..Cardinality(found) : k < l => Nth(found, k) < Nth(found, l)
    BY <2>2, PickedIs
  <2>6. Ascending(Picked(tracks, found))
    <3> SUFFICES ASSUME NEW k \in 1..Cardinality(found), NEW l \in 1..Cardinality(found), k < l
                 PROVE  Picked(tracks, found)[k].place < Picked(tracks, found)[l].place
      BY <2>3 DEF Ascending
    <3>1. Nth(found, k) \in 1..Len(tracks) /\ Nth(found, l) \in 1..Len(tracks) /\ Nth(found, k) < Nth(found, l)
      BY <2>2, <2>4, <2>5
    <3>2. tracks[Nth(found, k)].place < tracks[Nth(found, l)].place
      BY <3>1 DEF Ascending
    <3> QED
      BY <2>4, <3>2
  <2>7. Cardinality(found) <= Len(tracks)
    BY <1>0, <2>2, SubsetCounts
  <2> QED
    BY <2>1, <2>2, <2>3, <2>4, <2>6, <2>7
<1> QED
  BY <1>1, <1>2

\* As many songs in order as were chosen, each of them chosen: they are the chosen
\* ones, each after those of the places before its own.
LEMMA ChosenInOrder ==
    ASSUME NEW ids, IsFiniteSet(ids), NEW s \in Seq(Placed), Ascending(s),
           \A k \in 1..Len(s) : s[k] \in ids, Len(s) = Cardinality(ids),
           NEW o \in ids
    PROVE  s[1 + Cardinality({p \in ids : p.place < o.place})] = o
<1>0. Len(s) \in Nat /\ (\A i \in 1..Len(s) : s[i] \in Placed /\ s[i].place \in Nat) /\ s \in [1..Len(s) -> ids]
  <2>1. Len(s) \in Nat /\ \A i \in 1..Len(s) : s[i] \in Placed
    BY ListsAreTyped
  <2>2. s = [i \in 1..Len(s) |-> s[i]]
    OBVIOUS
  <2>3. s \in [1..Len(s) -> ids]
    BY <2>2
  <2> QED
    BY <2>1, <2>3, PlacedIs
<1>1. \A i, j \in 1..Len(s) : s[i].place < s[j].place <=> i < j
  <2> SUFFICES ASSUME NEW i \in 1..Len(s), NEW j \in 1..Len(s) PROVE s[i].place < s[j].place <=> i < j
    OBVIOUS
  <2>1. i < j => s[i].place < s[j].place
    BY DEF Ascending
  <2>2. j < i => s[j].place < s[i].place
    BY DEF Ascending
  <2>3. s[i].place \in Nat /\ s[j].place \in Nat /\ i \in Nat /\ j \in Nat
    BY <1>0
  <2>4. i = j => s[i].place = s[j].place
    OBVIOUS
  <2> QED
    BY <2>1, <2>2, <2>3, <2>4
<1>2. \A i, j \in 1..Len(s) : s[i] = s[j] => i = j
  BY <1>0, <1>1
<1>3. Cardinality(1..Len(s)) = Len(s) /\ IsFiniteSet(1..Len(s))
  BY <1>0, FirstNumbers
<1>4. s \in Injection(1..Len(s), ids)
  BY <1>0, <1>2, Fun_IsInj
<1>5. s \in Surjection(1..Len(s), ids)
  BY <1>3, <1>4, FS_Injection
<1>6. \A p \in ids : \E k \in 1..Len(s) : s[k] = p
  BY <1>5, Fun_SurjectionProperties
<1>7. PICK k \in 1..Len(s) : s[k] = o
  BY <1>6
<1> DEFINE before == {p \in ids : p.place < o.place}
           f == [i \in 1..(k - 1) |-> s[i]]
<1>8. k \in Nat /\ k - 1 \in Nat /\ \A i \in 1..(k - 1) : i \in 1..Len(s) /\ i < k
  BY <1>0
<1>9. \A i \in 1..(k - 1) : s[i] \in before
  BY <1>0, <1>1, <1>7, <1>8
<1>10. f \in [1..(k - 1) -> before]
  BY <1>9
<1>11. \A p \in before : \E i \in 1..(k - 1) : f[i] = p
  <2> TAKE p \in before
  <2>1. p \in ids /\ p.place < s[k].place
    BY <1>7
  <2>2. PICK i \in 1..Len(s) : s[i] = p
    BY <1>6, <2>1
  <2>3. i < k
    BY <1>1, <2>1, <2>2
  <2>4. i \in 1..(k - 1)
    BY <1>0, <1>8, <2>3
  <2> QED
    BY <2>2, <2>4
<1>12. \A i, j \in 1..(k - 1) : f[i] = f[j] => i = j
  BY <1>2, <1>8
<1>13. IsFiniteSet(1..(k - 1)) /\ Cardinality(1..(k - 1)) = k - 1
  BY <1>8, FirstNumbers
<1>14. Cardinality(before) = k - 1
  <2> HIDE DEF f, before
  <2>1. f \in Bijection(1..(k - 1), before)
    BY <1>10, <1>11, <1>12, Fun_IsBij
  <2>2. ExistsBijection(1..(k - 1), before)
    BY <2>1 DEF ExistsBijection
  <2> QED
    BY <1>13, <2>2, FS_Bijection
<1>15. 1 + Cardinality(before) = k
  BY <1>8, <1>14
<1> QED
  BY <1>7, <1>15

-------------------------------------------------------------------------------
(* Collections: the steps                                                      *)

LEMMA PlacedBelow ==
    ASSUME NEW s \in Seq(Placed), \A i \in 1..Len(s) : s[i].place <= MaxLength
    PROVE  s \in Seq(Occurrence)
<1>1. /\ Len(s) \in Nat /\ (\A i \in 1..Len(s) : s[i] \in Placed)
      /\ s = [i \in 1..Len(s) |-> s[i]] /\ MaxLength \in Nat
  BY CollectionAssumption, ListsAreTyped
<1>2. \A i \in 1..Len(s) : s[i] \in Occurrence
  BY <1>1 DEF Placed, Occurrence
<1> QED
  BY <1>1, <1>2

LEMMA OccurrenceLists == Seq(Occurrence) \subseteq Seq(Placed)
  BY OccurrencesArePlaced

\* What the invariant gives of the types.
LEMMA CollectionTypes ==
    ASSUME CollectionInv
    PROVE  /\ playlist \in Seq(Tune) /\ Len(playlist) \in Nat /\ Len(playlist) <= MaxLength
           /\ MaxLength \in Nat /\ BatchSize \in Nat \ {0} /\ ReadCap \in Nat \ {0} /\ PageLimit \in Nat \ {0}
           /\ reading = [for |-> reading.for, page |-> reading.page, offset |-> reading.offset,
                         tracks |-> reading.tracks, done |-> reading.done]
           /\ reading.for \in {"nobody", "page", "sharing"} /\ reading.page \in 1..(MaxLength + 1)
           /\ reading.offset \in 0..MaxLength /\ reading.tracks \in Seq(Occurrence)
           /\ reading.tracks \in Seq(Placed) /\ reading.done \in BOOLEAN
           /\ shown = [tracks |-> shown.tracks, next |-> shown.next, calm |-> shown.calm]
           /\ shown.tracks \in Seq(Occurrence) /\ shown.tracks \in Seq(Placed)
           /\ shown.next \in 0..(MaxLength + 1) /\ shown.calm \in BOOLEAN
           /\ Len(shown.tracks) \in Nat /\ Len(reading.tracks) \in Nat
<1>1. CollectionTypeOK
  BY DEF CollectionInv
<1>2. reading \in Reading /\ shown \in [tracks : Seq(Occurrence), next : 0..(MaxLength + 1), calm : BOOLEAN]
  BY <1>1 DEF CollectionTypeOK
<1>3. reading.tracks \in Seq(Occurrence) /\ shown.tracks \in Seq(Occurrence)
  BY <1>2 DEF Reading
<1>4. reading.tracks \in Seq(Placed) /\ shown.tracks \in Seq(Placed)
  BY <1>3, OccurrenceLists
<1>5. playlist \in Seq(Tune) /\ Len(playlist) \in Nat /\ Len(playlist) <= MaxLength
  BY <1>1 DEF CollectionTypeOK
<1> QED
  BY <1>2, <1>3, <1>4, <1>5, CollectionAssumption DEF Reading

LEMMA NothingRead ==
    /\ Reading0 \in Reading /\ Reading0.for = "nobody" /\ Reading0.tracks = <<>>
    /\ Ascending(<<>>) /\ Len(<<>>) = 0
  BY CollectionAssumption DEF Reading0, Reading, Ascending

\* A request ends.
LEMMA ReadingEnds ==
    ASSUME reading' = Reading0
    PROVE  ReadInOrder' /\ ReadInFull' /\ reading' \in Reading
<1>1. /\ reading' \in Reading /\ reading'.for = "nobody" /\ reading'.tracks = <<>>
  BY NothingRead
<1>2. Ascending(reading'.tracks) /\ \A i \in 1..Len(reading'.tracks) : FALSE
  BY <1>1, NothingRead
<1>3. ReadInOrder'
  BY <1>1, <1>2 DEF ReadInOrder
<1> QED
  BY <1>1, <1>3 DEF ReadInFull

LEMMA EditedIs ==
    ASSUME NEW list \in Seq(Tune), NEW i \in 1..(Len(list) + 1), NEW t \in Tune
    PROVE  /\ InsertAt(list, i, t) \in Seq(Tune) /\ Len(InsertAt(list, i, t)) = Len(list) + 1
           /\ i <= Len(list) => RemoveAt(list, i) \in Seq(Tune) /\ Len(RemoveAt(list, i)) = Len(list) - 1
<1>0. Len(list) \in Nat /\ i \in Nat \ {0} /\ \A j \in 1..Len(list) : list[j] \in Tune
  BY ListsAreTyped
<1>1. SubSeq(list, 1, i - 1) \in Seq(Tune) /\ Len(SubSeq(list, 1, i - 1)) = i - 1
  BY <1>0, SubSeqProperties
<1>2. SubSeq(list, i, Len(list)) \in Seq(Tune) /\ Len(SubSeq(list, i, Len(list))) = Len(list) - i + 1
  BY <1>0, SubSeqProperties
<1>3. <<t>> \in Seq(Tune) /\ Len(<<t>>) = 1
  OBVIOUS
<1>4. \A a, b, c \in Seq(Tune) :
        /\ a \o b \in Seq(Tune) /\ Len(a \o b) = Len(a) + Len(b)
        /\ (a \o b) \o c \in Seq(Tune) /\ Len((a \o b) \o c) = Len(a) + Len(b) + Len(c)
  OBVIOUS
<1>5. (SubSeq(list, 1, i - 1) \o <<t>>) \o SubSeq(list, i, Len(list)) = InsertAt(list, i, t)
  BY DEF InsertAt
<1>6. InsertAt(list, i, t) \in Seq(Tune) /\ Len(InsertAt(list, i, t)) = (i - 1) + 1 + (Len(list) - i + 1)
  <2>1. /\ InsertAt(list, i, t) \in Seq(Tune)
        /\ Len(InsertAt(list, i, t)) = Len(SubSeq(list, 1, i - 1)) + Len(<<t>>) + Len(SubSeq(list, i, Len(list)))
    <3>1. /\ (SubSeq(list, 1, i - 1) \o <<t>>) \o SubSeq(list, i, Len(list)) \in Seq(Tune)
          /\ Len((SubSeq(list, 1, i - 1) \o <<t>>) \o SubSeq(list, i, Len(list)))
               = Len(SubSeq(list, 1, i - 1)) + Len(<<t>>) + Len(SubSeq(list, i, Len(list)))
      <4>1. SubSeq(list, 1, i - 1) \in Seq(Tune)
        BY <1>1
      <4>2. <<t>> \in Seq(Tune)
        BY <1>3
      <4>3. SubSeq(list, i, Len(list)) \in Seq(Tune)
        BY <1>2
      <4>4. \A a, b, c \in Seq(Tune) :
              (a \o b) \o c \in Seq(Tune) /\ Len((a \o b) \o c) = Len(a) + Len(b) + Len(c)
        BY <1>4
      <4> QED
        BY <4>1, <4>2, <4>3, <4>4, Zenon
    <3> QED
      BY <3>1, <1>5, Zenon
  <2> QED
    BY <1>1, <1>2, <1>3, <2>1, Zenon
<1>7. ASSUME i <= Len(list)
      PROVE  RemoveAt(list, i) \in Seq(Tune) /\ Len(RemoveAt(list, i)) = (i - 1) + (Len(list) - i)
  <2>1. SubSeq(list, i + 1, Len(list)) \in Seq(Tune) /\ Len(SubSeq(list, i + 1, Len(list))) = Len(list) - i
    BY <1>0, <1>7, SubSeqProperties
  <2>2. /\ RemoveAt(list, i) \in Seq(Tune)
        /\ Len(RemoveAt(list, i)) = Len(SubSeq(list, 1, i - 1)) + Len(SubSeq(list, i + 1, Len(list)))
    BY <1>1, <1>4, <2>1, Zenon DEF RemoveAt
  <2> QED
    BY <1>1, <2>1, <2>2, Zenon
<1>8. /\ (i - 1) + 1 + (Len(list) - i + 1) = Len(list) + 1
      /\ (i - 1) + (Len(list) - i) = Len(list) - 1
  BY <1>0
<1> QED
  BY <1>6, <1>7, <1>8, Zenon

LEMMA EditStep == ASSUME CollectionInv, EditPlaylist PROVE CollectionInv'
<1>0. /\ playlist \in Seq(Tune) /\ Len(playlist) \in Nat /\ Len(playlist) <= MaxLength /\ MaxLength \in Nat
      /\ shown \in [tracks : Seq(Occurrence), next : 0..(MaxLength + 1), calm : BOOLEAN]
  BY CollectionTypes DEF CollectionInv, CollectionTypeOK
<1>1. playlist' \in Seq(Tune) /\ Len(playlist') <= MaxLength
  <2>1. PICK i \in 1..(Len(playlist) + 1) :
          \/ i <= Len(playlist) /\ playlist' = RemoveAt(playlist, i)
          \/ /\ Len(playlist) < MaxLength
             /\ \E t \in Tune : playlist' = InsertAt(playlist, i, t)
    BY DEF EditPlaylist
  <2>2. CASE i <= Len(playlist) /\ playlist' = RemoveAt(playlist, i)
    <3>1. playlist[i] \in Tune
      BY <1>0, <2>2
    <3>2. RemoveAt(playlist, i) \in Seq(Tune) /\ Len(RemoveAt(playlist, i)) = Len(playlist) - 1
      BY <1>0, <2>2, <3>1, EditedIs
    <3> QED
      BY <1>0, <2>2, <3>2
  <2>3. CASE Len(playlist) < MaxLength /\ \E t \in Tune : playlist' = InsertAt(playlist, i, t)
    <3>1. PICK t \in Tune : playlist' = InsertAt(playlist, i, t)
      BY <2>3
    <3>2. InsertAt(playlist, i, t) \in Seq(Tune) /\ Len(InsertAt(playlist, i, t)) = Len(playlist) + 1
      BY <1>0, EditedIs
    <3> QED
      BY <1>0, <2>3, <3>1, <3>2
  <2> QED
    BY <2>1, <2>2, <2>3
<1>2. /\ shown' \in [tracks : Seq(Occurrence), next : 0..(MaxLength + 1), calm : BOOLEAN]
      /\ shown'.tracks = shown.tracks /\ shown'.next = shown.next /\ shown'.calm = FALSE
  BY <1>0 DEF EditPlaylist
<1>3. edits' \in 0..MaxEdits /\ reading' = reading /\ chosen' = chosen /\ collection' = collection /\ importCount' = importCount
  BY CollectionAssumption DEF EditPlaylist, CollectionInv, CollectionTypeOK
<1>4. CollectionTypeOK'
  BY <1>1, <1>2, <1>3 DEF CollectionInv, CollectionTypeOK
<1>5. ReadInOrder' /\ ReadInFull'
  BY <1>2, <1>3 DEF CollectionInv, ReadInOrder, ReadInFull
<1>6. ShownByPages'
  BY <1>2 DEF CollectionInv, ShownByPages
<1>7. SharedAsChosen' /\ IsFiniteSet(chosen')
  BY <1>3 DEF CollectionInv, SharedAsChosen
<1> QED
  BY <1>4, <1>5, <1>6, <1>7 DEF CollectionInv

LEMMA BeginStep == ASSUME CollectionInv, BeginPage \/ BeginSharing PROVE CollectionInv'
<1>0. shown.next \in 0..(MaxLength + 1) /\ shown.tracks \in Seq(Occurrence) /\ MaxLength \in Nat /\ Len(playlist) \in Nat
  BY CollectionTypes
<1>1. /\ reading'.for \in {"page", "sharing"} /\ reading'.tracks = <<>> /\ reading'.offset = 0 /\ reading'.done = FALSE
      /\ reading'.for = "page" => reading'.page = shown.next
      /\ reading' \in Reading
      /\ UNCHANGED <<playlist, edits, shown, collection, importCount>>
  <2>1. CASE BeginPage
    <3>1. reading' = [for |-> "page", page |-> shown.next, offset |-> 0, tracks |-> <<>>, done |-> FALSE]
      BY <2>1 DEF BeginPage, Reading0
    <3>2. shown.next \in 1..(MaxLength + 1) /\ <<>> \in Seq(Occurrence) /\ 0 \in 0..MaxLength
      BY <1>0, <2>1 DEF BeginPage
    <3>3. reading' \in Reading
      BY <3>1, <3>2 DEF Reading
    <3>4. UNCHANGED <<playlist, edits, shown, collection, importCount>>
      BY <2>1 DEF BeginPage
    <3>5. /\ reading'.for = "page" /\ reading'.page = shown.next
          /\ reading'.offset = 0 /\ reading'.tracks = <<>> /\ reading'.done = FALSE
      BY <3>1
    <3> QED
      BY <3>3, <3>4, <3>5
  <2>2. CASE BeginSharing
    <3>1. reading' = [for |-> "sharing", page |-> 1, offset |-> 0, tracks |-> <<>>, done |-> FALSE]
      BY <2>2 DEF BeginSharing, Reading0
    <3>2. 1 \in 1..(MaxLength + 1) /\ <<>> \in Seq(Occurrence) /\ 0 \in 0..MaxLength
      BY <1>0
    <3>3. reading' \in Reading
      BY <3>1, <3>2 DEF Reading
    <3>4. UNCHANGED <<playlist, edits, shown, collection, importCount>>
      BY <2>2 DEF BeginSharing
    <3>5. /\ reading'.for = "sharing" /\ reading'.page = 1
          /\ reading'.offset = 0 /\ reading'.tracks = <<>> /\ reading'.done = FALSE
      BY <3>1
    <3> QED
      BY <3>3, <3>4, <3>5
  <2> QED
    BY <2>1, <2>2
<1>2. chosen' \in SUBSET Occurrence /\ IsFiniteSet(chosen')
  <2>1. CASE BeginPage
    BY <2>1 DEF BeginPage, CollectionInv, CollectionTypeOK
  <2>2. CASE BeginSharing
    <3>1. chosen' \subseteq Range(shown.tracks)
      BY <2>2 DEF BeginSharing
    <3>2. Range(shown.tracks) \subseteq Occurrence
      BY <1>0, ListsAreTyped
    <3>3. IsFiniteSet(Range(shown.tracks))
      <4>1. shown.tracks \in Surjection(1..Len(shown.tracks), Range(shown.tracks))
        <5>1. shown.tracks \in [1..Len(shown.tracks) -> Occurrence]
          BY <1>0
        <5> QED
          BY <5>1, Fun_RangeProperties
      <4>2. IsFiniteSet(1..Len(shown.tracks))
        BY <1>0, FirstNumbers, ListsAreTyped
      <4> QED
        BY <4>1, <4>2, FS_Surjection
    <3> QED
      BY <3>1, <3>2, <3>3, FS_Subset
  <2> QED
    BY <2>1, <2>2
<1>3. CollectionTypeOK'
  BY <1>1, <1>2 DEF CollectionInv, CollectionTypeOK
<1>4. ReadInOrder'
  <2>1. Ascending(reading'.tracks) /\ \A i \in 1..Len(reading'.tracks) : FALSE
    BY <1>1, NothingRead
  <2> QED
    BY <1>1, <2>1 DEF ReadInOrder
<1>5. ReadInFull'
  <2>1. Range(reading'.tracks) = {} /\ SongsOf(playlist', reading'.offset) = {}
    BY <1>1 DEF Range, SongsOf
  <2>2. reading'.offset <= Len(playlist') /\ ~reading'.done
    BY <1>0, <1>1
  <2>3. Range(reading'.tracks) = SongsOf(playlist', reading'.offset)
    BY <2>1
  <2> QED
    BY <2>2, <2>3 DEF ReadInFull
<1>6. ShownByPages' /\ SharedAsChosen'
  BY <1>1 DEF CollectionInv, ShownByPages, SharedAsChosen, Kept
<1> QED
  BY <1>2, <1>3, <1>4, <1>5, <1>6 DEF CollectionInv

\* A page of the provider: the songs from an offset on, none beyond the end.
LEMMA BatchIs ==
    ASSUME CollectionInv, NEW o \in Nat
    PROVE  /\ Batch(o) \in Seq(Tune) /\ Len(Batch(o)) \in Nat
           /\ o < Len(playlist) => Len(Batch(o)) > 0 /\ o + Len(Batch(o)) <= Len(playlist)
           /\ o >= Len(playlist) => Len(Batch(o)) = 0
           /\ \A i \in 1..Len(Batch(o)) : Batch(o)[i] = playlist[o + i]
<1>0. /\ Len(playlist) \in Nat /\ (\A i \in 1..Len(playlist) : playlist[i] \in Tune) /\ BatchSize \in Nat \ {0}
  BY CollectionTypes, ListsAreTyped
<1>1. PICK n \in Nat : n = IF o + BatchSize < Len(playlist) THEN o + BatchSize ELSE Len(playlist)
  BY <1>0
<1>2. Batch(o) = SubSeq(playlist, o + 1, n)
  BY <1>1 DEF Batch
<1>3. \A i \in (o + 1)..n : playlist[i] \in Tune
  BY <1>0, <1>1
<1>4. /\ SubSeq(playlist, o + 1, n) \in Seq(Tune)
      /\ Len(SubSeq(playlist, o + 1, n)) = IF o + 1 <= n THEN n - (o + 1) + 1 ELSE 0
      /\ \A i \in 1..(n - (o + 1) + 1) : SubSeq(playlist, o + 1, n)[i] = playlist[(o + 1) + i - 1]
  BY <1>3, SubSeqProperties
<1>5. \A i \in Nat : (o + 1) + i - 1 = o + i
  OBVIOUS
<1>6. \A i \in 1..Len(SubSeq(playlist, o + 1, n)) : SubSeq(playlist, o + 1, n)[i] = playlist[o + i]
  <2> TAKE i \in 1..Len(SubSeq(playlist, o + 1, n))
  <2>1. i \in Nat /\ i \in 1..(n - (o + 1) + 1)
    BY <1>0, <1>1, <1>4
  <2>2. SubSeq(playlist, o + 1, n)[i] = playlist[(o + 1) + i - 1]
    BY <1>4, <2>1
  <2> QED
    BY <1>5, <2>1, <2>2, Zenon
<1>7. PICK b \in Seq(Tune) : b = SubSeq(playlist, o + 1, n)
  BY <1>4
<1>8. Len(b) \in Nat /\ Len(b) = IF o + 1 <= n THEN n - (o + 1) + 1 ELSE 0
  BY <1>4, <1>7
<1>9. /\ o < Len(playlist) => Len(b) > 0 /\ o + Len(b) <= Len(playlist)
      /\ o >= Len(playlist) => Len(b) = 0
  BY <1>0, <1>1, <1>8
<1>10. \A i \in 1..Len(b) : b[i] = playlist[o + i]
  BY <1>6, <1>7
<1> QED
  BY <1>2, <1>7, <1>8, <1>9, <1>10

LEMMA ReadBatchOfSongs ==
    ASSUME CollectionInv, ReadBatch
    PROVE  /\ ReadInOrder' /\ ReadInFull' /\ reading' \in Reading
           /\ UNCHANGED <<playlist, edits, shown, chosen, collection, importCount>>
<1> DEFINE o == reading.offset
           b == Batch(o)
           kept == Kept(b, o)
           tracks == reading.tracks \o kept
<1>0. /\ Len(playlist) \in Nat /\ Len(playlist) <= MaxLength /\ MaxLength \in Nat
      /\ reading.for \in {"page", "sharing"} /\ reading.page \in 1..(MaxLength + 1)
      /\ o \in Nat /\ o <= MaxLength /\ reading.tracks \in Seq(Placed)
      /\ reading = [for |-> reading.for, page |-> reading.page, offset |-> reading.offset,
                    tracks |-> reading.tracks, done |-> reading.done]
  BY CollectionTypes DEF ReadBatch
<1>1. /\ b \in Seq(Tune) /\ Len(b) \in Nat /\ o + Len(b) <= MaxLength
      /\ o < Len(playlist) => Len(b) > 0 /\ o + Len(b) <= Len(playlist)
      /\ o >= Len(playlist) => Len(b) = 0
      /\ \A i \in 1..Len(b) : b[i] = playlist[o + i]
  BY <1>0, BatchIs
<1>2. /\ reading'.for = reading.for /\ reading'.page = reading.page /\ reading'.offset = o + Len(b)
      /\ reading'.tracks = tracks
      /\ reading'.done = (b = <<>> \/ o + Len(b) >= Len(playlist) \/ Len(tracks) >= ReadCap)
      /\ reading' = [for |-> reading'.for, page |-> reading'.page, offset |-> reading'.offset,
                     tracks |-> reading'.tracks, done |-> reading'.done]
      /\ UNCHANGED <<playlist, edits, shown, chosen, collection, importCount>>
  <2>1. reading' = [for |-> reading.for, page |-> reading.page, offset |-> o + Len(b), tracks |-> tracks,
                    done |-> (b = <<>> \/ o + Len(b) >= Len(playlist) \/ Len(tracks) >= ReadCap)]
    BY <1>0 DEF ReadBatch, NextOffset
  <2>2. UNCHANGED <<playlist, edits, shown, chosen, collection, importCount>>
    BY DEF ReadBatch
  <2> QED
    BY <2>1, <2>2
<1>3. /\ kept \in Seq(Placed) /\ Ascending(kept)
      /\ \A p \in Range(kept) : \E i \in 1..Len(b) : b[i] \notin LocalTune /\ p = OccurrenceId(b[i], o + i - 1)
      /\ \A i \in 1..Len(b) : b[i] \notin LocalTune => OccurrenceId(b[i], o + i - 1) \in Range(kept)
  BY <1>0, <1>1, KeptIs
<1> HIDE DEF b, kept
<1>4. /\ tracks \in Seq(Placed) /\ Len(tracks) = Len(reading.tracks) + Len(kept)
      /\ Len(reading.tracks) \in Nat /\ Len(kept) \in Nat
      /\ \A i \in 1..Len(reading.tracks) : tracks[i] = reading.tracks[i]
      /\ \A i \in 1..Len(kept) : tracks[Len(reading.tracks) + i] = kept[i]
  BY <1>0, <1>3
<1>5. \A p \in Range(kept) : p.place \in Nat /\ o <= p.place /\ p.place < o + Len(b)
  BY <1>0, <1>1, <1>3 DEF OccurrenceId
<1>6. \A i \in 1..Len(kept) : kept[i] \in Range(kept)
  BY <1>3, ListsAreTyped
<1>7. \A i \in 1..Len(reading.tracks) : reading.tracks[i].place \in Nat /\ reading.tracks[i].place < o
  BY <1>0, ListsAreTyped, PlacedIs DEF CollectionInv, ReadInOrder
<1> HIDE DEF tracks
<1>8. \A i \in 1..Len(tracks) :
        \/ i \in 1..Len(reading.tracks)
        \/ \E j \in 1..Len(kept) : i = Len(reading.tracks) + j
  <2> TAKE i \in 1..Len(tracks)
  <2>1. CASE ~(i <= Len(reading.tracks))
    <3>1. i - Len(reading.tracks) \in 1..Len(kept) /\ i = Len(reading.tracks) + (i - Len(reading.tracks))
      BY <1>4, <2>1
    <3> QED
      BY <3>1
  <2>2. CASE i <= Len(reading.tracks)
    BY <1>4, <2>2
  <2> QED
    BY <2>1, <2>2
<1>9. \A i \in 1..Len(tracks) : tracks[i].place < o + Len(b)
  <2> TAKE i \in 1..Len(tracks)
  <2>1. CASE i \in 1..Len(reading.tracks)
    BY <1>0, <1>1, <1>4, <1>7, <2>1
  <2>2. CASE \E j \in 1..Len(kept) : i = Len(reading.tracks) + j
    BY <1>4, <1>5, <1>6, <2>2
  <2> QED
    BY <1>8, <2>1, <2>2
<1>10. Ascending(tracks)
  <2> SUFFICES ASSUME NEW i \in 1..Len(tracks), NEW j \in 1..Len(tracks), i < j
               PROVE  tracks[i].place < tracks[j].place
    BY DEF Ascending
  <2>0. i \in Nat /\ j \in Nat
    BY <1>4
  <2>1. CASE j \in 1..Len(reading.tracks)
    <3>1. i \in 1..Len(reading.tracks)
      BY <1>4, <2>0, <2>1
    <3>2. Ascending(reading.tracks)
      BY DEF CollectionInv, ReadInOrder
    <3>3. reading.tracks[i].place < reading.tracks[j].place
      BY <2>1, <3>1, <3>2 DEF Ascending
    <3> QED
      BY <1>4, <2>1, <3>1, <3>3
  <2>2. CASE \E l \in 1..Len(kept) : j = Len(reading.tracks) + l
    <3>1. PICK l \in 1..Len(kept) : j = Len(reading.tracks) + l
      BY <2>2
    <3>2. tracks[j] = kept[l] /\ kept[l].place \in Nat /\ o <= kept[l].place
      BY <1>4, <1>5, <1>6, <3>1
    <3>3. CASE i \in 1..Len(reading.tracks)
      BY <1>0, <1>4, <1>7, <3>2, <3>3
    <3>4. CASE \E k \in 1..Len(kept) : i = Len(reading.tracks) + k
      <4>1. PICK k \in 1..Len(kept) : i = Len(reading.tracks) + k
        BY <3>4
      <4>2. k < l
        BY <1>4, <3>1, <4>1
      <4>3. kept[k].place < kept[l].place
        BY <1>3, <4>2 DEF Ascending
      <4> QED
        BY <1>4, <3>2, <4>1, <4>3
    <3> QED
      BY <1>8, <3>3, <3>4
  <2> QED
    BY <1>8, <2>1, <2>2
<1>11. tracks \in Seq(Occurrence)
  <2>1. \A i \in 1..Len(tracks) : tracks[i].place \in Nat /\ tracks[i].place < o + Len(b)
    BY <1>4, <1>9, ListsAreTyped, PlacedIs
  <2>2. \A i \in 1..Len(tracks) : tracks[i].place <= MaxLength
    BY <1>0, <1>1, <2>1
  <2> QED
    BY <1>4, <2>2, PlacedBelow
<1>12. reading' \in Reading
  <2>1. reading'.done \in BOOLEAN
    <3>1. (b = <<>> \/ o + Len(b) >= Len(playlist) \/ Len(tracks) >= ReadCap) \in BOOLEAN
      OBVIOUS
    <3> QED
      BY <1>2, <3>1, Zenon
  <2>2. o + Len(b) \in 0..MaxLength
    BY <1>0, <1>1
  <2> QED
    BY <1>0, <1>2, <1>11, <2>1, <2>2 DEF Reading
<1>13. ReadInOrder'
  BY <1>2, <1>9, <1>10 DEF CollectionInv, ReadInOrder
<1>14. ReadInFull'
  <2> SUFFICES ASSUME shown.calm
               PROVE  /\ o + Len(b) <= Len(playlist)
                      /\ Range(tracks) = SongsOf(playlist, o + Len(b))
                      /\ reading'.done => o + Len(b) = Len(playlist) \/ Len(tracks) >= ReadCap
    BY <1>2 DEF ReadInFull
  <2>1. o <= Len(playlist) /\ Range(reading.tracks) = SongsOf(playlist, o)
    BY <1>0 DEF CollectionInv, ReadInFull
  <2>2. o + Len(b) <= Len(playlist)
    BY <1>0, <1>1, <2>1
  <2>3. reading'.done => o + Len(b) = Len(playlist) \/ Len(tracks) >= ReadCap
    <3>1. b = <<>> => Len(b) = 0
      OBVIOUS
    <3>2. reading'.done => b = <<>> \/ o + Len(b) >= Len(playlist) \/ Len(tracks) >= ReadCap
      BY <1>2, Zenon
    <3>3. b = <<>> => o + Len(b) = Len(playlist)
      BY <1>0, <1>1, <2>1, <3>1
    <3>4. o + Len(b) >= Len(playlist) => o + Len(b) = Len(playlist)
      BY <1>0, <1>1, <2>2
    <3> QED
      BY <3>2, <3>3, <3>4, Zenon
  <2>4. ASSUME NEW p \in Range(tracks) PROVE p \in SongsOf(playlist, o + Len(b))
    <3>1. PICK i \in 1..Len(tracks) : p = tracks[i]
      BY <1>4, ListsAreTyped
    <3>2. CASE i \in 1..Len(reading.tracks)
      <4>1. p \in Range(reading.tracks)
        BY <1>0, <1>4, <3>1, <3>2, ListsAreTyped
      <4>2. PICK k \in 1..o : playlist[k] \notin LocalTune /\ p = OccurrenceId(playlist[k], k - 1)
        BY <2>1, <4>1 DEF SongsOf
      <4>3. k \in 1..(o + Len(b))
        BY <1>0, <1>1
      <4> QED
        BY <4>2, <4>3 DEF SongsOf
    <3>3. CASE \E j \in 1..Len(kept) : i = Len(reading.tracks) + j
      <4>1. p \in Range(kept)
        BY <1>4, <1>6, <3>1, <3>3
      <4>2. PICK k \in 1..Len(b) : b[k] \notin LocalTune /\ p = OccurrenceId(b[k], o + k - 1)
        BY <1>3, <4>1
      <4>3. PICK m \in 1..(o + Len(b)) : m = o + k /\ b[k] = playlist[m]
        BY <1>0, <1>1
      <4>4. playlist[m] \notin LocalTune /\ o + k - 1 = m - 1
        BY <1>0, <4>2, <4>3
      <4>5. p = OccurrenceId(playlist[m], m - 1)
        BY <4>2, <4>3, <4>4
      <4> QED
        BY <4>4, <4>5 DEF SongsOf
    <3> QED
      BY <1>8, <3>2, <3>3
  <2>5. ASSUME NEW p \in SongsOf(playlist, o + Len(b)) PROVE p \in Range(tracks)
    <3>1. PICK k \in 1..(o + Len(b)) : playlist[k] \notin LocalTune /\ p = OccurrenceId(playlist[k], k - 1)
      BY DEF SongsOf
    <3>2. CASE k <= o
      <4>1. k \in 1..o
        BY <1>0, <1>1, <3>2
      <4>2. p \in Range(reading.tracks)
        BY <2>1, <3>1, <4>1 DEF SongsOf
      <4>3. PICK i \in 1..Len(reading.tracks) : p = reading.tracks[i]
        BY <1>0, <4>2, ListsAreTyped
      <4>4. i \in 1..Len(tracks) /\ p = tracks[i]
        BY <1>4, <4>3
      <4> QED
        BY <1>4, <4>4, ListsAreTyped
    <3>3. CASE ~(k <= o)
      <4>1. PICK l \in 1..Len(b) : k = o + l
        <5>1. k - o \in 1..Len(b) /\ k = o + (k - o)
          BY <1>0, <1>1, <3>3
        <5> QED
          BY <5>1
      <4>2. p \in Range(kept)
        <5>1. b[l] = playlist[k] /\ k - 1 = o + l - 1
          BY <1>0, <1>1, <4>1
        <5>2. b[l] \notin LocalTune /\ p = OccurrenceId(b[l], o + l - 1)
          BY <3>1, <5>1
        <5> QED
          BY <1>3, <5>2
      <4>3. PICK i \in 1..Len(kept) : p = kept[i]
        BY <1>3, <4>2, ListsAreTyped
      <4>4. Len(reading.tracks) + i \in 1..Len(tracks) /\ p = tracks[Len(reading.tracks) + i]
        BY <1>4, <4>3
      <4> QED
        BY <1>4, <4>4, ListsAreTyped
    <3> QED
      BY <3>2, <3>3
  <2> QED
    BY <2>2, <2>3, <2>4, <2>5
<1> QED
  BY <1>2, <1>12, <1>13, <1>14

LEMMA ReadSongsStep == ASSUME CollectionInv, ReadBatch PROVE CollectionInv'
<1>1. /\ ReadInOrder' /\ ReadInFull' /\ reading' \in Reading
      /\ UNCHANGED <<playlist, edits, shown, chosen, collection, importCount>>
  BY ReadBatchOfSongs
<1>2. CollectionTypeOK' /\ IsFiniteSet(chosen')
  BY <1>1 DEF CollectionInv, CollectionTypeOK
<1>3. ShownByPages' /\ SharedAsChosen'
  BY <1>1 DEF CollectionInv, ShownByPages, SharedAsChosen
<1> QED
  BY <1>1, <1>2, <1>3 DEF CollectionInv

LEMMA ReadFailsStep == ASSUME CollectionInv, ReadFails PROVE CollectionInv'
<1>1. /\ reading' = Reading0 /\ chosen' = {}
      /\ UNCHANGED <<playlist, edits, shown, collection, importCount>>
  BY DEF ReadFails
<1>2. ReadInOrder' /\ ReadInFull' /\ reading' \in Reading
  BY <1>1, ReadingEnds
<1>3. CollectionTypeOK' /\ IsFiniteSet(chosen')
  BY <1>1, <1>2, FS_EmptySet DEF CollectionInv, CollectionTypeOK
<1>4. ShownByPages' /\ SharedAsChosen'
  BY <1>1 DEF CollectionInv, ShownByPages, SharedAsChosen
<1> QED
  BY <1>2, <1>3, <1>4 DEF CollectionInv

LEMMA NothingShown ==
    ASSUME NEW list \in Seq(Tune)
    PROVE  Nothing0.tracks = <<>> /\ Nothing0.next = 1 /\ Starts(<<>>, Kept(list, 0)) /\ (1 - 1) * PageLimit = 0
<1>1. Len(Kept(list, 0)) \in Nat
  BY KeptIs
<1> QED
  BY <1>1, CollectionAssumption DEF Nothing0, Starts

LEMMA RefreshStep == ASSUME CollectionInv, Refresh PROVE CollectionInv'
<1>0. playlist \in Seq(Tune) /\ MaxLength \in Nat
  BY CollectionTypes
<1>1. /\ shown' = Nothing0 /\ reading.for = "nobody"
      /\ UNCHANGED <<playlist, edits, reading, chosen, collection, importCount>>
  BY DEF Refresh
<1>2. shown'.tracks = <<>> /\ shown'.next = 1 /\ Starts(<<>>, Kept(playlist, 0)) /\ (1 - 1) * PageLimit = 0
  BY <1>0, <1>1, NothingShown
<1>3. shown' \in [tracks : Seq(Occurrence), next : 0..(MaxLength + 1), calm : BOOLEAN]
  BY <1>0, <1>1 DEF Nothing0
<1>4. CollectionTypeOK' /\ IsFiniteSet(chosen')
  BY <1>1, <1>3 DEF CollectionInv, CollectionTypeOK
<1>5. ReadInOrder' /\ ReadInFull'
  BY <1>1 DEF CollectionInv, ReadInOrder, ReadInFull
<1>6. ShownByPages'
  <2>1. Len(shown'.tracks) = 0 /\ shown'.next # 0 /\ playlist' = playlist
    BY <1>1, <1>2
  <2>2. Len(shown'.tracks) = (shown'.next - 1) * PageLimit
    BY <1>2, <2>1
  <2>3. Starts(shown'.tracks, Kept(playlist', 0))
    BY <1>2, <2>1
  <2> QED
    BY <1>0, <2>1, <2>2, <2>3 DEF ShownByPages
<1>7. SharedAsChosen'
  BY <1>1 DEF CollectionInv, SharedAsChosen
<1> QED
  BY <1>4, <1>5, <1>6, <1>7 DEF CollectionInv

LEMMA RecordStep == ASSUME CollectionInv, RecordPlaylistImport PROVE CollectionInv'
<1>0. MaxLength \in Nat /\ Len(shown.tracks) \in Nat /\ Len(shown.tracks) <= MaxLength
  BY CollectionTypes DEF CollectionInv, ShownByPages
<1>1. /\ importCount' \in 1..Len(shown.tracks)
      /\ UNCHANGED <<playlist, edits, reading, shown, chosen, collection>>
  BY DEF RecordPlaylistImport
<1>2. importCount' \in 0..MaxLength
  BY <1>0, <1>1
<1>3. CollectionTypeOK' /\ IsFiniteSet(chosen')
  BY <1>1, <1>2 DEF CollectionInv, CollectionTypeOK
<1>4. ReadInOrder' /\ ReadInFull' /\ ShownByPages' /\ SharedAsChosen'
  BY <1>1 DEF CollectionInv, ReadInOrder, ReadInFull, ShownByPages, SharedAsChosen
<1> QED
  BY <1>3, <1>4 DEF CollectionInv

LEMMA CreateCollectionStep == ASSUME CollectionInv, CreateCollection PROVE CollectionInv'
<1> DEFINE selected == Selected(reading.tracks, chosen)
           made == [tracks |-> Tunes(selected), trackCount |-> Len(selected), chosen |-> chosen]
<1>0. /\ reading.tracks \in Seq(Placed) /\ reading.offset \in 0..MaxLength /\ MaxLength \in Nat
      /\ Ascending(reading.tracks) /\ IsFiniteSet(chosen) /\ chosen \subseteq Occurrence
      /\ \A i \in 1..Len(reading.tracks) : reading.tracks[i].place < reading.offset
  BY CollectionTypes DEF CollectionInv, CollectionTypeOK, ReadInOrder
<1>1. /\ collection' = IF Accepts(reading.tracks, chosen) THEN made ELSE collection
      /\ reading' = Reading0 /\ chosen' = {}
      /\ UNCHANGED <<playlist, edits, shown, importCount>>
  BY DEF CreateCollection
<1>2. ReadInOrder' /\ ReadInFull' /\ reading' \in Reading
  BY <1>1, ReadingEnds
<1>3. /\ selected \in Seq(Placed) /\ Ascending(selected) /\ Len(selected) <= Len(reading.tracks)
      /\ chosen # {} => \A k \in 1..Len(selected) : selected[k] \in chosen
  BY <1>0, SelectedIs
<1>4. Len(reading.tracks) <= MaxLength
  <2>1. reading.offset \in Nat /\ reading.offset <= MaxLength /\ Len(reading.tracks) \in Nat
    BY <1>0
  <2>2. Len(reading.tracks) <= reading.offset
    BY <1>0, <2>1, AscendingFits
  <2> QED
    BY <1>0, <2>1, <2>2
<1>5. Accepts(reading.tracks, chosen) /\ chosen # {} => Len(selected) = Cardinality(chosen)
  BY DEF Accepts
<1> HIDE DEF selected
<1>6. Len(selected) \in Nat /\ (\A i \in 1..Len(selected) : selected[i] \in Placed) /\ Len(reading.tracks) \in Nat
  BY <1>0, <1>3, ListsAreTyped
<1>7. /\ Tunes(selected) \in Seq(Tune) /\ Len(Tunes(selected)) = Len(selected)
      /\ \A k \in 1..Len(selected) : Tunes(selected)[k] = selected[k].tune
  <2>1. \A i \in 1..Len(selected) : selected[i].tune \in Tune
    BY <1>6, PlacedIs
  <2> QED
    BY <1>6, <2>1 DEF Tunes
<1>8. made \in [tracks : Seq(Tune), trackCount : 0..MaxLength, chosen : SUBSET Occurrence]
  <2>1. Len(selected) \in 0..MaxLength
    BY <1>0, <1>3, <1>4, <1>6
  <2> QED
    BY <1>0, <1>7, <2>1
<1>9. ASSUME Accepts(reading.tracks, chosen), chosen # {}
      PROVE  /\ Len(Tunes(selected)) = Cardinality(chosen)
             /\ \A o \in chosen :
                  Tunes(selected)[1 + Cardinality({p \in chosen : p.place < o.place})] = o.tune
  <2>1. Len(selected) = Cardinality(chosen) /\ Len(selected) \in Nat
    BY <1>5, <1>6, <1>9
  <2>2. ASSUME NEW o \in chosen
        PROVE  Tunes(selected)[1 + Cardinality({p \in chosen : p.place < o.place})] = o.tune
    <3>1. PICK before : before = {p \in chosen : p.place < o.place}
      OBVIOUS
    <3>2. selected[1 + Cardinality(before)] = o
      BY <1>0, <1>3, <1>9, <2>1, <3>1, ChosenInOrder
    <3>3. before \subseteq chosen /\ o \in chosen /\ o \notin before
      <4>1. o.place \in Nat
        BY <1>0, OccurrencesArePlaced, PlacedIs
      <4> QED
        BY <3>1, <4>1
    <3>4. Cardinality(before) \in Nat /\ Cardinality(before) < Cardinality(chosen)
      <4>1. IsFiniteSet(before) /\ Cardinality(before) <= Cardinality(chosen)
        BY <1>0, <3>3, FS_Subset
      <4>2. Cardinality(before) # Cardinality(chosen)
        BY <1>0, <3>3, FS_Subset
      <4>3. Cardinality(before) \in Nat /\ Cardinality(chosen) \in Nat
        BY <1>0, <4>1, FS_CardinalityType
      <4> QED
        BY <4>1, <4>2, <4>3
    <3>5. 1 + Cardinality(before) \in 1..Len(selected)
      BY <2>1, <3>4
    <3>6. Tunes(selected)[1 + Cardinality(before)] = o.tune
      BY <1>7, <3>2, <3>5
    <3> QED
      BY <3>1, <3>6
  <2> QED
    BY <1>7, <2>1, <2>2
<1>10. SharedAsChosen'
  <2>1. CASE ~Accepts(reading.tracks, chosen)
    BY <1>1, <2>1 DEF CollectionInv, SharedAsChosen
  <2>2. CASE Accepts(reading.tracks, chosen)
    <3>1. collection'.tracks = Tunes(selected) /\ collection'.chosen = chosen
      BY <1>1, <2>2
    <3>2. CASE chosen = {}
      BY <3>1, <3>2 DEF SharedAsChosen
    <3>3. CASE chosen # {}
      BY <1>9, <2>2, <3>1, <3>3 DEF SharedAsChosen
    <3> QED
      BY <3>2, <3>3
  <2> QED
    BY <2>1, <2>2
<1>11. CollectionTypeOK' /\ IsFiniteSet(chosen')
  <2>1. collection' \in {NoTune} \cup [tracks : Seq(Tune), trackCount : 0..MaxLength, chosen : SUBSET Occurrence]
    <3> HIDE DEF made
    <3> QED
      BY <1>1, <1>8 DEF CollectionInv, CollectionTypeOK
  <2> QED
    BY <1>1, <1>2, <2>1, FS_EmptySet DEF CollectionInv, CollectionTypeOK
<1>12. ShownByPages'
  BY <1>1 DEF CollectionInv, ShownByPages
<1> QED
  BY <1>2, <1>10, <1>11, <1>12 DEF CollectionInv

LEMMA Multiples ==
    ASSUME NEW p \in Nat \ {0}, NEW l \in Nat \ {0}
    PROVE  (p - 1) * l \in Nat /\ p * l \in Nat /\ p * l = (p - 1) * l + l /\ p <= p * l
<1>1. PICK q \in Nat : p = q + 1 /\ p - 1 = q
  OBVIOUS
<1>2. q * l \in Nat /\ (q + 1) * l = q * l + l /\ q <= q * l
  OBVIOUS
<1> QED
  BY <1>1, <1>2

\* The songs of a list up to an offset start what is kept of all of it, and are all
\* of it at the end.
LEMMA ReadStarts ==
    ASSUME NEW list \in Seq(Tune), NEW t \in Seq(Placed), Ascending(t),
           NEW o \in Nat, o <= Len(list), Range(t) = SongsOf(list, o)
    PROVE  Starts(t, Kept(list, 0)) /\ (o = Len(list) => Starts(Kept(list, 0), t))
<1>0. Len(list) \in Nat
  BY ListsAreTyped
<1>1. /\ Kept(list, 0) \in Seq(Placed) /\ Ascending(Kept(list, 0))
      /\ \A p \in Range(Kept(list, 0)) : \E i \in 1..Len(list) : list[i] \notin LocalTune /\ p = OccurrenceId(list[i], 0 + i - 1)
      /\ \A i \in 1..Len(list) : list[i] \notin LocalTune => OccurrenceId(list[i], 0 + i - 1) \in Range(Kept(list, 0))
  BY KeptIs
<1>2. \A i \in 1..Len(list) : 0 + i - 1 = i - 1 /\ (i <= o <=> i - 1 < o) /\ i - 1 < Len(list)
  BY <1>0
<1>3. \A x, n : OccurrenceId(x, n).place = n
  BY DEF OccurrenceId
<1>4. ASSUME NEW p \in Range(t) PROVE p \in Range(Kept(list, 0)) /\ p.place < o
  <2>1. PICK i \in 1..o : list[i] \notin LocalTune /\ p = OccurrenceId(list[i], i - 1)
    BY DEF SongsOf
  <2>2. i \in 1..Len(list)
    BY <1>0
  <2>3. i - 1 < o /\ 0 + i - 1 = i - 1
    OBVIOUS
  <2> QED
    BY <1>1, <1>3, <2>1, <2>2, <2>3
<1>5. ASSUME NEW p \in Range(Kept(list, 0)), p.place < o PROVE p \in Range(t)
  <2>1. PICK i \in 1..Len(list) : list[i] \notin LocalTune /\ p = OccurrenceId(list[i], 0 + i - 1)
    BY <1>1
  <2>2. p = OccurrenceId(list[i], i - 1) /\ i - 1 < o
    BY <1>2, <1>3, <1>5, <2>1
  <2>3. i \in 1..o
    BY <1>0, <2>2
  <2> QED
    BY <2>1, <2>2, <2>3 DEF SongsOf
<1>6. Starts(t, Kept(list, 0))
  BY <1>1, <1>4, <1>5, StartsWith
<1>7. ASSUME o = Len(list) PROVE Starts(Kept(list, 0), t)
  <2>1. ASSUME NEW p \in Range(Kept(list, 0)) PROVE p.place < o
    <3>1. PICK i \in 1..Len(list) : list[i] \notin LocalTune /\ p = OccurrenceId(list[i], 0 + i - 1)
      BY <1>1
    <3> QED
      BY <1>2, <1>3, <1>7, <3>1
  <2> QED
    BY <1>1, <1>4, <1>5, <2>1, StartsWith
<1> QED
  BY <1>6, <1>7

LEMMA ShowPageStep == ASSUME CollectionInv, ShowPage PROVE CollectionInv'
<1> DEFINE t == reading.tracks
           p == reading.page
           m == (p - 1) * PageLimit
           n == IF p * PageLimit < Len(t) THEN p * PageLimit ELSE Len(t)
           page == SubSeq(t, m + 1, n)
           now == shown.tracks \o page
           all == Kept(playlist, 0)
<1>0. /\ playlist \in Seq(Tune) /\ Len(playlist) \in Nat /\ MaxLength \in Nat
      /\ t \in Seq(Occurrence) /\ t \in Seq(Placed) /\ Len(t) \in Nat /\ Ascending(t)
      /\ shown.tracks \in Seq(Occurrence) /\ Len(shown.tracks) \in Nat
      /\ reading.offset \in Nat /\ reading.offset <= MaxLength
      /\ shown.calm \in BOOLEAN /\ PageLimit \in Nat \ {0} /\ p \in Nat \ {0} /\ p <= MaxLength + 1
      /\ \A i \in 1..Len(t) : t[i].place < reading.offset
      /\ reading.for = "page" /\ reading.done /\ p = shown.next
  BY CollectionTypes DEF CollectionInv, ReadInOrder, ShowPage
<1>1. /\ shown' = [tracks |-> now, next |-> IF p * PageLimit < Len(t) THEN p + 1 ELSE 0, calm |-> shown.calm]
      /\ reading' = Reading0
      /\ UNCHANGED <<playlist, edits, chosen, collection, importCount>>
  BY DEF ShowPage, PageOf, HasMore
<1>2. m \in Nat /\ p * PageLimit \in Nat /\ p * PageLimit = m + PageLimit /\ p <= p * PageLimit
  BY <1>0, Multiples
<1>3. Len(t) <= MaxLength
  <2>1. Len(t) <= reading.offset
    BY <1>0, AscendingFits
  <2> QED
    BY <1>0, <2>1
<1>4. Len(shown.tracks) = m /\ m <= MaxLength
  BY <1>0 DEF CollectionInv, ShownByPages
<1>5. PICK q \in Nat : q = p * PageLimit
  BY <1>2
<1>6. PICK k \in Nat : k = m
  BY <1>2
<1>7. PICK l \in Nat : l = n
  BY <1>0, <1>2
<1>8. /\ q = k + PageLimit /\ p <= q
      /\ q < Len(t) => l = q
      /\ ~(q < Len(t)) => l = Len(t)
  BY <1>2, <1>5, <1>6, <1>7
<1>9. l <= Len(t)
  BY <1>0, <1>8
<1>10. page = SubSeq(t, k + 1, l)
  BY <1>6, <1>7
<1> HIDE DEF m, n, page
<1>11. \A i \in (k + 1)..l : t[i] \in Occurrence
  BY <1>0, <1>9, ListsAreTyped
<1>12. /\ page \in Seq(Occurrence) /\ Len(page) = (IF k + 1 <= l THEN l - (k + 1) + 1 ELSE 0)
       /\ \A i \in 1..(l - (k + 1) + 1) : page[i] = t[(k + 1) + i - 1]
  BY <1>10, <1>11, SubSeqProperties
<1>13. Len(page) \in Nat /\ Len(page) = (IF k < l THEN l - k ELSE 0)
  BY <1>12
<1>14. \A i \in 1..Len(page) : page[i] = t[k + i]
  <2> TAKE i \in 1..Len(page)
  <2>1. i \in Nat /\ i \in 1..(l - (k + 1) + 1) /\ (k + 1) + i - 1 = k + i
    BY <1>12, <1>13
  <2>2. page[i] = t[(k + 1) + i - 1]
    BY <1>12, <2>1
  <2> QED
    BY <2>1, <2>2, Zenon
<1>15. /\ now \in Seq(Occurrence) /\ Len(now) = k + Len(page)
       /\ \A i \in 1..k : now[i] = shown.tracks[i]
       /\ \A i \in 1..Len(page) : now[k + i] = page[i]
  <2>1. \A a, b \in Seq(Occurrence) :
          /\ a \o b \in Seq(Occurrence) /\ Len(a \o b) = Len(a) + Len(b)
          /\ \A i \in 1..Len(a) : (a \o b)[i] = a[i]
          /\ \A i \in 1..Len(b) : (a \o b)[Len(a) + i] = b[i]
    OBVIOUS
  <2>2. Len(shown.tracks) = k
    BY <1>4, <1>6
  <2> QED
    BY <1>0, <1>12, <2>1, <2>2, Zenon
<1> HIDE DEF now
<1>16. /\ q < Len(t) => Len(now) = q
       /\ ~(q < Len(t)) => Len(now) = IF k < Len(t) THEN Len(t) ELSE k
  BY <1>0, <1>8, <1>13, <1>15
<1>17. /\ shown'.tracks = now /\ shown'.calm = shown.calm
       /\ shown'.next = IF q < Len(t) THEN p + 1 ELSE 0
  BY <1>1, <1>5
<1>18. shown' \in [tracks : Seq(Occurrence), next : 0..(MaxLength + 1), calm : BOOLEAN]
  <2>1. (IF p * PageLimit < Len(t) THEN p + 1 ELSE 0) \in 0..(MaxLength + 1)
    BY <1>0, <1>3, <1>5, <1>8
  <2> QED
    BY <1>0, <1>1, <1>15, <2>1
<1>19. ReadInOrder' /\ ReadInFull' /\ reading' \in Reading
  BY <1>1, ReadingEnds
<1>20. CollectionTypeOK' /\ IsFiniteSet(chosen')
  BY <1>1, <1>18, <1>19 DEF CollectionInv, CollectionTypeOK
<1>21. SharedAsChosen'
  BY <1>1 DEF CollectionInv, SharedAsChosen
<1>22. Len(now) <= MaxLength
  BY <1>0, <1>3, <1>4, <1>6, <1>8, <1>16
<1>23. shown'.next > 0 => Len(now) = (shown'.next - 1) * PageLimit
  <2> SUFFICES ASSUME q < Len(t) PROVE Len(now) = (shown'.next - 1) * PageLimit
    BY <1>0, <1>17
  <2>1. shown'.next - 1 = p
    BY <1>0, <1>17
  <2>2. Len(now) = p * PageLimit
    BY <1>5, <1>16
  <2> QED
    BY <2>1, <2>2, Zenon
<1>24. ASSUME shown.calm
       PROVE  /\ Starts(now, all)
              /\ shown'.next = 0 => Len(now) = Len(all) \/ Len(now) >= ReadCap
  <2>1. /\ reading.offset <= Len(playlist) /\ Range(t) = SongsOf(playlist, reading.offset)
        /\ reading.offset = Len(playlist) \/ Len(t) >= ReadCap
    BY <1>0, <1>24 DEF CollectionInv, ReadInFull
  <2>2. Starts(t, all) /\ (reading.offset = Len(playlist) => Starts(all, t))
    BY <1>0, <2>1, ReadStarts
  <2>3. Starts(shown.tracks, all)
    BY <1>24 DEF CollectionInv, ShownByPages
  <2>4. Len(all) \in Nat /\ ReadCap \in Nat
    BY <1>0, KeptIs, CollectionAssumption
  <2> HIDE DEF all
  <2>5. /\ Len(t) <= Len(all) /\ k <= Len(all)
        /\ \A i \in 1..Len(t) : t[i] = all[i]
        /\ \A i \in 1..k : shown.tracks[i] = all[i]
    BY <1>4, <1>6, <2>2, <2>3 DEF Starts
  <2>6. Len(now) <= Len(all)
    BY <1>0, <1>8, <1>16, <2>4, <2>5
  <2>7. ASSUME NEW i \in 1..Len(now) PROVE now[i] = all[i]
    <3>0. i \in Nat \ {0}
      BY <1>15, <1>13
    <3>1. CASE i <= k
      BY <1>15, <2>5, <3>0, <3>1
    <3>2. CASE ~(i <= k)
      <4>1. PICK j \in 1..Len(page) : i = k + j
        <5>1. i - k \in 1..Len(page) /\ i = k + (i - k)
          BY <1>13, <1>15, <3>0, <3>2
        <5> QED
          BY <5>1
      <4>2. now[i] = t[i]
        BY <1>14, <1>15, <4>1
      <4>3. i \in 1..Len(t)
        BY <1>0, <1>9, <1>13, <3>0, <3>2, <4>1
      <4> QED
        BY <2>5, <4>2, <4>3
    <3> QED
      BY <3>1, <3>2
  <2>8. Starts(now, all)
    BY <2>6, <2>7 DEF Starts
  <2>9. ASSUME shown'.next = 0 PROVE Len(now) = Len(all) \/ Len(now) >= ReadCap
    <3>1. ~(q < Len(t))
      BY <1>0, <1>17, <2>9
    <3>2. Len(now) >= Len(t) /\ Len(now) \in Nat
      BY <1>0, <1>16, <3>1
    <3>3. CASE Len(t) >= ReadCap
      BY <1>0, <2>4, <3>2, <3>3
    <3>4. CASE reading.offset = Len(playlist)
      <4>1. Len(all) <= Len(t)
        BY <2>2, <3>4 DEF Starts
      <4> QED
        BY <1>0, <2>4, <2>6, <3>2, <4>1
    <3> QED
      BY <2>1, <3>3, <3>4
  <2> QED
    BY <2>8, <2>9
<1>25. ShownByPages'
  <2>1. playlist' = playlist
    BY <1>1
  <2> QED
    BY <1>17, <1>22, <1>23, <1>24, <2>1 DEF ShownByPages
<1> QED
  BY <1>19, <1>20, <1>21, <1>25 DEF CollectionInv

LEMMA CollectionInvInit == CollectionInit => CollectionInv
<1> SUFFICES ASSUME CollectionInit PROVE CollectionInv
  OBVIOUS
<1>0. MaxLength \in Nat /\ MaxEdits \in Nat
  BY CollectionAssumption
<1>1. playlist \in Seq(Tune) /\ Len(playlist) <= MaxLength
  <2>1. PICK n \in 0..MaxLength : playlist \in [1..n -> Tune]
    BY DEF CollectionInit
  <2>2. n \in Nat /\ n <= MaxLength
    BY <1>0
  <2> QED
    BY <2>1, <2>2
<1>2. reading = Reading0 /\ shown = Nothing0 /\ chosen = {} /\ collection = NoTune /\ importCount = 0 /\ edits = 0
  BY DEF CollectionInit
<1>3. reading \in Reading /\ reading.for = "nobody" /\ reading.tracks = <<>>
  BY <1>2, NothingRead
<1>4. shown.tracks = <<>> /\ shown.next = 1 /\ Starts(<<>>, Kept(playlist, 0)) /\ (1 - 1) * PageLimit = 0
  BY <1>1, <1>2, NothingShown
<1>5. shown \in [tracks : Seq(Occurrence), next : 0..(MaxLength + 1), calm : BOOLEAN]
  BY <1>0, <1>2 DEF Nothing0
<1>6. CollectionTypeOK
  BY <1>0, <1>1, <1>2, <1>3, <1>5 DEF CollectionTypeOK
<1>7. ReadInOrder /\ ReadInFull
  <2>1. Ascending(reading.tracks) /\ \A i \in 1..Len(reading.tracks) : FALSE
    BY <1>3, NothingRead
  <2> QED
    BY <1>3, <2>1 DEF ReadInOrder, ReadInFull
<1>8. ShownByPages
  <2>1. Len(shown.tracks) = 0 /\ shown.next # 0
    BY <1>4
  <2>2. Len(shown.tracks) = (shown.next - 1) * PageLimit
    BY <1>4, <2>1
  <2>3. Starts(shown.tracks, Kept(playlist, 0))
    BY <1>4
  <2> QED
    BY <1>0, <2>1, <2>2, <2>3 DEF ShownByPages
<1>9. SharedAsChosen
  BY <1>2 DEF SharedAsChosen
<1>10. IsFiniteSet(chosen)
  BY <1>2, FS_EmptySet
<1> QED
  BY <1>6, <1>7, <1>8, <1>9, <1>10 DEF CollectionInv

LEMMA CollectionInvStep == CollectionInv /\ [CollectionNext]_collectionVars => CollectionInv'
<1> SUFFICES ASSUME CollectionInv, [CollectionNext]_collectionVars PROVE CollectionInv'
  OBVIOUS
<1>1. CASE EditPlaylist
  BY <1>1, EditStep
<1>2. CASE BeginPage \/ BeginSharing
  BY <1>2, BeginStep
<1>3. CASE ReadBatch
  BY <1>3, ReadSongsStep
<1>4. CASE ReadFails
  BY <1>4, ReadFailsStep
<1>5. CASE ShowPage
  BY <1>5, ShowPageStep
<1>6. CASE Refresh
  BY <1>6, RefreshStep
<1>7. CASE CreateCollection
  BY <1>7, CreateCollectionStep
<1>8. CASE RecordPlaylistImport
  BY <1>8, RecordStep
<1>9. CASE UNCHANGED collectionVars
  BY <1>9 DEF CollectionInv, CollectionTypeOK, ReadInOrder, ReadInFull, ShownByPages, SharedAsChosen, collectionVars
<1> QED
  BY <1>1, <1>2, <1>3, <1>4, <1>5, <1>6, <1>7, <1>8, <1>9 DEF CollectionNext

\* What the invariant says of the list is what the app was promised.
LEMMA CollectionShows == CollectionInv => CollectionTypeOK /\ ShownInFull /\ SharedAsChosen
<1> SUFFICES ASSUME CollectionInv PROVE CollectionTypeOK /\ ShownInFull /\ SharedAsChosen
  OBVIOUS
<1> DEFINE all == Kept(playlist, 0)
<1>1. ASSUME shown.calm PROVE ShownInFull
  <2>1. /\ Starts(shown.tracks, all)
        /\ shown.next = 0 => Len(shown.tracks) = Len(all) \/ Len(shown.tracks) >= ReadCap
    BY <1>1 DEF CollectionInv, ShownByPages
  <2>2. Len(shown.tracks) \in Nat /\ playlist \in Seq(Tune) /\ shown.tracks \in Seq(Placed)
    BY CollectionTypes
  <2>3. Len(all) \in Nat /\ all \in Seq(Placed)
    BY <2>2, KeptIs
  <2> HIDE DEF all
  <2>4. Len(shown.tracks) <= Len(all) /\ \A i \in 1..Len(shown.tracks) : shown.tracks[i] = all[i]
    BY <2>1 DEF Starts
  <2>5. \A i \in 1..Len(shown.tracks) : i \in 1..Len(all)
    BY <2>2, <2>3, <2>4
  <2>6. /\ Len(Tunes(shown.tracks)) = Len(shown.tracks)
        /\ \A i \in 1..Len(shown.tracks) : Tunes(shown.tracks)[i] = shown.tracks[i].tune
        /\ Tunes(shown.tracks) \in Seq(Tune)
    <3>1. \A i \in 1..Len(shown.tracks) : shown.tracks[i].tune \in Tune
      BY <2>2, ListsAreTyped, PlacedIs
    <3> QED
      BY <2>2, <3>1 DEF Tunes
  <2>7. /\ Len(Tunes(all)) = Len(all) /\ \A i \in 1..Len(all) : Tunes(all)[i] = all[i].tune
        /\ Tunes(all) \in Seq(Tune)
    <3>1. \A i \in 1..Len(all) : all[i].tune \in Tune
      BY <2>3, ListsAreTyped, PlacedIs
    <3> QED
      BY <2>3, <3>1 DEF Tunes
  <2>8. \A i \in 1..Len(shown.tracks) : Tunes(shown.tracks)[i] = Tunes(all)[i]
    BY <2>4, <2>5, <2>6, <2>7
  <2>9. IsPrefix(Tunes(shown.tracks), Tunes(all))
    <3>1. SubSeq(Tunes(shown.tracks), 1, Len(Tunes(shown.tracks))) = SubSeq(Tunes(all), 1, Len(Tunes(shown.tracks)))
      BY <2>2, <2>5, <2>6, <2>7, <2>8
    <3> QED
      BY <2>4, <2>6, <2>7, <3>1 DEF IsPrefix
  <2>10. Len(shown.tracks) = Len(all) => Tunes(shown.tracks) = Tunes(all)
    BY <2>6, <2>7, <2>8, SeqEqual
  <2>11. Whole(playlist) = Tunes(all)
    BY DEF Whole, all
  <2> QED
    BY <2>1, <2>9, <2>10, <2>11 DEF ShownInFull
<1>2. ~shown.calm => ShownInFull
  BY DEF ShownInFull
<1> QED
  BY <1>1, <1>2 DEF CollectionInv

-------------------------------------------------------------------------------
(* Compositions                                                                *)

\* A stored composition has layers and, unless its row says otherwise, is made
\* for the template and the version of its row.
HasLayers(c) == c # Missing => c.layers # <<>>
RowFits(r) ==
    r # Missing =>
        /\ HasLayers(r.composition)
        /\ r.composition # Missing /\ ~r.mixed =>
             r.composition.template = r.template /\ r.composition.version = r.version

CatalogueFits ==
    \A t \in Template : LET c == template[t].composition IN c # Missing => c.layers # <<>> /\ c.template = t

CompositionInv ==
    /\ CompositionTypeOK /\ CatalogueFits
    /\ RowFits(repit) /\ RowFits(edit) /\ RowFits(batch)
    /\ batch # Missing => batch.composition = Missing
    /\ schema = "legacy" =>
         /\ edit = Missing /\ batch = Missing /\ owners = Missing
         /\ repit # Missing => repit.composition = Missing
    /\ owners # Missing /\ ~overwritten /\ repit # Missing => repit.composition = owners

-------------------------------------------------------------------------------
(* The normalisation.                                                          *)

LEMMA LayerStays == ASSUME NEW l \in Layer, NEW p PROVE NormalizeLayer(l, p) = l
<1>1. l.zIndex \in 0..2 /\ l.opacity \in 0..1 /\ l.id # "none" /\ l.zIndex # Missing /\ l.opacity # Missing
  BY MissingAssumption DEF Layer
<1>2. l.zIndex >= 0 /\ l.opacity <= 1
  BY <1>1
<1>3. l = [type |-> l.type, id |-> l.id, zIndex |-> l.zIndex, opacity |-> l.opacity]
  BY DEF Layer
<1> QED
  BY <1>1, <1>2, <1>3 DEF NormalizeLayer

\* How many numbers come before one of the first.
LEMMA NumbersBelow ==
    ASSUME NEW n \in Nat, NEW i \in 1..n
    PROVE  Cardinality({j \in 1..n : j < i}) = i - 1
<1>1. {j \in 1..n : j < i} = 1..(i - 1)
  OBVIOUS
<1>2. Cardinality(1..(i - 1)) = i - 1
  BY FS_Interval
<1> QED
  BY <1>1, <1>2

LEMMA NthOfAll == ASSUME NEW n \in Nat, NEW k \in 1..n PROVE Nth(1..n, k) = k
  BY NumbersBelow DEF Nth

LEMMA PickedAll ==
    ASSUME NEW n \in Nat, NEW s, s = [i \in 1..n |-> s[i]]
    PROVE  Picked(s, 1..n) = s
<1>1. Cardinality(1..n) = n
  BY FS_Interval
<1>2. \A k \in 1..n : s[Nth(1..n, k)] = s[k]
  BY NthOfAll
<1> QED
  BY <1>1, <1>2 DEF Picked

LEMMA LayersStay == ASSUME NEW s \in Seq(Layer) PROVE NormalizeLayers(s) = s
<1>1. PICK n \in Nat : DOMAIN s = 1..n /\ (\A i \in 1..n : s[i] \in Layer) /\ s = [i \in 1..n |-> s[i]]
  <2>1. Len(s) \in Nat
    OBVIOUS
  <2> QED
    BY <2>1
<1>2. {i \in DOMAIN s : s[i].type \in LayerType} = 1..n
  BY <1>1 DEF Layer
<1>3. [i \in DOMAIN s |-> NormalizeLayer(s[i], i)] = s
  BY <1>1, LayerStays
<1>4. NormalizeLayers(s) = Picked(s, 1..n)
  BY <1>2, <1>3 DEF NormalizeLayers
<1> QED
  BY <1>1, <1>4, PickedAll

\* What clients send becomes layers.
LEMMA LayersMade == ASSUME NEW s \in RawLayers PROVE NormalizeLayers(s) \in Seq(Layer)
<1> DEFINE first == [type |-> "photo", id |-> "own", zIndex |-> -1, opacity |-> 2]
           last == [type |-> "musicWidget", id |-> "none", zIndex |-> Missing, opacity |-> Missing]
           all == [i \in DOMAIN s |-> NormalizeLayer(s[i], i)]
           known == {i \in DOMAIN s : s[i].type \in LayerType}
<1>0. Missing \notin Int
  BY MissingAssumption
<1>1. CASE s = <<Unknown>>
  <2>1. known = {}
    BY <1>1 DEF Unknown, LayerType
  <2>2. Cardinality({}) = 0 /\ 1..0 = {}
    BY FS_EmptySet
  <2> HIDE DEF known, all
  <2>3. Picked(all, known) = <<>>
    BY <2>1, <2>2 DEF Picked
  <2> QED
    BY <2>3 DEF NormalizeLayers, known, all
<1>2. CASE s = <<first, Unknown, last>>
  <2>1. known = {1, 3}
    <3>1. DOMAIN s = 1..3 /\ s[1].type = "photo" /\ s[2].type = "unknown" /\ s[3].type = "musicWidget"
      BY <1>2 DEF Unknown
    <3> QED
      BY <3>1 DEF LayerType
  <2>2. Cardinality({}) = 0 /\ Cardinality({1}) = 1
    BY FS_EmptySet, FS_Singleton
  <2>3. Cardinality({1, 3}) = 2
    <3>1. IsFiniteSet({1})
      BY FS_Singleton
    <3>2. {1, 3} = {1} \cup {3} /\ 3 \notin {1}
      OBVIOUS
    <3> QED
      BY <2>2, <3>1, <3>2, FS_AddElement
  <2>4. {j \in {1, 3} : j < 1} = {} /\ {j \in {1, 3} : j < 3} = {1}
    OBVIOUS
  <2>5. Nth({1, 3}, 1) = 1 /\ Nth({1, 3}, 2) = 3
    BY <2>2, <2>4 DEF Nth
  <2>6. NormalizeLayer(first, 1) \in Layer
    BY <1>0 DEF NormalizeLayer, Layer, LayerType
  <2>7. NormalizeLayer(last, 3) \in Layer
    BY <1>0 DEF NormalizeLayer, Layer, LayerType
  <2>8. all[1] \in Layer /\ all[3] \in Layer
    BY <1>2, <2>6, <2>7
  <2> HIDE DEF known, all
  <2>9. Picked(all, known) = [k \in 1..2 |-> all[Nth({1, 3}, k)]]
    BY <2>1, <2>3 DEF Picked
  <2>10. \A k \in 1..2 : all[Nth({1, 3}, k)] \in Layer
    BY <2>5, <2>8
  <2>11. Picked(all, known) \in Seq(Layer)
    BY <2>9, <2>10
  <2> QED
    BY <2>11 DEF NormalizeLayers, known, all
<1> QED
  BY <1>1, <1>2 DEF RawLayers

LEMMA StoredStays ==
    ASSUME NEW c \in Composition, c.layers # <<>>, NEW t, NEW v
    PROVE  Sanitize(c, t, v) = c
<1>1. c # Missing /\ c.template # Missing /\ c.version # Missing
  BY MissingAssumption, CompositionAssumption DEF Composition, Version
<1>2. NormalizeLayers(c.layers) = c.layers
  BY LayersStay DEF Composition
<1>3. c = [template |-> c.template, version |-> c.version, layers |-> c.layers]
  BY DEF Composition
<1> QED
  BY <1>1, <1>2, <1>3 DEF Sanitize

LEMMA SentBecomesStored ==
    ASSUME NEW raw \in RawComposition \cup {Missing}, NEW t \in Template, NEW v \in Version
    PROVE  /\ Sanitize(raw, t, v) \in Composition \cup {Missing}
           /\ HasLayers(Sanitize(raw, t, v))
<1>1. CASE raw = Missing
  BY <1>1 DEF Sanitize, HasLayers
<1>2. CASE raw # Missing
  <2> DEFINE layers == NormalizeLayers(raw.layers)
             c == [template |-> IF raw.template = Missing THEN t ELSE raw.template,
                   version |-> IF raw.version = Missing THEN v ELSE raw.version, layers |-> layers]
  <2>1. /\ raw.template \in Template \cup {Missing} /\ raw.version \in Version \cup {Missing}
        /\ layers \in Seq(Layer)
    BY <1>2, LayersMade DEF RawComposition
  <2>2. Sanitize(raw, t, v) = IF layers = <<>> THEN Missing ELSE c
    BY <1>2, <2>1, CompositionAssumption DEF Sanitize
  <2>3. c \in Composition /\ c.layers = layers
    BY <2>1 DEF Composition
  <2> HIDE DEF c, layers
  <2> QED
    BY <2>2, <2>3 DEF HasLayers
<1> QED
  BY <1>1, <1>2

LEMMA Accepted ==
    ASSUME NEW raw \in RawComposition \cup {Missing}, NEW t \in Template, NEW v \in Version
    PROVE  LET c == AssertComposition(raw, t, v)
           IN  /\ c \in Composition \cup {Missing} /\ HasLayers(c)
               /\ c # Missing => c.template = t /\ c.version = v
  BY SentBecomesStored DEF AssertComposition, HasLayers

\* A row is shown with the composition it has.
LEMMA ShownAsStored ==
    ASSUME NEW r \in StoredRow, RowFits(r)
    PROVE  ShownRepit(r).composition = r.composition
<1>1. r # Missing /\ r.composition \in Composition \cup {Missing} /\ HasLayers(r.composition)
  BY MissingAssumption DEF StoredRow, RowFits
<1> DEFINE own == IF r.composition = Missing THEN Missing ELSE r.composition.template
           clean == Sanitize(r.composition, own, r.version)
<1>2. clean = r.composition
  <2>1. CASE r.composition = Missing
    BY <2>1 DEF Sanitize
  <2>2. CASE r.composition # Missing
    BY <1>1, <2>2, StoredStays DEF HasLayers
  <2> QED
    BY <2>1, <2>2
<1>3. ShownRepit(r) = [r EXCEPT !.composition = clean,
                                    !.version = IF clean = Missing THEN @ ELSE clean.version]
  BY DEF ShownRepit
<1> HIDE DEF clean, own
<1> QED
  BY <1>2, <1>3 DEF StoredRow

LEMMA CompositionShows == CompositionInv => CompositionTypeOK /\ ShownSavesBack
<1> SUFFICES ASSUME CompositionInv PROVE CompositionTypeOK /\ ShownSavesBack
  OBVIOUS
<1>1. CompositionTypeOK
  BY DEF CompositionInv
<1>2. CASE repit = Missing
  BY <1>1, <1>2 DEF ShownSavesBack
<1>3. CASE repit # Missing
  <2> DEFINE c == ShownRepit(repit).composition
  <2>1. repit \in StoredRow /\ RowFits(repit)
    BY <1>3 DEF CompositionInv, CompositionTypeOK
  <2>2. c = repit.composition
    BY <2>1, ShownAsStored
  <2> HIDE DEF c
  <2>3. c # Missing => c \in Composition /\ c.layers # <<>>
    BY <1>3, <2>1, <2>2 DEF StoredRow, RowFits, HasLayers
  <2>4. c # Missing => Sanitize(c, repit.template, repit.version) = c
    BY <2>3, StoredStays
  <2>5. c # Missing /\ ~repit.mixed => c.template = repit.template /\ c.version = repit.version
    BY <1>3, <2>1, <2>2 DEF RowFits
  <2>6. owners # Missing /\ ~overwritten => c = owners
    BY <1>3, <2>2 DEF CompositionInv
  <2> QED
    BY <1>1, <2>4, <2>5, <2>6 DEF ShownSavesBack, c
<1> QED
  BY <1>2, <1>3

\* A row that is made of its parts.
LEMMA RowMade ==
    ASSUME NEW t \in Template, NEW v \in Version, NEW c \in Composition \cup {Missing}, NEW mixed \in BOOLEAN,
           HasLayers(c), c # Missing /\ ~mixed => c.template = t /\ c.version = v
    PROVE  /\ RepitRow(t, v, c, mixed) \in StoredRow /\ RowFits(RepitRow(t, v, c, mixed))
           /\ RepitRow(t, v, c, mixed).composition = c /\ RepitRow(t, v, c, mixed) # Missing
<1> DEFINE r == RepitRow(t, v, c, mixed)
<1>1. r \in StoredRow /\ r.template = t /\ r.version = v /\ r.composition = c /\ r.mixed = mixed
  BY DEF RepitRow, StoredRow
<1> HIDE DEF r
<1>2. r # Missing /\ RowFits(r)
  BY <1>1, MissingAssumption DEF RowFits
<1> QED
  BY <1>1, <1>2 DEF r

LEMMA CreateStep ==
    ASSUME CompositionInv, NEW w \in BOOLEAN, NEW body \in Body(w), CreateRepit(body)
    PROVE  CompositionInv'
<1>1. /\ body.template \in Template /\ body.version \in Version \cup {Missing}
      /\ body.composition \in RawComposition \cup {Missing}
  BY DEF Body, CreateRepit
<1>2. 1 \in Version /\ template[body.template].version \in Version
  BY <1>1, CompositionAssumption DEF CompositionInv, CompositionTypeOK, Version
<1> DEFINE v == Or(body.version, template[body.template].version)
           clean == AssertComposition(body.composition, body.template, v)
           version == Or(body.version, IF clean = Missing THEN 1 ELSE clean.version)
<1>3. v \in Version
  BY <1>1, <1>2 DEF Or
<1>4. PICK t \in Template, u \in Version, raw \in RawComposition \cup {Missing} :
        t = body.template /\ u = v /\ raw = body.composition
  BY <1>1, <1>3
<1>5. /\ clean \in Composition \cup {Missing} /\ HasLayers(clean)
      /\ clean # Missing => clean.template = body.template /\ clean.version = v
  BY <1>4, Accepted
<1>6. version \in Version /\ (clean # Missing => clean.version = version)
  <2> HIDE DEF clean
  <2> QED
    BY <1>1, <1>2, <1>3, <1>5 DEF Or
<1>7. CASE schema = "legacy"
  <2>1. repit' = RepitRow(body.template, 1, Missing, FALSE) /\ owners' = Missing
    BY <1>7 DEF CreateRepit
  <2>2. PICK x \in Template, y \in Version, c \in Composition \cup {Missing} :
          x = body.template /\ y = 1 /\ c = Missing
    BY <1>1, <1>2
  <2>4. HasLayers(c)
    BY <2>2 DEF HasLayers
  <2>3. repit' \in StoredRow /\ RowFits(repit)' /\ repit'.composition = Missing /\ repit' # Missing
    BY <1>2, <2>1, <2>2, <2>4, RowMade
  <2> QED
    BY <2>1, <2>3 DEF CreateRepit, CompositionInv, CompositionTypeOK, CatalogueFits, RowFits, HasLayers
<1>8. CASE schema # "legacy"
  <2>1. repit' = RepitRow(body.template, version, clean, FALSE) /\ owners' = clean
    BY <1>8 DEF CreateRepit
  <2>2. PICK x \in Template, y \in Version, c \in Composition \cup {Missing} :
          x = body.template /\ y = version /\ c = clean
    BY <1>1, <1>5, <1>6
  <2>3. /\ repit' \in StoredRow /\ RowFits(repit)' /\ repit'.composition = clean /\ repit' # Missing
    <3> HIDE DEF clean, version
    <3> QED
      BY <1>5, <1>6, <2>1, <2>2, RowMade
  <2>4. owners' \in Composition \cup {Missing} /\ owners' = repit'.composition
    BY <1>5, <2>1, <2>3
  <2> QED
    BY <1>8, <2>3, <2>4 DEF CreateRepit, CompositionInv, CompositionTypeOK, CatalogueFits, RowFits, HasLayers
<1> QED
  BY <1>7, <1>8

LEMMA SaveEditStep ==
    ASSUME CompositionInv, NEW w \in BOOLEAN, NEW body \in Body(w), SaveEdit(body)
    PROVE  CompositionInv'
<1>1. /\ body.template \in Template \cup {Missing} /\ body.version \in Version \cup {Missing}
      /\ body.composition \in RawComposition \cup {Missing}
  BY DEF Body
<1>2. /\ edit \in StoredRow /\ RowFits(edit) /\ edit # Missing /\ schema # "legacy"
  BY DEF CompositionInv, CompositionTypeOK, SaveEdit
<1>3. /\ edit.template \in Template /\ edit.version \in Version /\ edit.mixed \in BOOLEAN
      /\ edit.composition \in Composition \cup {Missing} /\ HasLayers(edit.composition)
      /\ edit.composition # Missing /\ ~edit.mixed =>
           edit.composition.template = edit.template /\ edit.composition.version = edit.version
  BY <1>2 DEF StoredRow, RowFits
<1> DEFINE t == Or(body.template, edit.template)
           version == Or(body.version, edit.version)
           clean == AssertComposition(body.composition, t, version)
           kept == clean = Missing /\ edit.composition # Missing
           c == IF clean = Missing THEN edit.composition ELSE clean
           mixed == kept /\ (edit.mixed \/ t # edit.template \/ version # edit.version)
<1>4. t \in Template /\ version \in Version
  BY <1>1, <1>3 DEF Or
<1>5. /\ clean \in Composition \cup {Missing} /\ HasLayers(clean)
      /\ clean # Missing => clean.template = t /\ clean.version = version
  <2>1. PICK x \in Template, u \in Version, raw \in RawComposition \cup {Missing} :
          x = t /\ u = version /\ raw = body.composition
    BY <1>1, <1>4
  <2> QED
    BY <2>1, Accepted
<1>6. repit' = RepitRow(t, version, c, mixed) /\ owners' = repit'.composition /\ edit' = Missing
      /\ UNCHANGED <<schema, template, batch>> /\ overwritten' \in BOOLEAN
  BY DEF SaveEdit, CompositionInv, CompositionTypeOK
<1> HIDE DEF t, version, clean
<1>7. /\ c \in Composition \cup {Missing} /\ HasLayers(c) /\ mixed \in BOOLEAN
      /\ c # Missing /\ ~mixed => c.template = t /\ c.version = version
  BY <1>3, <1>5
<1> HIDE DEF c, mixed, kept
<1>8. PICK x \in Template, u \in Version, d \in Composition \cup {Missing}, m \in BOOLEAN :
        x = t /\ u = version /\ d = c /\ m = mixed
  BY <1>4, <1>7
<1>9. /\ repit' \in StoredRow /\ RowFits(repit)' /\ repit'.composition = c /\ repit' # Missing
  <2>1. HasLayers(d) /\ (d # Missing /\ ~m => d.template = x /\ d.version = u)
    BY <1>7, <1>8
  <2>2. /\ RepitRow(x, u, d, m) \in StoredRow /\ RowFits(RepitRow(x, u, d, m))
        /\ RepitRow(x, u, d, m).composition = d /\ RepitRow(x, u, d, m) # Missing
    BY <2>1, RowMade
  <2>3. repit' = RepitRow(x, u, d, m)
    BY <1>6, <1>8
  <2> QED
    BY <1>8, <2>2, <2>3
<1>10. owners' \in Composition \cup {Missing} /\ owners' = repit'.composition
  BY <1>6, <1>7, <1>9
<1> QED
  BY <1>2, <1>6, <1>9, <1>10 DEF CompositionInv, CompositionTypeOK, CatalogueFits, RowFits, HasLayers

LEMMA LegacyStep ==
    ASSUME CompositionInv, NEW t \in Template, UpdateLegacy(t) PROVE CompositionInv'
<1>1. repit \in StoredRow /\ repit.composition = Missing
  BY DEF UpdateLegacy, CompositionInv, CompositionTypeOK
<1>2. repit' \in StoredRow /\ repit'.composition = Missing /\ repit' # Missing
  BY <1>1, MissingAssumption DEF UpdateLegacy, StoredRow
<1>3. RowFits(repit)'
  BY <1>2 DEF RowFits, HasLayers
<1> QED
  BY <1>2, <1>3 DEF UpdateLegacy, CompositionInv, CompositionTypeOK, CatalogueFits, RowFits, HasLayers

LEMMA PublishStep ==
    ASSUME CompositionInv, NEW t \in Template, PublishTemplate(t) PROVE CompositionInv'
<1> DEFINE next == template[t].version + 1
           layer == [type |-> "photo", id |-> "own", zIndex |-> 0, opacity |-> 1]
           given == [template |-> t, version |-> next, layers |-> <<layer>>]
<1>1. next \in Version
  BY CompositionAssumption DEF CompositionInv, CompositionTypeOK, PublishTemplate, Version
<1>2. layer \in Layer
  BY DEF Layer, LayerType
<1>3. PICK c \in {Missing, given} : template' = [template EXCEPT ![t] = [version |-> next, composition |-> c]]
  BY DEF PublishTemplate
<1> HIDE DEF next, layer
<1>4. given \in Composition /\ given.layers # <<>> /\ given.template = t
  BY <1>1, <1>2 DEF Composition
<1> HIDE DEF given
<1>5. c \in Composition \cup {Missing} /\ (c # Missing => c.layers # <<>> /\ c.template = t)
  BY <1>3, <1>4
<1>6. /\ template' \in [Template -> [version: Version, composition: Composition \cup {Missing}]]
      /\ \A x \in Template : template'[x].composition = IF x = t THEN c ELSE template[x].composition
  BY <1>1, <1>3, <1>5 DEF CompositionInv, CompositionTypeOK
<1>7. CatalogueFits'
  BY <1>5, <1>6 DEF CompositionInv, CatalogueFits
<1> QED
  BY <1>6, <1>7 DEF PublishTemplate, CompositionInv, CompositionTypeOK, RowFits, HasLayers

LEMMA ReadBatchStep == ASSUME CompositionInv, ReadBatchOfRepits PROVE CompositionInv'
<1>1. repit \in StoredRow /\ RowFits(repit) /\ repit # Missing /\ NeedsComposition(repit)
  BY DEF ReadBatchOfRepits, CompositionInv, CompositionTypeOK
<1>2. repit.composition = Missing
  <2> SUFFICES ASSUME repit.composition # Missing PROVE FALSE
    OBVIOUS
  <2>1. repit.composition \in Composition /\ repit.composition.layers # <<>>
    BY <1>1 DEF StoredRow, RowFits, HasLayers
  <2>2. Sanitize(repit.composition, repit.template, repit.version) = repit.composition
    BY <2>1, StoredStays
  <2> QED
    BY <1>1, <2>2 DEF NeedsComposition
<1> QED
  BY <1>1, <1>2 DEF ReadBatchOfRepits, CompositionInv, CompositionTypeOK, CatalogueFits, RowFits, HasLayers

LEMMA SaveBackfilledStep == ASSUME CompositionInv, SaveBackfilled PROVE CompositionInv'
<1> DEFINE t == template[batch.template]
           given == Sanitize(t.composition, batch.template, t.version)
           clean == IF given # Missing THEN given ELSE Minimal(batch)
           mixed == clean.version # batch.version
<1>1. batch \in StoredRow /\ batch # Missing /\ batch.composition = Missing /\ schema # "legacy"
  BY DEF SaveBackfilled, CompositionInv, CompositionTypeOK
<1>2. batch.template \in Template /\ batch.version \in Version
  BY <1>1 DEF StoredRow
<1>3. t.composition \in Composition \cup {Missing}
      /\ (t.composition # Missing => t.composition.layers # <<>> /\ t.composition.template = batch.template)
  BY <1>2 DEF CompositionInv, CompositionTypeOK, CatalogueFits
<1>4. given = t.composition
  <2>1. CASE t.composition = Missing
    BY <2>1 DEF Sanitize
  <2>2. CASE t.composition # Missing
    BY <1>3, <2>2, StoredStays
  <2> QED
    BY <2>1, <2>2
<1>5. Minimal(batch) \in Composition /\ Minimal(batch).layers # <<>> /\ Minimal(batch).template = batch.template
  <2> DEFINE under == [type |-> "photo", id |-> "own", zIndex |-> 0, opacity |-> 1]
             over == [type |-> "musicWidget", id |-> "own", zIndex |-> 1, opacity |-> 1]
  <2>1. under \in Layer /\ over \in Layer
    BY DEF Layer, LayerType
  <2>2. Minimal(batch) = [template |-> batch.template, version |-> batch.version, layers |-> <<under, over>>]
    BY DEF Minimal
  <2> HIDE DEF under, over
  <2> QED
    BY <1>2, <2>1, <2>2 DEF Composition
<1>6. repit' = RepitRow(batch.template, batch.version, clean, mixed) /\ batch' = Missing
      /\ overwritten' = (overwritten \/ batch # repit) /\ UNCHANGED <<schema, template, edit, owners>>
  BY DEF SaveBackfilled
<1> HIDE DEF given, t
<1>7. clean \in Composition /\ clean.layers # <<>> /\ clean.template = batch.template /\ clean # Missing
  BY <1>3, <1>4, <1>5, MissingAssumption
<1> HIDE DEF clean
<1>8. PICK x \in Template, u \in Version, d \in Composition, m \in BOOLEAN :
        x = batch.template /\ u = batch.version /\ d = clean /\ m = mixed
  BY <1>2, <1>7
<1>9. repit' \in StoredRow /\ RowFits(repit)' /\ repit' # Missing
  <2>1. HasLayers(d) /\ (d # Missing /\ ~m => d.template = x /\ d.version = u)
    BY <1>7, <1>8 DEF HasLayers
  <2>2. RepitRow(x, u, d, m) \in StoredRow /\ RowFits(RepitRow(x, u, d, m)) /\ RepitRow(x, u, d, m) # Missing
    BY <2>1, RowMade
  <2>3. repit' = RepitRow(x, u, d, m)
    BY <1>6, <1>8
  <2> QED
    BY <2>2, <2>3
<1>10. ~(owners' # Missing /\ ~overwritten')
  <2> SUFFICES ASSUME owners # Missing, ~overwritten, batch = repit PROVE FALSE
    BY <1>6 DEF CompositionInv, CompositionTypeOK
  <2> QED
    BY <1>1 DEF CompositionInv
<1>11. overwritten' \in BOOLEAN
  BY <1>6 DEF CompositionInv, CompositionTypeOK
<1> QED
  BY <1>1, <1>6, <1>9, <1>10, <1>11 DEF CompositionInv, CompositionTypeOK, CatalogueFits, RowFits, HasLayers

LEMMA CompositionInvInit == CompositionInit => CompositionInv
<1> SUFFICES ASSUME CompositionInit PROVE CompositionInv
  OBVIOUS
<1>1. template \in [Template -> [version: Version, composition: Composition \cup {Missing}]]
      /\ \A t \in Template : template[t].composition = Missing
  BY CompositionAssumption DEF CompositionInit, Version
<1> QED
  BY <1>1 DEF CompositionInit, CompositionInv, CompositionTypeOK, CatalogueFits, RowFits

LEMMA CompositionInvStep == CompositionInv /\ [CompositionNext]_compositionVars => CompositionInv'
<1> SUFFICES ASSUME CompositionInv, [CompositionNext]_compositionVars PROVE CompositionInv'
  OBVIOUS
<1> USE DEF CompositionInv, CompositionTypeOK, CatalogueFits, RowFits, HasLayers
<1>1. CASE UpdateRepit
  BY <1>1 DEF UpdateRepit
<1>2. CASE RefuseEdit
  BY <1>2 DEF RefuseEdit
<1>3. CASE DeleteRepit
  BY <1>3 DEF DeleteRepit
<1>4. CASE MigrateSchema
  BY <1>4 DEF MigrateSchema
<1>5. CASE UNCHANGED compositionVars
  BY <1>5 DEF compositionVars
<1> QED
  BY <1>1, <1>2, <1>3, <1>4, <1>5, CreateStep, SaveEditStep, LegacyStep, PublishStep, ReadBatchStep,
     SaveBackfilledStep DEF CompositionNext

-------------------------------------------------------------------------------
(* Pictures: the decoder                                                       *)

LEMMA MultipleOfNone ==
    ASSUME NEW n \in Nat \ {0}, NEW k \in Int, NEW v \in 0..(n - 1), NEW u \in 0..(n - 1), u = v + n * k
    PROVE  u = v
<1>1. k = 0
  OBVIOUS
<1>2. n * k = 0
  BY <1>1
<1> QED
  BY <1>2

\* Adding what was taken off, each time modulo n.
LEMMA TakenOffAndAdded ==
    ASSUME NEW n \in Nat \ {0}, NEW v \in 0..(n - 1), NEW p \in Int
    PROVE  (((v - p) % n) + p) % n = v
<1>1. PICK d \in Int : d = v - p
  OBVIOUS
<1>2. PICK r \in 0..(n - 1) : r = d % n
  OBVIOUS
<1>3. d \div n \in Int /\ d = n * (d \div n) + (d % n)
  OBVIOUS
<1>4. PICK q \in Int : d = n * q + r
  BY <1>2, <1>3
<1>5. PICK e \in Int : e = r + p
  OBVIOUS
<1>6. PICK m \in 0..(n - 1) : m = e % n
  OBVIOUS
<1>7. e \div n \in Int /\ e = n * (e \div n) + (e % n)
  OBVIOUS
<1>8. PICK k \in Int : e = n * k + m
  BY <1>6, <1>7
<1>9. n * (q + k) = n * q + n * k /\ q + k \in Int /\ n * q \in Int /\ n * k \in Int
  OBVIOUS
<1>10. v = m + n * (q + k)
  BY <1>1, <1>4, <1>5, <1>8, <1>9
<1>11. v = m
  BY <1>9, <1>10, MultipleOfNone
<1> QED
  BY <1>1, <1>2, <1>5, <1>6, <1>11

LEMMA PaethIsNearest ==
    ASSUME NEW a \in Int, NEW b \in Int, NEW c \in Int
    PROVE  Paeth(a, b, c) = Nearest(a, b, c)
  BY DEF Nearest, Paeth, Distance

\* The decoder's filters are the standard's.
LEMMA FiltersAreStandard ==
    ASSUME NEW f \in 0..4, NEW a \in Int, NEW b \in Int, NEW c \in Int
    PROVE  Predictor(f, a, b, c) = StandardPredictor(f, a, b, c) /\ Predictor(f, a, b, c) \in Int
<1>1. Paeth(a, b, c) = Nearest(a, b, c)
  BY PaethIsNearest
<1>2. Paeth(a, b, c) \in Int
  BY DEF Paeth
<1>3. (a + b) \div 2 \in Int
  OBVIOUS
<1>4. f = 0 \/ f = 1 \/ f = 2 \/ f = 3 \/ f = 4
  OBVIOUS
<1>5. Predictor(f, a, b, c) = StandardPredictor(f, a, b, c)
  BY <1>1, <1>4 DEF Predictor, StandardPredictor
<1>6. Predictor(f, a, b, c) \in Int
  BY <1>2, <1>3, <1>4 DEF Predictor
<1> QED
  BY <1>5, <1>6

LEMMA SidesAre ==
    ASSUME NEW h \in Nat \ {0}, NEW w \in Nat \ {0}, NEW f, DOMAIN f = (1..h) \X (1..w)
    PROVE  Height(f) = h /\ Width(f) = w
<1>1. {p[1] : p \in (1..h) \X (1..w)} = 1..h
  <2>1. ASSUME NEW y \in 1..h PROVE \E p \in (1..h) \X (1..w) : p[1] = y
    <3>1. <<y, 1>> \in (1..h) \X (1..w)
      OBVIOUS
    <3> QED
      BY <3>1
  <2> QED
    BY <2>1
<1>2. {p[2] : p \in (1..h) \X (1..w)} = 1..w
  <2>1. ASSUME NEW x \in 1..w PROVE \E p \in (1..h) \X (1..w) : p[2] = x
    <3>1. <<1, x>> \in (1..h) \X (1..w)
      OBVIOUS
    <3> QED
      BY <3>1
  <2> QED
    BY <2>1
<1>3. Cardinality(1..h) = h /\ Cardinality(1..w) = w
  BY FirstNumbers
<1> QED
  BY <1>1, <1>2, <1>3 DEF Height, Width

\* The rule by which the decoder fills its grid.
Unfilters(value, rows, filters) ==
    value = [p \in (0..Height(rows)) \X (0..Width(rows)) |->
              IF p[1] = 0 \/ p[2] = 0 THEN 0
              ELSE (rows[p] + Predictor(filters[p[1]], value[<<p[1], p[2] - 1>>], value[<<p[1] - 1, p[2]>>],
                                        value[<<p[1] - 1, p[2] - 1>>])) % ByteSize]

LEMMA DecodedIs ==
    ASSUME NEW rows, NEW filters
    PROVE  Decoded(rows, filters) = [p \in DOMAIN rows |-> (CHOOSE value : Unfilters(value, rows, filters))[p]]
  BY DEF Decoded, Unfilters

LEMMA CellDecoded ==
    ASSUME NEW h \in Nat \ {0}, NEW w \in Nat \ {0}, NEW pixels \in [(1..h) \X (1..w) -> 0..(ByteSize - 1)],
           NEW filters \in [1..h -> 0..4], NEW y \in 1..h, NEW x \in 1..w
    PROVE  (Encoded(pixels, filters)[<<y, x>>] + Predictor(filters[y], PixelAt(pixels, y, x - 1),
                                                           PixelAt(pixels, y - 1, x), PixelAt(pixels, y - 1, x - 1)))
             % ByteSize = pixels[<<y, x>>]
<1>0. ByteSize \in Nat \ {0} /\ <<y, x>> \in (1..h) \X (1..w) /\ filters[y] \in 0..4
  BY PictureAssumption
<1>1. \A i, j : PixelAt(pixels, i, j) \in Int
  BY <1>0 DEF PixelAt
<1>2. PICK a \in Int : a = PixelAt(pixels, y, x - 1)
  BY <1>1
<1>3. PICK b \in Int : b = PixelAt(pixels, y - 1, x)
  BY <1>1
<1>4. PICK c \in Int : c = PixelAt(pixels, y - 1, x - 1)
  BY <1>1
<1>5. PICK p \in Int : p = Predictor(filters[y], a, b, c) /\ p = StandardPredictor(filters[y], a, b, c)
  BY <1>0, FiltersAreStandard
<1>6. PICK v \in 0..(ByteSize - 1) : v = pixels[<<y, x>>]
  BY <1>0
<1>7. Encoded(pixels, filters)[<<y, x>>] = (v - p) % ByteSize
  <2>1. Encoded(pixels, filters)[<<y, x>>] =
          (pixels[<<y, x>>] - StandardPredictor(filters[y], PixelAt(pixels, y, x - 1),
                                                PixelAt(pixels, y - 1, x), PixelAt(pixels, y - 1, x - 1))) % ByteSize
    BY <1>0 DEF Encoded
  <2> QED
    BY <1>2, <1>3, <1>4, <1>5, <1>6, <2>1
<1>8. (((v - p) % ByteSize) + p) % ByteSize = v
  BY <1>0, TakenOffAndAdded
<1> QED
  BY <1>2, <1>3, <1>4, <1>5, <1>6, <1>7, <1>8

\* A picture that is encoded by the standard, with whatever filters, is decoded.
LEMMA DecodedIsEncoded ==
    ASSUME NEW h \in Nat \ {0}, NEW w \in Nat \ {0}, NEW pixels \in [(1..h) \X (1..w) -> 0..(ByteSize - 1)],
           NEW filters \in [1..h -> 0..4]
    PROVE  Decoded(Encoded(pixels, filters), filters) = pixels
<1> DEFINE rows == Encoded(pixels, filters)
           grid == (0..h) \X (0..w)
           found == [p \in grid |-> PixelAt(pixels, p[1], p[2])]
<1>1. DOMAIN rows = (1..h) \X (1..w)
  BY DEF Encoded
<1>2. Height(rows) = h /\ Width(rows) = w
  <2> HIDE DEF rows
  <2> QED
    BY <1>1, SidesAre
<1>3. \A y \in 0..h, x \in 0..w : PixelAt(pixels, y, x) = IF y = 0 \/ x = 0 THEN 0 ELSE pixels[<<y, x>>]
  BY DEF PixelAt
<1>4. \A y \in 1..h, x \in 1..w :
        (rows[<<y, x>>] + Predictor(filters[y], PixelAt(pixels, y, x - 1),
                                    PixelAt(pixels, y - 1, x), PixelAt(pixels, y - 1, x - 1))) % ByteSize
          = pixels[<<y, x>>]
  BY CellDecoded
<1>5. \A p \in grid : p = <<p[1], p[2]>> /\ p[1] \in 0..h /\ p[2] \in 0..w
  OBVIOUS
<1> HIDE DEF rows
<1>6. Unfilters(found, rows, filters)
  <2>1. ASSUME NEW p \in grid
        PROVE  found[p] = IF p[1] = 0 \/ p[2] = 0 THEN 0
                          ELSE (rows[p] + Predictor(filters[p[1]], found[<<p[1], p[2] - 1>>],
                                                    found[<<p[1] - 1, p[2]>>], found[<<p[1] - 1, p[2] - 1>>])) % ByteSize
    <3>1. CASE p[1] = 0 \/ p[2] = 0
      BY <1>3, <1>5, <3>1
    <3>2. CASE ~(p[1] = 0 \/ p[2] = 0)
      <4>1. PICK y \in 1..h : y = p[1]
        BY <1>5, <3>2
      <4>2. PICK x \in 1..w : x = p[2]
        BY <1>5, <3>2
      <4>3. p = <<y, x>>
        BY <1>5, <4>1, <4>2
      <4>4. <<y, x - 1>> \in grid /\ <<y - 1, x>> \in grid /\ <<y - 1, x - 1>> \in grid
        OBVIOUS
      <4>5. /\ found[<<y, x - 1>>] = PixelAt(pixels, y, x - 1)
            /\ found[<<y - 1, x>>] = PixelAt(pixels, y - 1, x)
            /\ found[<<y - 1, x - 1>>] = PixelAt(pixels, y - 1, x - 1)
        BY <4>4
      <4>6. found[p] = pixels[<<y, x>>]
        BY <1>3, <3>2, <4>1, <4>2, <4>3
      <4> QED
        BY <1>4, <3>2, <4>1, <4>2, <4>3, <4>5, <4>6
    <3> QED
      BY <3>1, <3>2
  <2> QED
    BY <1>2, <2>1 DEF Unfilters
<1> DEFINE value == CHOOSE v : Unfilters(v, rows, filters)
<1>7. Unfilters(value, rows, filters)
  <2> HIDE DEF found
  <2> QED
    BY <1>6
<1> HIDE DEF value, found
<1>8. \A p \in grid :
        value[p] = IF p[1] = 0 \/ p[2] = 0 THEN 0
                   ELSE (rows[p] + Predictor(filters[p[1]], value[<<p[1], p[2] - 1>>],
                                             value[<<p[1] - 1, p[2]>>], value[<<p[1] - 1, p[2] - 1>>])) % ByteSize
  BY <1>2, <1>7 DEF Unfilters
<1> DEFINE Wrong == {s \in Nat : \E p \in grid : p[1] + p[2] = s /\ value[p] # PixelAt(pixels, p[1], p[2])}
<1>9. ASSUME Wrong # {} PROVE FALSE
  <2>1. PICK s \in Wrong : \A t \in Wrong : s <= t
    <3>1. Wrong \in SUBSET Nat
      OBVIOUS
    <3> HIDE DEF Wrong
    <3> QED
      BY <1>9, <3>1, LeastNumber
  <2>2. PICK p \in grid : p[1] + p[2] = s /\ value[p] # PixelAt(pixels, p[1], p[2])
    BY <2>1
  <2>3. \A q \in grid : q[1] + q[2] < s => value[q] = PixelAt(pixels, q[1], q[2])
    <3> SUFFICES ASSUME NEW q \in grid, q[1] + q[2] < s, value[q] # PixelAt(pixels, q[1], q[2]) PROVE FALSE
      OBVIOUS
    <3>0. q[1] + q[2] \in Nat
      BY <1>5
    <3>1. q[1] + q[2] \in Wrong
      BY <3>0
    <3>2. s <= q[1] + q[2] /\ s \in Nat /\ q[1] \in Nat /\ q[2] \in Nat
      BY <1>5, <2>1, <3>1
    <3> QED
      BY <3>2
  <2>4. ~(p[1] = 0 \/ p[2] = 0)
    BY <1>3, <1>5, <1>8, <2>2
  <2>5. PICK y \in 1..h : y = p[1]
    BY <1>5, <2>4
  <2>6. PICK x \in 1..w : x = p[2]
    BY <1>5, <2>4
  <2>7. p = <<y, x>>
    BY <1>5, <2>5, <2>6
  <2>8. <<y, x - 1>> \in grid /\ <<y - 1, x>> \in grid /\ <<y - 1, x - 1>> \in grid
    OBVIOUS
  <2>9. y + x = s
    BY <2>2, <2>5, <2>6
  <2>10. y + (x - 1) < s /\ (y - 1) + x < s /\ (y - 1) + (x - 1) < s
    BY <2>9
  <2>11. /\ value[<<y, x - 1>>] = PixelAt(pixels, y, x - 1)
         /\ value[<<y - 1, x>>] = PixelAt(pixels, y - 1, x)
         /\ value[<<y - 1, x - 1>>] = PixelAt(pixels, y - 1, x - 1)
    BY <2>3, <2>8, <2>10
  <2>12. value[<<y, x>>] = (rows[<<y, x>>] + Predictor(filters[y], value[<<y, x - 1>>],
                             value[<<y - 1, x>>], value[<<y - 1, x - 1>>])) % ByteSize
    BY <1>8, <2>4, <2>5, <2>6, <2>7
  <2>13. value[<<y, x>>] = pixels[<<y, x>>]
    BY <1>4, <2>11, <2>12
  <2>14. PixelAt(pixels, y, x) = pixels[<<y, x>>]
    <3>1. <<y, x>> \in DOMAIN pixels
      OBVIOUS
    <3> QED
      BY <3>1 DEF PixelAt
  <2> QED
    BY <2>2, <2>5, <2>6, <2>7, <2>13, <2>14
<1>10. \A p \in (1..h) \X (1..w) : value[p] = pixels[p]
  <2> TAKE p \in (1..h) \X (1..w)
  <2>1. p \in grid /\ p = <<p[1], p[2]>> /\ p[1] \in 1..h /\ p[2] \in 1..w /\ p[1] + p[2] \in Nat
    OBVIOUS
  <2>2. value[p] = PixelAt(pixels, p[1], p[2])
    BY <1>9, <2>1
  <2> QED
    BY <2>1, <2>2 DEF PixelAt
<1>11. Decoded(rows, filters) = [p \in (1..h) \X (1..w) |-> value[p]]
  BY <1>1, DecodedIs DEF value
<1>12. Decoded(rows, filters) = pixels
  BY <1>10, <1>11
<1> QED
  BY <1>12 DEF rows

-------------------------------------------------------------------------------
(* Pictures: the bounds of what is visible                                     *)

LEMMA EndsOf ==
    ASSUME NEW n \in Nat, NEW S \in SUBSET (1..n), S # {}
    PROVE  /\ \E m \in S : \A k \in S : m <= k
           /\ \E m \in S : \A k \in S : m >= k
<1>0. \A k \in S : k \in Nat /\ k <= n
  OBVIOUS
<1>1. \E m \in S : \A k \in S : m <= k
  BY <1>0, LeastNumber
<1> DEFINE U == {n - k : k \in S}
<1>2. U \in SUBSET Nat /\ U # {}
  <2>1. \A k \in S : n - k \in Nat
    BY <1>0
  <2>2. PICK k \in S : TRUE
    OBVIOUS
  <2>3. n - k \in U
    OBVIOUS
  <2> QED
    BY <2>1, <2>3
<1>3. PICK u \in U : \A v \in U : u <= v
  <2> HIDE DEF U
  <2> QED
    BY <1>2, LeastNumber
<1>4. PICK m \in S : u = n - m
  BY <1>3
<1>5. ASSUME NEW k \in S PROVE m >= k
  <2>1. n - k \in U
    OBVIOUS
  <2>2. n - m <= n - k /\ m \in Nat /\ k \in Nat
    BY <1>0, <1>3, <1>4, <2>1
  <2> QED
    BY <2>2
<1> QED
  BY <1>1, <1>5

LEMMA BoundsAreTight ==
    ASSUME NEW h \in Nat \ {0}, NEW w \in Nat \ {0}, NEW pixels \in [(1..h) \X (1..w) -> 0..(ByteSize - 1)]
    PROVE  Tight(VisibleBounds(pixels), pixels)
<1> DEFINE seen == {p \in DOMAIN pixels : pixels[p] >= Threshold}
           xs == {p[2] : p \in seen}
           ys == {p[1] : p \in seen}
<1>1. CASE seen = {}
  <2>1. VisibleBounds(pixels) = {}
    BY <1>1 DEF VisibleBounds
  <2> QED
    BY <1>1, <2>1 DEF Tight
<1>2. CASE seen # {}
  <2>1. \A p \in seen : p[1] \in 1..h /\ p[2] \in 1..w
    OBVIOUS
  <2>2. xs \in SUBSET (1..w) /\ xs # {} /\ ys \in SUBSET (1..h) /\ ys # {}
    BY <1>2, <2>1
  <2>3. \A p \in seen : p[2] \in xs /\ p[1] \in ys
    OBVIOUS
  <2>4. (\A x \in xs : \E p \in seen : p[2] = x) /\ (\A y \in ys : \E p \in seen : p[1] = y)
    OBVIOUS
  <2> DEFINE lx == CHOOSE m \in xs : \A n \in xs : m <= n
             mx == CHOOSE m \in xs : \A n \in xs : m >= n
             ly == CHOOSE m \in ys : \A n \in ys : m <= n
             my == CHOOSE m \in ys : \A n \in ys : m >= n
             box == [x |-> lx - 1, y |-> ly - 1, width |-> mx - lx + 1, height |-> my - ly + 1]
  <2>5. VisibleBounds(pixels) = {box}
    BY <1>2 DEF VisibleBounds
  <2>6. Tight({box}, pixels) <=>
          /\ \A p \in seen : /\ p[2] \in (box.x + 1)..(box.x + box.width)
                             /\ p[1] \in (box.y + 1)..(box.y + box.height)
          /\ (\E p \in seen : p[2] = box.x + 1) /\ (\E p \in seen : p[2] = box.x + box.width)
          /\ (\E p \in seen : p[1] = box.y + 1) /\ (\E p \in seen : p[1] = box.y + box.height)
    BY DEF Tight
  <2> HIDE DEF seen, xs, ys
  <2>7. lx \in xs /\ (\A n \in xs : lx <= n) /\ mx \in xs /\ (\A n \in xs : mx >= n)
    BY <2>2, EndsOf
  <2>8. ly \in ys /\ (\A n \in ys : ly <= n) /\ my \in ys /\ (\A n \in ys : my >= n)
    BY <2>2, EndsOf
  <2> HIDE DEF lx, mx, ly, my
  <2>9. lx \in Nat /\ mx \in Nat /\ ly \in Nat /\ my \in Nat
    BY <2>2, <2>7, <2>8
  <2>10. box.x + 1 = lx /\ box.x + box.width = mx /\ box.y + 1 = ly /\ box.y + box.height = my
    BY <2>9
  <2>11. \A p \in seen : p[2] \in lx..mx /\ p[1] \in ly..my
    BY <2>1, <2>3, <2>7, <2>8, <2>9
  <2>12. /\ (\E p \in seen : p[2] = lx) /\ (\E p \in seen : p[2] = mx)
         /\ (\E p \in seen : p[1] = ly) /\ (\E p \in seen : p[1] = my)
    BY <2>4, <2>7, <2>8
  <2> HIDE DEF box
  <2> QED
    BY <2>5, <2>6, <2>10, <2>11, <2>12
<1> QED
  BY <1>1, <1>2

-------------------------------------------------------------------------------
(* Pictures: the stages                                                        *)

\* What may come back of the provider.
OutputFits(o) ==
    \/ o.odd \in Oddity
    \/ /\ o.odd = "no"
       /\ \E h, w \in Nat \ {0} :
            /\ o.pixels \in [(1..h) \X (1..w) -> 0..(ByteSize - 1)] /\ o.filters \in [1..h -> 0..5]
            /\ (\A y \in 1..h : o.filters[y] < 5) => o.rows = Encoded(o.pixels, o.filters)

PictureInv ==
    /\ PictureTypeOK
    /\ concluded = [type |-> concluded.type, as |-> concluded.as, box |-> concluded.box]
    /\ stage \in {"chosen", "uploaded"} => bytes \in File /\ concluded.as = "none"
    /\ stage = "uploaded" =>
         /\ concluded.type = TypeOf(bytes.container)
         /\ bytes.container \notin {"heif", "other"} /\ bytes.length # "tiny"
    /\ stage \in {"registered", "provided", "stored", "processed"} => concluded.as # "none"
    /\ stage \in {"provided", "stored"} => OutputFits(bytes)
    /\ BytesDecide

LEMMA PictureShows == PictureInv => PictureTypeOK /\ BytesDecide
  BY DEF PictureInv

LEMMA TypesAreMimes ==
    ASSUME NEW c \in Container
    PROVE  TypeOf(c) \in Mime /\ TypeOf(c) # "none" /\ TypeOf(c) # "text/html"
  BY DEF Container, TypeOf, Mime

LEMMA PictureInvInit == PictureInit => PictureInv
  BY DEF PictureInit, PictureInv, PictureTypeOK, BytesDecide, NothingTold, Stage

\* A file is too large only as its sides are read: those of a lossy WebP may be
\* others than its own.
LEMMA TooLargeIs ==
    ASSUME NEW f
    PROVE  /\ TooLarge(f) => f.container = "lossyWebp" \/ (Measured(f) /\ Oversize(f.width, f.height))
           /\ f.container # "lossyWebp" /\ Measured(f) /\ Oversize(f.width, f.height) => TooLarge(f)
  BY DEF TooLarge, SideRead

LEMMA UploadStep == ASSUME PictureInv, UploadFile PROVE PictureInv'
<1> DEFINE type == SniffImageType(bytes)
<1>0. bytes \in File /\ stage = "chosen" /\ concluded.as = "none"
  BY DEF UploadFile, PictureInv
<1>1. CASE bytes.declared = "text/html" \/ bytes.length = "huge" \/ type = "none"
  <2>1. stage' = "notUploaded" /\ bytes' = bytes /\ concluded' = concluded
    BY <1>0, <1>1 DEF UploadFile, RefusePicture
  <2> QED
    BY <2>1 DEF PictureInv, PictureTypeOK, BytesDecide, Stage
<1>2. CASE ~(bytes.declared = "text/html" \/ bytes.length = "huge" \/ type = "none")
  <2>1. stage' = "uploaded" /\ concluded' = [concluded EXCEPT !.type = type] /\ bytes' = bytes
    BY <1>0, <1>2 DEF UploadFile
  <2>2. bytes.container \in Container
    BY <1>0 DEF File
  <2>3. type = TypeOf(bytes.container) /\ bytes.container \notin {"heif", "other"} /\ bytes.length # "tiny"
    BY <1>2 DEF SniffImageType
  <2>4. type \in Mime
    BY <2>2, <2>3, TypesAreMimes
  <2>5. concluded = [type |-> concluded.type, as |-> concluded.as, box |-> concluded.box]
    BY DEF PictureInv
  <2> HIDE DEF type
  <2>6. concluded' = [type |-> type, as |-> concluded.as, box |-> concluded.box]
    BY <2>1, <2>5
  <2>7. concluded.as \in Mime \cup {"none"}
    BY DEF PictureInv, PictureTypeOK
  <2>8. PictureTypeOK'
    BY <2>1, <2>4, <2>6, <2>7 DEF PictureTypeOK, Stage
  <2>9. BytesDecide'
    BY <2>1, <2>3, <2>6 DEF BytesDecide
  <2> QED
    BY <1>0, <2>1, <2>3, <2>6, <2>8, <2>9 DEF PictureInv
<1> QED
  BY <1>1, <1>2

LEMMA RegisterStep == ASSUME PictureInv, RegisterFromUpload PROVE PictureInv'
<1> DEFINE type == Inspected(bytes)
           matches == bytes.declared = type \/ (bytes.declared = "image/heif" /\ type = "image/heic")
<1>0. /\ bytes \in File /\ stage = "uploaded" /\ concluded.as = "none"
      /\ concluded.type = TypeOf(bytes.container)
      /\ bytes.container \notin {"heif", "other"} /\ bytes.length # "tiny"
  BY DEF RegisterFromUpload, PictureInv
<1>1. CASE bytes.container = "png" /\ bytes.length = "cut"
  <2>1. stage' = "broken" /\ bytes' = bytes /\ concluded' = concluded
    BY <1>0, <1>1 DEF RegisterFromUpload, RefusePicture
  <2> QED
    BY <1>0, <1>1, <2>1 DEF PictureInv, PictureTypeOK, BytesDecide, Stage
<1>2. CASE ~(bytes.container = "png" /\ bytes.length = "cut") /\ (type = "none" \/ ~matches \/ TooLarge(bytes))
  <2>1. stage' = "notRegistered" /\ bytes' = bytes /\ concluded' = concluded
    BY <1>0, <1>2 DEF RegisterFromUpload, RefusePicture
  <2>2. bytes.container \in Container
    BY <1>0 DEF File
  <2>3. \/ bytes.container \in {"gif", "heim"} \/ TooLarge(bytes)
        \/ FalselyDeclared(bytes, concluded.type)
    <3>1. CASE bytes.container \in {"gif", "heim"} \/ TooLarge(bytes)
      BY <3>1
    <3>2. CASE ~(bytes.container \in {"gif", "heim"} \/ TooLarge(bytes))
      <4>1. type = TypeOf(bytes.container)
        BY <1>0, <3>2 DEF Inspected
      <4>2. type # "none"
        BY <2>2, <4>1, TypesAreMimes
      <4> QED
        BY <1>0, <1>2, <3>2, <4>1, <4>2 DEF FalselyDeclared
    <3> QED
      BY <3>1, <3>2
  <2>4. \/ bytes'.container \in {"gif", "heim", "lossyWebp"}
        \/ Measured(bytes') /\ Oversize(bytes'.width, bytes'.height)
        \/ FalselyDeclared(bytes', concluded'.type)
    BY <2>1, <2>3, TooLargeIs
  <2>5. BytesDecide'
    BY <2>1, <2>4 DEF BytesDecide
  <2> QED
    BY <1>0, <2>1, <2>5 DEF PictureInv, PictureTypeOK, Stage
<1>3. CASE ~(bytes.container = "png" /\ bytes.length = "cut") /\ ~(type = "none" \/ ~matches \/ TooLarge(bytes))
  <2>1. stage' = "registered" /\ concluded' = [NothingTold EXCEPT !.as = type] /\ bytes' = bytes
    BY <1>0, <1>3 DEF RegisterFromUpload
  <2>2. type \in Mime /\ type # "none"
    <3>1. bytes.container \in Container
      BY <1>0 DEF File
    <3>2. type = TypeOf(bytes.container)
      BY <1>3 DEF Inspected
    <3> QED
      BY <3>1, <3>2, TypesAreMimes
  <2> HIDE DEF type
  <2>3. concluded' = [type |-> "none", as |-> type, box |-> {}]
    BY <2>1 DEF NothingTold
  <2>4. PictureTypeOK'
    BY <2>1, <2>2, <2>3 DEF PictureTypeOK, Stage
  <2>5. concluded' = [type |-> concluded'.type, as |-> concluded'.as, box |-> concluded'.box]
    BY <2>3
  <2>6. BytesDecide'
    <3>1. Measured(bytes') /\ bytes'.container # "lossyWebp" => ~Oversize(bytes'.width, bytes'.height)
      BY <1>3, <2>1, TooLargeIs
    <3> QED
      BY <2>1, <3>1 DEF BytesDecide
  <2>7. concluded'.as # "none"
    BY <2>2, <2>3
  <2> QED
    BY <2>1, <2>4, <2>5, <2>6, <2>7 DEF PictureInv
<1> QED
  BY <1>1, <1>2, <1>3

LEMMA ProvideStep == ASSUME PictureInv, Provide PROVE PictureInv'
<1>0. stage = "registered" /\ stage' = "provided" /\ concluded' = concluded
  BY DEF Provide
<1>1. OutputFits(bytes')
  <2>1. CASE bytes' \in OddOutput
    BY <2>1 DEF OutputFits, OddOutput
  <2>2. CASE \E pixels \in Pixels : \E filters \in [1..Height(pixels) -> 0..5] :
               bytes' = [odd |-> "no", pixels |-> pixels, filters |-> filters,
                         rows |-> IF \E y \in DOMAIN filters : filters[y] = 5 THEN pixels
                                  ELSE Encoded(pixels, filters)]
    <3>1. PICK pixels \in Pixels : \E filters \in [1..Height(pixels) -> 0..5] :
               bytes' = [odd |-> "no", pixels |-> pixels, filters |-> filters,
                         rows |-> IF \E y \in DOMAIN filters : filters[y] = 5 THEN pixels
                                  ELSE Encoded(pixels, filters)]
      BY <2>2
    <3>2. PICK h \in Size, w \in Size : pixels \in [(1..h) \X (1..w) -> 0..(ByteSize - 1)]
      <4>1. \E h \in Size : \E w \in Size : pixels \in [(1..h) \X (1..w) -> 0..(ByteSize - 1)]
        BY DEF Pixels
      <4> QED
        BY <4>1
    <3>3. h \in Nat \ {0} /\ w \in Nat \ {0}
      BY DEF Size
    <3>4. Height(pixels) = h
      BY <3>2, <3>3, SidesAre
    <3>5. PICK filters \in [1..h -> 0..5] :
               bytes' = [odd |-> "no", pixels |-> pixels, filters |-> filters,
                         rows |-> IF \E y \in DOMAIN filters : filters[y] = 5 THEN pixels
                                  ELSE Encoded(pixels, filters)]
      BY <3>1, <3>4
    <3>6. bytes'.odd = "no" /\ bytes'.pixels = pixels /\ bytes'.filters = filters
      BY <3>5
    <3>7. (\A y \in 1..h : filters[y] < 5) => bytes'.rows = Encoded(pixels, filters)
      <4>1. (\A y \in 1..h : filters[y] < 5) => ~\E y \in DOMAIN filters : filters[y] = 5
        OBVIOUS
      <4> QED
        BY <3>5, <4>1
    <3> QED
      BY <3>2, <3>3, <3>6, <3>7 DEF OutputFits
  <2> QED
    BY <2>1, <2>2 DEF Provide
<1> QED
  BY <1>0, <1>1 DEF PictureInv, PictureTypeOK, BytesDecide, Stage

LEMMA ValidateStep == ASSUME PictureInv, ValidateTransparentOutput PROVE PictureInv'
<1>0. stage = "provided" /\ concluded.as # "none" /\ OutputFits(bytes)
  BY DEF ValidateTransparentOutput, PictureInv
<1>1. CASE bytes.odd \in Unfit
  <2>1. stage' = "notIsolated" /\ bytes' = bytes /\ concluded' = concluded
    BY <1>0, <1>1 DEF ValidateTransparentOutput, RefusePicture
  <2> QED
    BY <2>1 DEF PictureInv, PictureTypeOK, BytesDecide, Stage
<1>2. CASE bytes.odd \notin Unfit
  <2>1. stage' = "stored" /\ concluded' = [concluded EXCEPT !.type = "image/png"] /\ bytes' = bytes
    BY <1>0, <1>2 DEF ValidateTransparentOutput
  <2>2. concluded = [type |-> concluded.type, as |-> concluded.as, box |-> concluded.box]
    BY DEF PictureInv
  <2>3. concluded' = [type |-> "image/png", as |-> concluded.as, box |-> concluded.box]
    BY <2>1, <2>2
  <2>4. PictureTypeOK'
    BY <2>1, <2>3 DEF PictureInv, PictureTypeOK, Stage, Mime
  <2> QED
    BY <1>0, <2>1, <2>3, <2>4 DEF PictureInv, BytesDecide
<1> QED
  BY <1>1, <1>2

LEMMA ComputeStep == ASSUME PictureInv, ComputePngVisibleBounds PROVE PictureInv'
<1>0. stage = "stored" /\ concluded.as # "none" /\ OutputFits(bytes)
  BY DEF ComputePngVisibleBounds, PictureInv
<1>1. CASE bytes.odd = "shortHeader"
  <2>1. stage' = "broken" /\ bytes' = bytes /\ concluded' = concluded
    BY <1>0, <1>1 DEF ComputePngVisibleBounds, RefusePicture
  <2> QED
    BY <1>0, <1>1, <2>1 DEF PictureInv, PictureTypeOK, BytesDecide, Stage
<1>2. CASE bytes.odd # "shortHeader"
  <2>1. PICK box : box = IF bytes.odd # "no" \/ (\E y \in DOMAIN bytes.filters : bytes.filters[y] > 4) THEN {}
                         ELSE VisibleBounds(Decoded(bytes.rows, bytes.filters))
    OBVIOUS
  <2>2. stage' = "processed" /\ concluded' = [concluded EXCEPT !.box = box] /\ bytes' = bytes
    BY <1>0, <1>2, <2>1 DEF ComputePngVisibleBounds
  <2>3. concluded = [type |-> concluded.type, as |-> concluded.as, box |-> concluded.box]
    BY DEF PictureInv
  <2>4. concluded' = [type |-> concluded.type, as |-> concluded.as, box |-> box]
    BY <2>2, <2>3
  <2>5. PictureTypeOK'
    BY <2>2, <2>4 DEF PictureInv, PictureTypeOK, Stage
  <2>6. bytes.odd # "no" => box = {}
    BY <2>1
  <2>7. ASSUME bytes.odd = "no", \A y \in DOMAIN bytes.filters : bytes.filters[y] < 5
        PROVE  Tight(box, bytes.pixels)
    <3>1. PICK h \in Nat \ {0}, w \in Nat \ {0} :
            /\ bytes.pixels \in [(1..h) \X (1..w) -> 0..(ByteSize - 1)] /\ bytes.filters \in [1..h -> 0..5]
            /\ (\A y \in 1..h : bytes.filters[y] < 5) => bytes.rows = Encoded(bytes.pixels, bytes.filters)
      BY <1>0, <2>7 DEF OutputFits, Oddity, Unfit
    <3>2. \A y \in 1..h : bytes.filters[y] \in 0..4
      <4>1. DOMAIN bytes.filters = 1..h /\ \A y \in 1..h : bytes.filters[y] \in 0..5
        BY <3>1
      <4> QED
        BY <2>7, <4>1
    <3>3. bytes.filters \in [1..h -> 0..4] /\ bytes.rows = Encoded(bytes.pixels, bytes.filters)
      <4>1. bytes.filters = [y \in 1..h |-> bytes.filters[y]]
        BY <3>1
      <4>2. \A y \in 1..h : bytes.filters[y] < 5
        BY <3>2
      <4>3. bytes.filters \in [1..h -> 0..4]
        BY <3>2, <4>1
      <4> QED
        BY <3>1, <4>2, <4>3
    <3>4. ~(\E y \in DOMAIN bytes.filters : bytes.filters[y] > 4)
      BY <3>2, <3>3
    <3>5. Decoded(bytes.rows, bytes.filters) = bytes.pixels
      BY <3>1, <3>3, DecodedIsEncoded
    <3>6. box = VisibleBounds(bytes.pixels)
      BY <2>1, <2>7, <3>4, <3>5
    <3> QED
      BY <3>1, <3>6, BoundsAreTight
  <2>8. BytesDecide'
    <3>1. Tight(concluded'.box, bytes'.pixels) <=> Tight(box, bytes.pixels)
      BY <2>2, <2>4
    <3> QED
      BY <2>2, <2>4, <2>6, <2>7, <3>1 DEF BytesDecide
  <2> QED
    BY <1>0, <2>2, <2>4, <2>5, <2>8 DEF PictureInv
<1> QED
  BY <1>1, <1>2

LEMMA PictureInvStep == PictureInv /\ [PictureNext]_pictureVars => PictureInv'
<1> SUFFICES ASSUME PictureInv, [PictureNext]_pictureVars PROVE PictureInv'
  OBVIOUS
<1>1. CASE UNCHANGED pictureVars
  <2>1. stage' = stage /\ bytes' = bytes /\ concluded' = concluded
    BY <1>1 DEF pictureVars
  <2>2. BytesDecide'
    BY <2>1 DEF PictureInv, BytesDecide, Measured, FalselyDeclared
  <2> QED
    BY <2>1, <2>2 DEF PictureInv, PictureTypeOK
<1> QED
  BY <1>1, UploadStep, RegisterStep, ProvideStep, ValidateStep, ComputeStep DEF PictureNext

-------------------------------------------------------------------------------
(* All of them                                                                 *)

\* The invariant of what a behaviour is about; exports have their types always.
ExchangeInv ==
    /\ TypeOK
    /\ In("imports", ImportInv) /\ In("settings", ConfigInv)
    /\ In("compositions", CompositionInv) /\ In("collections", CollectionInv)
    /\ In("pictures", PictureInv)

LEMMA ExchangeInvInit == ExchangeInit => ExchangeInv
<1>1. Init => TypeOK
  BY DEF Init, TypeOK, NoRow, Row, Run, RunPc, ReaderState, Away
<1> QED
  BY <1>1, ImportInvInit, ConfigInvInit, CompositionInvInit, CollectionInvInit, PictureInvInit
     DEF ExchangeInit, ExchangeInv, In

LEMMA ExchangeStep ==
    ASSUME [ExchangeNext]_exchangeVars
    PROVE  /\ service' = service /\ [Next]_vars
           /\ service = "imports" => [ImportNext]_importVars
           /\ service = "settings" => [ConfigNext]_configVars
           /\ service = "compositions" => [CompositionNext]_compositionVars
           /\ service = "collections" => [CollectionNext]_collectionVars
           /\ service = "pictures" => [PictureNext]_pictureVars
  BY DEF ExchangeNext, exchangeVars

LEMMA ExchangeInvStep == ExchangeInv /\ [ExchangeNext]_exchangeVars => ExchangeInv'
<1> SUFFICES ASSUME ExchangeInv, [ExchangeNext]_exchangeVars PROVE ExchangeInv'
  OBVIOUS
<1>1. TypeOK' /\ service' = service
  BY ExchangeStep, TypeStep DEF ExchangeInv
<1>2. CASE service = "imports"
  <2>1. ImportInv'
    BY <1>2, ExchangeStep, ImportInvStep DEF ExchangeInv, In
  <2> QED
    BY <1>1, <1>2, <2>1 DEF ExchangeInv, In
<1>3. CASE service = "settings"
  <2>1. ConfigInv'
    BY <1>3, ExchangeStep, ConfigInvStep DEF ExchangeInv, In
  <2> QED
    BY <1>1, <1>3, <2>1 DEF ExchangeInv, In
<1>4. CASE service = "compositions"
  <2>1. CompositionInv'
    BY <1>4, ExchangeStep, CompositionInvStep DEF ExchangeInv, In
  <2> QED
    BY <1>1, <1>4, <2>1 DEF ExchangeInv, In
<1>5. CASE service = "collections"
  <2>1. CollectionInv'
    BY <1>5, ExchangeStep, CollectionInvStep DEF ExchangeInv, In
  <2> QED
    BY <1>1, <1>5, <2>1 DEF ExchangeInv, In
<1>6. CASE service = "pictures"
  <2>1. PictureInv'
    BY <1>6, ExchangeStep, PictureInvStep DEF ExchangeInv, In
  <2> QED
    BY <1>1, <1>6, <2>1 DEF ExchangeInv, In
<1>7. CASE service \notin {"imports", "settings", "compositions", "collections", "pictures"}
  BY <1>1, <1>7 DEF ExchangeInv, In
<1> QED
  BY <1>2, <1>3, <1>4, <1>5, <1>6, <1>7

LEMMA ExchangeInvShows ==
    ExchangeInv =>
      /\ ExchangeTypeOK /\ ImportsAreTold /\ SettingsAreTold /\ RepitsSaveBack
      /\ PlaylistsAreWhole /\ PicturesAreJudged
<1> SUFFICES ASSUME ExchangeInv
             PROVE  /\ ExchangeTypeOK /\ ImportsAreTold /\ SettingsAreTold /\ RepitsSaveBack
                    /\ PlaylistsAreWhole /\ PicturesAreJudged
  OBVIOUS
<1>1. In("imports", ImportTypeOK /\ NoFaultNoExcuse /\ PreparedAlike)
  BY DEF ExchangeInv, ImportInv, In
<1>2. In("settings", ConfigTypeOK /\ DiagnosticsAreTrue)
  BY DEF ExchangeInv, ConfigInv, In
<1>3. In("compositions", CompositionTypeOK /\ ShownSavesBack)
  BY CompositionShows DEF ExchangeInv, In
<1>4. In("collections", CollectionTypeOK /\ ShownInFull /\ SharedAsChosen)
  BY CollectionShows DEF ExchangeInv, In
<1>5. In("pictures", PictureTypeOK /\ BytesDecide)
  BY PictureShows DEF ExchangeInv, In
<1>6. TypeOK
  BY DEF ExchangeInv
<1> QED
  BY <1>1, <1>2, <1>3, <1>4, <1>5, <1>6
     DEF ExchangeTypeOK, ImportsAreTold, SettingsAreTold, RepitsSaveBack, PlaylistsAreWhole, PicturesAreJudged, In

LEMMA ExchangeInvariant == ExchangeSpec => []ExchangeInv
<1> QED
  BY ExchangeInvInit, ExchangeInvStep, PTL DEF ExchangeSpec

\* What is stored and answered has the type of its column or its field, in each
\* of the components.
THEOREM ExchangeTypes == ExchangeSpec => []ExchangeTypeOK
  BY ExchangeInvariant, ExchangeInvShows, PTL

\* A playlist that nobody edits is shown in full, page after page, whatever the
\* sizes of the provider's pages and of the app's and wherever files without an id
\* are in it; and a shared collection is made of the very songs that were chosen,
\* in their order, whatever became of the list (music-library.service.ts).
THEOREM ListsAreShownInFull == ExchangeSpec => []PlaylistsAreWhole
  BY ExchangeInvariant, ExchangeInvShows, PTL

\* A picture is judged by its bytes at every stage: its type; its dimensions,
\* where they are read and it is no lossy WebP, whose sides the code misreads; and
\* the bounds of what is visible of it, which the decoder of PNG finds for every
\* picture of every size, every choice of filters and every number of values of a
\* byte (uploads.service.ts, media-image-validation.ts, png-alpha-bounds.ts).
THEOREM BytesAreBelieved == ExchangeSpec => []PicturesAreJudged
  BY ExchangeInvariant, ExchangeInvShows, PTL

\* An import that fails says why, however its requests, tokens and waits fall
\* out, and a link means the same however often it is prepared
\* (music.service.ts).
THEOREM FailuresAreExplained == ExchangeSpec => []ImportsAreTold
  BY ExchangeInvariant, ExchangeInvShows, PTL

\* A provider that its diagnostics call ready refuses nobody for its settings, and
\* one that they do not connects nobody but in what development tolerates, for
\* every setting of the environment (auth.service.ts).
THEOREM DiagnosticsTell == ExchangeSpec => []SettingsAreTold
  BY ExchangeInvariant, ExchangeInvShows, PTL

\* What an owner is shown of a Repit can be saved back, and a composition is lost
\* to nobody but a late save, for any number of templates and versions
\* (repits.service.ts, composition-backfill.ts).
THEOREM ShownIsSavedBack == ExchangeSpec => []RepitsSaveBack
  BY ExchangeInvariant, ExchangeInvShows, PTL

===============================================================================
