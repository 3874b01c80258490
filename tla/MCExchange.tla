------------------------------ MODULE MCExchange ------------------------------
(* What goes in and out of the API one thing at a time: the package of an      *)
(* export, a music link, a playlist, the settings of a provider's flow, the    *)
(* composition of a Repit, a picture.  They share no state; one run visits     *)
(* each from its own initial states, for the sum and not the product of their  *)
(* states: the variables of those a behaviour is not about hold nothing, and   *)
(* no export is asked for.                                                     *)
EXTENDS PrivacyExport, MusicImports, MusicCollections, ProviderConfig,
        RepitCompositions, PictureBytes

CONSTANTS
    x1, x2, r1, r2, s1, s2, t1, t2

VARIABLE service   \* the component this behaviour is about

Rests == 0

ExchangeInit ==
    /\ service \in {"imports", "collections", "settings", "compositions",
                    "pictures", "export"}
    /\ Init
    /\ IF service = "imports" THEN ImportInit
       ELSE /\ link = Rests /\ world = Rests /\ connection1 = Rests
            /\ errand = Rests /\ told = Rests /\ failed = Rests
    /\ IF service = "collections" THEN CollectionInit
       ELSE /\ playlist = Rests /\ edits = Rests /\ reading = Rests
            /\ shown = Rests /\ chosen = Rests /\ collection = Rests
            /\ importCount = Rests
    /\ IF service = "settings" THEN ConfigInit
       ELSE /\ setup = Rests /\ flow = Rests
    /\ IF service = "compositions" THEN CompositionInit
       ELSE /\ schema = Rests /\ template = Rests /\ repit = Rests
            /\ edit = Rests /\ batch = Rests /\ owners = Rests
            /\ overwritten = Rests
    /\ IF service = "pictures" THEN PictureInit
       ELSE /\ stage = Rests /\ bytes = Rests /\ concluded = Rests

ExchangeNext ==
    /\ UNCHANGED service
    /\ \/ /\ service = "imports" /\ ImportNext
          /\ UNCHANGED <<collectionVars, configVars, compositionVars,
                          pictureVars, vars>>
       \/ /\ service = "collections" /\ CollectionNext
          /\ UNCHANGED <<importVars, configVars, compositionVars,
                          pictureVars, vars>>
       \/ /\ service = "settings" /\ ConfigNext
          /\ UNCHANGED <<importVars, collectionVars, compositionVars,
                          pictureVars, vars>>
       \/ /\ service = "compositions" /\ CompositionNext
          /\ UNCHANGED <<importVars, collectionVars, configVars,
                          pictureVars, vars>>
       \/ /\ service = "pictures" /\ PictureNext
          /\ UNCHANGED <<importVars, collectionVars, configVars,
                          compositionVars, vars>>
       \/ /\ service = "export" /\ Next
          /\ UNCHANGED <<importVars, collectionVars, configVars,
                          compositionVars, pictureVars>>

exchangeVars == <<service, importVars, collectionVars, configVars,
                      compositionVars, pictureVars, vars>>

\* Time passes, and an API process with its hourly timer is up (FairSpec).
ExchangeSpec == ExchangeInit /\ [][ExchangeNext]_exchangeVars /\ WF_vars(Purge) /\ \A x \in Export : WF_vars(Expire(x))

In(name, holds) == service = name => holds

\* What is stored and answered has the type of its column or its field.
ExchangeTypeOK ==
    /\ TypeOK
    /\ In("imports", ImportTypeOK) /\ In("collections", CollectionTypeOK)
    /\ In("settings", ConfigTypeOK) /\ In("compositions", CompositionTypeOK)
    /\ In("pictures", PictureTypeOK)

\* An import that fails says why, and a link means the same however often it is
\* prepared (music.service.ts).
ImportsAreTold == In("imports", NoFaultNoExcuse /\ PreparedAlike)

\* A playlist left alone is shown in full, page after page, and shared as it was
\* chosen (music-library.service.ts).
PlaylistsAreWhole == In("collections", ShownInFull /\ SharedAsChosen)

\* What the diagnostics call ready works, and nothing else does
\* (auth.service.ts).
SettingsAreTold == In("settings", DiagnosticsAreTrue)

\* What an owner is shown of a Repit can be saved back, and a composition is lost
\* to nobody but a late save (repits.service.ts, composition-backfill.ts).
RepitsSaveBack == In("compositions", ShownSavesBack)

\* A picture is judged by its bytes, at every stage (uploads.service.ts,
\* media-image-validation.ts, png-alpha-bounds.ts).
PicturesAreJudged == In("pictures", BytesDecide)

===============================================================================
