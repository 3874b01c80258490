------------------------------- MODULE Campaigns -------------------------------
(* Notification campaigns (admin/notifications) and the device tokens they are  *)
(* pushed to (notifications/).  No operation locks anything: each reads the row *)
(* and later saves it whole.                                                    *)
EXTENDS Naturals, FiniteSets

CONSTANTS
    Campaign,
    CampaignCall,  \* requests in progress, of administrators and of the app
    Subscriber,    \* users; each has devices of one platform
    Device,        \* Expo tokens
    MaxCampaignCalls,  \* bound: requests of a behaviour
    NoCampaign

ASSUME CampaignAssumption ==
    /\ MaxCampaignCalls \in Nat
    /\ IsFiniteSet(Subscriber) /\ IsFiniteSet(Device)
    /\ NoCampaign \notin Campaign \cup Subscriber \cup Device

VARIABLES
    campaign,     \* notification_campaigns
    pushToken,    \* push_tokens: how many rows join a user and a device
    campaignCall,
    campaignCalls,
    answers,      \* history: what the provider answered to a campaign's dispatches
    overlapped    \* history: devices registered by two requests at once

campaignVars ==
    <<campaign, pushToken, campaignCall, campaignCalls, answers, overlapped>>

Figure == 0..(2 * Cardinality(Subscriber \X Device))
CampaignStatus == {"draft", "scheduled", "sent", "cancelled", "failed",
                   "delivered", "partially_delivered", "delivery_unavailable"}
CampaignRow == [status: CampaignStatus, push: BOOLEAN, audience: SUBSET Subscriber,
                accepted: Figure, rejected: Figure]

CampaignTypeOK ==
    /\ campaign \in [Campaign -> CampaignRow \cup {NoCampaign}]
    /\ pushToken \in [Subscriber \X Device -> 0..2]
    /\ campaignCall \in [CampaignCall ->
           [pc: {"send", "save", "register", "insert"},
            on: Campaign \cup {NoCampaign}, row: CampaignRow \cup {NoCampaign},
            user: Subscriber \cup {NoCampaign}, device: Device \cup {NoCampaign}]
           \cup {NoCampaign}]
    /\ campaignCalls \in 0..MaxCampaignCalls
    /\ \A n \in Campaign : answers[n] \subseteq Figure \X Figure
    /\ overlapped \subseteq Device

CampaignInit ==
    /\ campaign = [n \in Campaign |-> NoCampaign]
    /\ pushToken \in [Subscriber \X Device -> 0..1]
    /\ \A d \in Device : Cardinality({u \in Subscriber : pushToken[<<u, d>>] = 1}) <= 1
    /\ campaignCall = [c \in CampaignCall |-> NoCampaign]
    /\ campaignCalls = 0
    /\ answers = [n \in Campaign |-> {}]
    /\ overlapped = {}

StartsCall(c, call) ==
    /\ campaignCall[c] = NoCampaign
    /\ campaignCalls < MaxCampaignCalls
    /\ campaignCall' = [campaignCall EXCEPT ![c] = call]
    /\ campaignCalls' = campaignCalls + 1
CallIs(c, pc) == campaignCall[c] /= NoCampaign /\ campaignCall[c].pc = pc
CallGoesOn(c, call) ==
    /\ campaignCall' = [campaignCall EXCEPT ![c] = call]
    /\ UNCHANGED campaignCalls

Writing(n, row) ==
    [pc |-> "save", on |-> n, row |-> row, user |-> NoCampaign, device |-> NoCampaign]

CreateCampaign(n, push, audience) ==
    /\ campaign[n] = NoCampaign
    /\ campaign' = [campaign EXCEPT ![n] =
           [status |-> "draft", push |-> push, audience |-> audience,
            accepted |-> 0, rejected |-> 0]]
    /\ UNCHANGED <<pushToken, campaignCall, campaignCalls, answers, overlapped>>

\* Mutant of Copied: the copy keeps the figures of the original.
CopiedWithFigures(row) == [row EXCEPT !.status = "delivered"]
Copied(row) == [row EXCEPT !.status = "draft", !.accepted = 0, !.rejected = 0]

DuplicateCampaign(n, copy) ==
    /\ campaign[n] /= NoCampaign
    /\ campaign[copy] = NoCampaign
    /\ campaign' = [campaign EXCEPT ![copy] = Copied(campaign[n])]
    /\ UNCHANGED <<pushToken, campaignCall, campaignCalls, answers, overlapped>>

\* updateNotification, scheduleNotification and cancelNotification read a row to
\* save it changed; any status may be left, and the form takes five of them.
EditedCampaign(row) ==
    {[row EXCEPT !.audience = audience] : audience \in SUBSET Subscriber}
    \cup {[row EXCEPT !.push = ~row.push]}
    \cup {[row EXCEPT !.status = status] :
             status \in {"draft", "scheduled", "sent", "cancelled", "failed"}}
Edit(c, n) ==
    /\ campaign[n] /= NoCampaign
    /\ \E row \in EditedCampaign(campaign[n]) : StartsCall(c, Writing(n, row))
    /\ UNCHANGED <<campaign, pushToken, answers, overlapped>>

\* sendNotification, whatever the status: reads the row,
Send(c, n) ==
    /\ campaign[n] /= NoCampaign
    /\ StartsCall(c, [Writing(n, campaign[n]) EXCEPT !.pc = "send"])
    /\ UNCHANGED <<campaign, pushToken, answers, overlapped>>

Recipients(row) == {pair \in Subscriber \X Device : pair[1] \in row.audience}
Tokens(row) ==
    Cardinality({pair \in Recipients(row) : pushToken[pair] > 0})
    + Cardinality({pair \in Recipients(row) : pushToken[pair] > 1})

\* derives the status from what the provider answered,
\* Mutant of Outcome: from the number of messages sent.
OutcomeByTokens(tokens, accepted) ==
    IF tokens = 0 THEN "delivery_unavailable" ELSE "delivered"
Outcome(tokens, accepted) ==
    IF tokens = 0 THEN "delivery_unavailable"
    ELSE IF accepted = 0 THEN "failed"
    ELSE IF accepted < tokens THEN "partially_delivered"
    ELSE "delivered"

\* dispatches (sendCampaign; a chunk that fails counts as rejected),
Dispatch(c, accepted) ==
    /\ CallIs(c, "send")
    /\ LET call == campaignCall[c]
           n == call.on
           row == call.row
           tokens == Tokens(row)
       IN
       IF ~row.push
       THEN /\ CallGoesOn(c, Writing(n,
                   [row EXCEPT !.status = "delivery_unavailable", !.accepted = 0, !.rejected = 0]))
            /\ UNCHANGED answers
       ELSE /\ accepted <= tokens
            /\ answers' = [answers EXCEPT ![n] = @ \cup {<<accepted, tokens - accepted>>}]
            /\ CallGoesOn(c, Writing(n,
                   [row EXCEPT !.status = Outcome(tokens, accepted),
                               !.accepted = accepted, !.rejected = tokens - accepted]))
    /\ UNCHANGED <<campaign, pushToken, overlapped>>

\* and saves the row.
SaveCampaign(c) ==
    /\ CallIs(c, "save")
    /\ campaign' = [campaign EXCEPT ![campaignCall[c].on] = campaignCall[c].row]
    /\ CallGoesOn(c, NoCampaign)
    /\ UNCHANGED <<pushToken, answers, overlapped>>

-------------------------------------------------------------------------------
(* Device tokens.                                                              *)

\* registerToken deletes the rows of the device,
\* Mutant of Register: only the caller's own rows.
RegisterOwn(c, u, d) ==
    /\ StartsCall(c, [Writing(NoCampaign, NoCampaign) EXCEPT
                          !.pc = "register", !.user = u, !.device = d])
    /\ pushToken' = [pushToken EXCEPT ![<<u, d>>] = 0]
    /\ overlapped' = overlapped \cup
           {e \in {d} : \E b \in CampaignCall \ {c} :
               campaignCall[b] /= NoCampaign /\ campaignCall[b].device = e}
    /\ UNCHANGED <<campaign, answers>>
Register(c, u, d) ==
    /\ StartsCall(c, [Writing(NoCampaign, NoCampaign) EXCEPT
                          !.pc = "register", !.user = u, !.device = d])
    /\ pushToken' = [pair \in Subscriber \X Device |->
                         IF pair[2] = d THEN 0 ELSE pushToken[pair]]
    /\ overlapped' = overlapped \cup
           {e \in {d} : \E b \in CampaignCall \ {c} :
               campaignCall[b] /= NoCampaign /\ campaignCall[b].device = e}
    /\ UNCHANGED <<campaign, answers>>

\* then those of the user and platform,
DropFormer(c) ==
    /\ CallIs(c, "register")
    /\ pushToken' = [pair \in Subscriber \X Device |->
                         IF pair[1] = campaignCall[c].user THEN 0 ELSE pushToken[pair]]
    /\ CallGoesOn(c, [campaignCall[c] EXCEPT !.pc = "insert"])
    /\ UNCHANGED <<campaign, answers, overlapped>>

\* and inserts its own.
Insert(c) ==
    /\ CallIs(c, "insert")
    /\ pushToken' = [pushToken EXCEPT ![<<campaignCall[c].user, campaignCall[c].device>>] =
                         IF @ < 2 THEN @ + 1 ELSE @]
    /\ CallGoesOn(c, NoCampaign)
    /\ UNCHANGED <<campaign, answers, overlapped>>

\* unregisterToken; removeToken deletes all of them.
Unregister(u, devices) ==
    /\ \E d \in devices : pushToken[<<u, d>>] > 0
    /\ pushToken' = [pair \in Subscriber \X Device |->
                         IF pair[1] = u /\ pair[2] \in devices THEN 0 ELSE pushToken[pair]]
    /\ UNCHANGED <<campaign, campaignCall, campaignCalls, answers, overlapped>>

\* A request that throws or dies leaves what it did.
CampaignThrows(c) ==
    /\ campaignCall[c] /= NoCampaign
    /\ CallGoesOn(c, NoCampaign)
    /\ UNCHANGED <<campaign, pushToken, answers, overlapped>>

CampaignNext ==
    \/ \E n \in Campaign :
          \/ \E push \in BOOLEAN, audience \in SUBSET Subscriber : CreateCampaign(n, push, audience)
          \/ \E copy \in Campaign : DuplicateCampaign(n, copy)
          \/ \E c \in CampaignCall :
                \/ Send(c, n)
                \/ Edit(c, n)
    \/ \E c \in CampaignCall :
          \/ SaveCampaign(c) \/ DropFormer(c) \/ Insert(c) \/ CampaignThrows(c)
          \/ \E accepted \in Figure : Dispatch(c, accepted)
          \/ \E u \in Subscriber, d \in Device : Register(c, u, d)
    \/ \E u \in Subscriber, devices \in SUBSET Device : Unregister(u, devices)

CampaignSpec == CampaignInit /\ [][CampaignNext]_campaignVars

-------------------------------------------------------------------------------
\* "We never report delivery without provider evidence": a row that says it was
\* delivered carries the answer to one of its own dispatches, not all rejected,
\* whoever saved over it.
DeliveryHasEvidence ==
    \A n \in Campaign :
        campaign[n] /= NoCampaign /\ campaign[n].status \in {"delivered", "partially_delivered"} =>
            /\ <<campaign[n].accepted, campaign[n].rejected>> \in answers[n]
            /\ campaign[n].accepted > 0
            /\ (campaign[n].rejected = 0) <=> (campaign[n].status = "delivered")

\* "Ensure a physical device token belongs to only one account at a time": it
\* does, unless two registrations of the device have overlapped (nothing locks
\* the rows and no index is unique).
DeviceHasOneAccount ==
    \A d \in Device \ overlapped :
        Cardinality({u \in Subscriber : pushToken[<<u, d>>] > 0}) <= 1

===============================================================================
