---------------------------- MODULE ServicesProofs ----------------------------
(* What the services promise, for all values of their constants.  They share   *)
(* no state, so each of them has an inductive invariant of its own, given in   *)
(* the order of the modules; a behaviour is about one of them, and the last    *)
(* section states the promises for the specification of all.                   *)
EXTENDS MCServices, FiniteSetTheorems, TLAPS

-------------------------------------------------------------------------------
(* Administrators                                                              *)

Request == [pc: {"guard", "inside", "count", "counted", "save", "revoke",
                 "password", "code", "consumed", "open", "grant"},
            op: Op, actor: Admin \cup {Blank}, on: Admin \cup {Blank},
            key: Challenge \cup {Blank}, saw: Row \cup {Blank},
            row: Row \cup {Blank}, letter: Letter \cup {Blank}]

\* A request that will save a row where the account was put out puts it out
\* itself, or brings it back by its operation, or has read the row before.
MayBringBack(r) ==
    \/ r.op \in {"reactivate", "resend", "enrol"}
    \/ r.saw \in Row /\ r.saw.status \notin PutOut

\* Where a request stands tells its operation.
Sound(r) ==
    /\ r.op = "verify" => r.pc \in {"code", "save", "open"} /\ r.letter = Blank
    /\ r.pc \in {"code", "open"} => r.op = "verify"
    /\ r.pc \in {"code", "open", "guard"} \/ r.op = "verify" => r.key \in Challenge
    /\ r.pc \in {"guard", "inside"} => r.row = Blank /\ r.letter = Blank /\ r.op = "any"
    /\ r.pc = "password" => r.on \in Admin /\ r.saw \in Row /\ r.saw.status \notin PutOut
    /\ r.row # Blank => r.row.status \in PutOut \/ MayBringBack(r)

\* A ticket opens a session after it was consumed and before anybody else does; a
\* request that has passed the guard's reading had a session.
Redeems(r) == r.op = "verify" /\ r.pc \in {"save", "open"}
TicketHeld(r, tickets, openings) ==
    /\ r.pc = "guard" => openings[r.key] = 1
    /\ r.op = "verify" => tickets[r.key] # Blank
    /\ Redeems(r) => tickets[r.key].spent /\ openings[r.key] = 0

AdminBase ==
    /\ AdminTypeOK
    /\ \A c \in AdminCall : adminCall[c] # Blank => Sound(adminCall[c])

TicketInv ==
    /\ \A k \in Challenge :
        /\ opened[k] \in {0, 1}
        /\ adminSession[k] = "none" <=> opened[k] = 0
        /\ challenge[k] = Blank => opened[k] = 0
        /\ challenge[k] # Blank /\ opened[k] = 1 => challenge[k].spent
    /\ \A c \in AdminCall : adminCall[c] # Blank => TicketHeld(adminCall[c], challenge, opened)
    /\ \A c, d \in AdminCall :
        adminCall[c] # Blank /\ adminCall[d] # Blank /\ Redeems(adminCall[c])
            /\ Redeems(adminCall[d]) /\ adminCall[c].key = adminCall[d].key => c = d

\* While a request that has counted waits to save, another super administrator
\* is able.
OthersAble(r) == \E a \in Admin : a # r.on /\ Able(adminRow[a])
CountInv ==
    ~unguarded => /\ \E a \in Admin : Able(adminRow[a])
                  /\ \A c \in AdminCall : AdminAt(c, "counted") => OthersAble(adminCall[c])

AdminInv == AdminBase /\ TicketInv /\ CountInv


\* What Consider decides.
Operations == Guarded \cup {"reactivate", "promote", "resetMfa", "disableMfa", "keep", "reviewOut"}

-------------------------------------------------------------------------------
(* Types and well-formed requests                                              *)

CallsFit ==
    /\ adminCall \in [AdminCall -> Request \cup {Blank}]
    /\ \A c \in AdminCall : adminCall[c] # Blank => Sound(adminCall[c])

LEMMA BaseHasCalls == AdminBase => CallsFit
  BY DEF AdminBase, CallsFit, AdminTypeOK, Request

LEMMA BlankIsNoRow == Blank \notin Row /\ Blank \notin Ticket
  BY BlankAssumption

\* A step that replaces one request.
LEMMA CallReplaced ==
    ASSUME CallsFit, NEW c \in AdminCall, NEW r, r = Blank \/ (r \in Request /\ Sound(r)),
           adminCall' = [adminCall EXCEPT ![c] = r]
    PROVE  CallsFit'
  BY DEF CallsFit

LEMMA CallAt ==
    ASSUME CallsFit, NEW c \in AdminCall, NEW pc, AdminAt(c, pc)
    PROVE  adminCall[c] \in Request /\ Sound(adminCall[c]) /\ adminCall[c].pc = pc
  BY DEF CallsFit, AdminAt

Place == {"guard", "inside", "count", "counted", "save", "revoke", "password", "code",
          "consumed", "open", "grant"}
PlacedAt(r, pc) == [r EXCEPT !.pc = pc]
WithRow(r, pc, row) == [r EXCEPT !.pc = pc, !.row = row]

\* Fields of a request that is given another place, or another row as well.
LEMMA PlacedFields ==
    ASSUME NEW r \in Request, NEW pc \in Place
    PROVE  /\ PlacedAt(r, pc) \in Request /\ PlacedAt(r, pc).pc = pc /\ PlacedAt(r, pc).op = r.op
           /\ PlacedAt(r, pc).key = r.key /\ PlacedAt(r, pc).on = r.on /\ PlacedAt(r, pc).saw = r.saw
           /\ PlacedAt(r, pc).row = r.row /\ PlacedAt(r, pc).letter = r.letter
  BY DEF Request, PlacedAt, Place

LEMMA WithRowFields ==
    ASSUME NEW r \in Request, NEW row \in Row \cup {Blank}, NEW pc \in Place
    PROVE  /\ WithRow(r, pc, row) \in Request /\ WithRow(r, pc, row).pc = pc
           /\ WithRow(r, pc, row).op = r.op /\ WithRow(r, pc, row).key = r.key
           /\ WithRow(r, pc, row).on = r.on /\ WithRow(r, pc, row).saw = r.saw
           /\ WithRow(r, pc, row).row = row /\ WithRow(r, pc, row).letter = r.letter
<1> DEFINE n == PlacedAt(r, pc)
           m == [n EXCEPT !.row = row]
<1>1. n \in Request /\ n.pc = pc /\ n.op = r.op /\ n.key = r.key /\ n.on = r.on
      /\ n.saw = r.saw /\ n.letter = r.letter
  BY PlacedFields
<1>2. m = WithRow(r, pc, row)
  BY DEF PlacedAt, WithRow
<1> HIDE DEF n
<1>3. m \in Request /\ m.pc = n.pc /\ m.op = n.op /\ m.key = n.key /\ m.on = n.on
      /\ m.saw = n.saw /\ m.row = row /\ m.letter = n.letter
  BY <1>1 DEF Request
<1> QED
  BY <1>1, <1>2, <1>3

\* The rows that operations make have the type of the column.
LEMMA ChangedFits ==
    ASSUME NEW row \in Row, NEW op \in Operations
    PROVE  /\ Changed(op, row) \in Row
           /\ op \notin {"suspend", "deactivate", "reviewOut", "reactivate"}
                => Changed(op, row).status = row.status
           /\ op \in {"suspend", "deactivate", "reviewOut"} => Changed(op, row).status \in PutOut
<1>1. CASE op \in {"suspend", "reviewOut", "deactivate", "reactivate"}
  BY <1>1 DEF Changed, Row, PutOut
<1>2. CASE op \in {"promote", "demote"}
  BY <1>2 DEF Changed, Row, PutOut
<1>3. CASE op \in {"resetMfa", "disableMfa", "keep"}
  BY <1>3 DEF Changed, Row, PutOut
<1> QED
  BY <1>1, <1>2, <1>3 DEF Guarded, Operations

\* What most operations leave in the place of a request: nothing, or a request
\* that neither redeems a ticket nor has counted.
Plain(r) ==
    r = Blank \/ (r \in Request /\ Sound(r) /\ r.op # "verify" /\ r.pc \notin {"guard", "counted"})

PlainOf(c) ==
    \/ Touch(c) \/ SaveLetter(c) \/ RevokeAll(c)
    \/ Activate(c) \/ Grant(c) \/ WrongPassword(c) \/ OpenSession(c) \/ Boot(c) \/ AdminThrows(c)
    \/ \E k \in Challenge : RightPassword(c, k)
    \/ \E keys \in SUBSET Challenge : RevokeSome(c, keys)
PlainAbout(c, a) ==
    \/ Resend(c, a) \/ Withdraw(c, a) \/ Overdue(c, a)
    \/ SetPassword(c, a) \/ Enrol(c, a) \/ Login(c, a)
    \/ \E super \in BOOLEAN : Invite(c, a, super)
    \/ \E op \in Operations : Consider(c, a, op)

LEMMA PlainMoves ==
    ASSUME AdminBase, NEW c \in AdminCall, PlainOf(c)
    PROVE  \E r : Plain(r) /\ adminCall' = [adminCall EXCEPT ![c] = r]
<1> DEFINE Moved(r) == adminCall' = [adminCall EXCEPT ![c] = r]
<1>0. CallsFit
  BY BaseHasCalls
<1>1. ASSUME NEW pc \in {"inside", "save"}, NEW old, AdminAt(c, old), old \in {"guard", "revoke"},
             old = "guard" => pc = "inside", old = "revoke" => pc = "save", Moved(PlacedAt(adminCall[c], pc))
      PROVE  \E r : Plain(r) /\ Moved(r)
  <2>1. Plain(PlacedAt(adminCall[c], pc))
    BY <1>0, <1>1, CallAt, PlacedFields DEF Plain, Sound, Place, MayBringBack
  <2> QED
    BY <1>1, <2>1
<1>2. ASSUME Moved(Blank) PROVE \E r : Plain(r) /\ Moved(r)
  BY <1>2 DEF Plain
<1>3. CASE Touch(c)
  BY <1>1, <1>2, <1>3 DEF Touch, GoesOn, Ends, PlacedAt
<1>4. CASE RevokeAll(c)
  BY <1>1, <1>2, <1>4 DEF RevokeAll, GoesOn, Ends, PlacedAt
<1>5. CASE SaveLetter(c)
  <2> DEFINE r == [adminCall[c] EXCEPT !.letter = Blank]
  <2>1. adminCall[c] \in Request /\ Sound(adminCall[c]) /\ adminCall[c].pc = "save"
        /\ adminCall[c].letter # Blank
    BY <1>0, <1>5, CallAt DEF SaveLetter
  <2>2. r \in Request /\ r.pc = "save" /\ r.op = adminCall[c].op /\ r.key = adminCall[c].key
        /\ r.saw = adminCall[c].saw /\ r.row = adminCall[c].row /\ r.letter = Blank
    BY <2>1 DEF Request
  <2> HIDE DEF r
  <2>3. Plain(r)
    BY <2>1, <2>2 DEF Plain, Sound, MayBringBack
  <2> QED
    BY <1>2, <1>5, <2>3 DEF SaveLetter, GoesOn, Ends, r
<1>6. CASE Activate(c)
  <2> DEFINE r == [adminCall[c] EXCEPT !.op = "activate", !.pc = "grant"]
  <2>1. adminCall[c] \in Request /\ Sound(adminCall[c]) /\ adminCall[c].pc = "inside"
    BY <1>0, <1>6, CallAt DEF Activate
  <2>2. r \in Request /\ r.pc = "grant" /\ r.op = "activate"
        /\ r.saw = adminCall[c].saw /\ r.row = adminCall[c].row
    BY <2>1 DEF Request, Op
  <2> HIDE DEF r
  <2>3. r.row # Blank => r.row.status \in PutOut \/ MayBringBack(r)
    BY <2>1, <2>2 DEF Sound, MayBringBack
  <2>4. Plain(r)
    BY <2>2, <2>3 DEF Plain, Sound
  <2> QED
    BY <1>6, <2>4 DEF Activate, GoesOn, r
<1>7. CASE Grant(c)
  BY <1>2, <1>7 DEF Grant, GoesOn, Ends
<1>8. CASE OpenSession(c)
  BY <1>2, <1>8 DEF OpenSession, GoesOn, Ends
<1>9. CASE AdminThrows(c)
  BY <1>2, <1>9 DEF AdminThrows, GoesOn, Ends
<1>10. CASE \E keys \in SUBSET Challenge : RevokeSome(c, keys)
  BY <1>2, <1>10 DEF RevokeSome, GoesOn, Ends
<1>11. ASSUME NEW row \in Row, AdminAt(c, "password"), Moved(WithRow(adminCall[c], "save", row))
       PROVE  \E r : Plain(r) /\ Moved(r)
  <2> DEFINE r == WithRow(adminCall[c], "save", row)
  <2>2. adminCall[c] \in Request /\ adminCall[c].op # "verify" /\ adminCall[c].saw \in Row
        /\ adminCall[c].saw.status \notin PutOut
    BY <1>0, <1>11, CallAt DEF Sound
  <2>3. r \in Request /\ r.pc = "save" /\ r.op = adminCall[c].op /\ r.saw = adminCall[c].saw
    <3>1. "save" \in Place /\ row \in Row \cup {Blank}
      BY DEF Place
    <3> QED
      BY <2>2, <3>1, WithRowFields
  <2> HIDE DEF r
  <2>1. Plain(r)
    BY <2>2, <2>3 DEF Plain, Sound, MayBringBack
  <2> QED
    BY <1>11, <2>1 DEF r
<1>12. CASE WrongPassword(c)
  <2> DEFINE old == adminCall[c].saw
             fails == IF old.fails < MaxAttempts THEN old.fails + 1 ELSE MaxAttempts
             counted == [old EXCEPT !.fails = fails]
             locked == [old EXCEPT !.fails = fails, !.barred = TRUE, !.status = "locked"]
  <2>1. old \in Row
    BY <1>0, <1>12, CallAt DEF WrongPassword, Sound
  <2>2. fails \in 0 .. MaxAttempts
    BY <2>1, AdminAssumption DEF Row
  <2> HIDE DEF fails
  <2>3. counted \in Row /\ locked \in Row
    BY <2>1, <2>2 DEF Row
  <2>4. \/ Moved(WithRow(adminCall[c], "save", counted))
        \/ Moved(WithRow(adminCall[c], "save", locked))
    BY <1>12 DEF WrongPassword, GoesOn, WithRow, fails
  <2> HIDE DEF counted, locked
  <2> QED
    BY <1>11, <1>12, <2>3, <2>4 DEF WrongPassword
<1>13. CASE \E k \in Challenge : RightPassword(c, k)
  <2> PICK k \in Challenge : RightPassword(c, k)
    BY <1>13
  <2> DEFINE old == adminCall[c].saw
             reset == [old EXCEPT !.fails = 0, !.barred = FALSE, !.status = "active"]
  <2>1. old \in Row
    BY <1>0, CallAt DEF RightPassword, Sound
  <2>4. 0 \in 0 .. MaxAttempts
    BY AdminAssumption
  <2>2. reset \in Row
    BY <2>1, <2>4 DEF Row
  <2>3. Moved(Blank) \/ Moved(WithRow(adminCall[c], "save", reset))
    BY DEF RightPassword, GoesOn, Ends, WithRow
  <2> HIDE DEF reset
  <2> QED
    BY <1>2, <1>11, <2>2, <2>3 DEF RightPassword
<1>14. CASE Boot(c)
  <2> DEFINE row == [adminRow[BootAdmin] EXCEPT !.super = TRUE]
             r == [Fresh EXCEPT !.op = "boot", !.on = BootAdmin, !.saw = adminRow[BootAdmin],
                                !.pc = "save", !.row = row]
  <2>1. adminRow[BootAdmin] \in Row
    BY <1>14, AdminAssumption DEF Boot, Here, AdminBase, AdminTypeOK
  <2>2. row \in Row /\ row.status = adminRow[BootAdmin].status
    BY <2>1 DEF Row
  <2> HIDE DEF row
  <2>3. r \in Request /\ r.pc = "save" /\ r.op = "boot" /\ r.row = row /\ r.saw = adminRow[BootAdmin]
    BY <2>1, <2>2, AdminAssumption DEF Fresh, Request, Op
  <2>4. Moved(r)
    BY <1>14 DEF Boot, Starts, row
  <2> HIDE DEF r
  <2>5. Plain(r)
    BY <2>1, <2>2, <2>3 DEF Plain, Sound, MayBringBack
  <2> QED
    BY <2>4, <2>5
<1> QED
  BY <1>3, <1>4, <1>5, <1>6, <1>7, <1>8, <1>9, <1>10, <1>12, <1>13, <1>14 DEF PlainOf

\* A request that is about to save a row, and perhaps a letter.
Saving(r, op, a, saw, row, letter) ==
    /\ r \in Request /\ r.pc = "save" /\ r.op = op /\ r.on = a /\ r.saw = saw /\ r.row = row
    /\ r.letter = letter

LEMMA SavingIsPlain ==
    ASSUME NEW r, NEW op, NEW a, NEW saw, NEW row, NEW letter, op # "verify",
           Saving(r, op, a, saw, row, letter),
           \/ row = Blank \/ row.status \in PutOut \/ op \in {"reactivate", "resend", "enrol"}
           \/ saw \in Row /\ saw.status \notin PutOut
    PROVE  Plain(r)
  BY DEF Saving, Plain, Sound, MayBringBack

LEMMA PlainAboutMoves ==
    ASSUME AdminBase, NEW c \in AdminCall, NEW a \in Admin, PlainAbout(c, a)
    PROVE  \E r : Plain(r) /\ adminCall' = [adminCall EXCEPT ![c] = r]
<1> DEFINE Moved(r) == adminCall' = [adminCall EXCEPT ![c] = r]
           row == adminRow[a]
           mail == invitation[a]
<1>0. CallsFit
  BY BaseHasCalls
<1>1. ASSUME Here(a) PROVE row \in Row
  BY <1>1 DEF Here, AdminBase, AdminTypeOK
<1>2. ASSUME mail # Blank PROVE mail \in Letter
  BY <1>2 DEF AdminBase, AdminTypeOK
<1>3. CASE Overdue(c, a)
  BY <1>3 DEF Overdue, Starts, Plain
<1>4. \A c1 \in AdminCall : AdminAt(c1, "inside") => /\ adminCall[c1] \in Request
        /\ adminCall[c1].row = Blank /\ adminCall[c1].letter = Blank
  BY <1>0, CallAt DEF Sound
<1>5. Sent \in Letter
  BY AdminAssumption DEF Sent, Letter
<1>6. CASE \E super \in BOOLEAN : Invite(c, a, super)
  <2> DEFINE r == [adminCall[c] EXCEPT !.op = "invite", !.on = a, !.letter = Sent, !.pc = "save"]
  <2>1. Saving(r, "invite", a, r.saw, Blank, Sent)
    BY <1>4, <1>5, <1>6 DEF Invite, Saving, Request, Op
  <2>2. Moved(r)
    BY <1>6 DEF Invite, GoesOn
  <2> HIDE DEF r
  <2> QED
    BY <2>1, <2>2, SavingIsPlain
<1>7. CASE Resend(c, a)
  <2> DEFINE letter == [Sent EXCEPT !.link = mail.link + 1]
             next == IF row.status = "pending_invitation" THEN Blank
                     ELSE [row EXCEPT !.status = "pending_invitation"]
             r == [adminCall[c] EXCEPT !.op = "resend", !.on = a, !.saw = row, !.pc = "save",
                                       !.letter = letter, !.row = next]
  <2>1. letter \in Letter
    <3>1. mail.link + 1 \in 1 .. MaxLink
      BY <1>2, <1>7, AdminAssumption DEF Resend, Letter
    <3> QED
      BY <1>5, <3>1 DEF Letter
  <2>2. next \in Row \cup {Blank}
    BY <1>1, <1>7 DEF Resend, Row
  <2>3. Moved(r)
    BY <1>7 DEF Resend, GoesOn
  <2> HIDE DEF letter, next
  <2>4. Saving(r, "resend", a, row, next, letter)
    BY <1>1, <1>4, <1>7, <2>1, <2>2 DEF Resend, Saving, Request, Op
  <2> HIDE DEF r
  <2> QED
    BY <2>3, <2>4, SavingIsPlain
<1>8. CASE Withdraw(c, a)
  <2> DEFINE letter == [mail EXCEPT !.status = "revoked"]
             next == [row EXCEPT !.status = "inactive"]
             r == [adminCall[c] EXCEPT !.op = "withdraw", !.on = a, !.saw = row, !.pc = "save",
                                       !.letter = letter, !.row = next]
  <2>1. letter \in Letter
    BY <1>2, <1>8 DEF Withdraw, Letter
  <2>2. next \in Row /\ next.status \in PutOut
    BY <1>1, <1>8 DEF Withdraw, Row, PutOut
  <2>3. Moved(r)
    BY <1>8 DEF Withdraw, GoesOn
  <2> HIDE DEF letter, next
  <2>4. Saving(r, "withdraw", a, row, next, letter)
    BY <1>1, <1>4, <1>8, <2>1, <2>2 DEF Withdraw, Saving, Request, Op
  <2> HIDE DEF r
  <2> QED
    BY <2>2, <2>3, <2>4, SavingIsPlain
<1>9. CASE SetPassword(c, a)
  <2> DEFINE letter == [mail EXCEPT !.status = "enrolling_mfa"]
             next == [row EXCEPT !.mfa = "reset"]
             r == [Fresh EXCEPT !.op = "setPassword", !.on = a, !.saw = row, !.pc = "save",
                                !.row = next, !.letter = letter]
  <2>1. letter \in Letter
    BY <1>2, <1>9 DEF SetPassword, InTime, Letter
  <2>2. next \in Row /\ next.status = row.status
    BY <1>1, <1>9 DEF SetPassword, InTime, Row
  <2>3. Moved(r)
    BY <1>9 DEF SetPassword, Starts
  <2> HIDE DEF letter, next
  <2>4. Saving(r, "setPassword", a, row, next, letter)
    BY <1>1, <1>9, <2>1, <2>2 DEF SetPassword, InTime, Saving, Request, Op, Fresh
  <2> HIDE DEF r
  <2> QED
    BY <1>1, <1>9, <2>2, <2>3, <2>4, SavingIsPlain DEF SetPassword, InTime
<1>10. CASE Enrol(c, a)
  <2> DEFINE letter == [mail EXCEPT !.status = "accepted"]
             next == [row EXCEPT !.mfa = "on", !.status = "active"]
             r == [Fresh EXCEPT !.op = "enrol", !.on = a, !.saw = row, !.pc = "save",
                                !.row = next, !.letter = letter]
  <2>1. letter \in Letter
    BY <1>2, <1>10 DEF Enrol, InTime, Letter
  <2>2. next \in Row
    BY <1>1, <1>10 DEF Enrol, InTime, Row
  <2>3. Moved(r)
    BY <1>10 DEF Enrol, Starts
  <2> HIDE DEF letter, next
  <2>4. Saving(r, "enrol", a, row, next, letter)
    BY <1>1, <1>10, <2>1, <2>2 DEF Enrol, InTime, Saving, Request, Op, Fresh
  <2> HIDE DEF r
  <2> QED
    BY <2>3, <2>4, SavingIsPlain
<1>11. CASE Login(c, a)
  <2> DEFINE r == [Fresh EXCEPT !.op = "login", !.on = a, !.saw = row, !.pc = "password"]
  <2>1. row \in Row /\ row.status \notin PutOut
    BY <1>1, <1>11 DEF Login, Usable
  <2>2. r \in Request /\ r.op = "login" /\ r.pc = "password" /\ r.on = a /\ r.saw = row /\ r.row = Blank
    BY <2>1 DEF Request, Fresh, Op
  <2>3. Moved(r)
    BY <1>11 DEF Login, Starts
  <2> HIDE DEF r
  <2>4. Plain(r)
    BY <2>1, <2>2 DEF Plain, Sound
  <2> QED
    BY <2>3, <2>4
<1>12. CASE \E op \in Operations : Consider(c, a, op)
  <2> PICK op \in Operations : Consider(c, a, op)
    BY <1>12
  <2> DEFINE next == Changed(op, row)
             pc == IF op \in Guarded /\ row.super THEN "count"
                   ELSE IF op = "reviewOut" THEN "revoke" ELSE "save"
             r == [adminCall[c] EXCEPT !.op = op, !.on = a, !.saw = row, !.row = next, !.pc = pc]
  <2>1. row \in Row /\ next \in Row
    BY <1>1, ChangedFits DEF Consider
  <2>2. next.status \in PutOut \/ op = "reactivate" \/ row.status \notin PutOut
    BY <1>1, ChangedFits DEF Consider
  <2>3. Moved(r)
    BY DEF Consider, GoesOn
  <2>4. adminCall[c] \in Request /\ adminCall[c].letter = Blank /\ op \in Op /\ op # "verify"
    BY <1>4 DEF Consider, Op, Guarded, Operations
  <2>5. pc \in {"count", "revoke", "save"}
    OBVIOUS
  <2> HIDE DEF next, pc
  <2>6. r \in Request /\ r.op = op /\ r.pc = pc /\ r.saw = row /\ r.row = next
    BY <2>1, <2>4, <2>5 DEF Request
  <2> HIDE DEF r
  <2>7. Plain(r)
    BY <2>1, <2>2, <2>4, <2>5, <2>6 DEF Plain, Sound, MayBringBack
  <2> QED
    BY <2>3, <2>7
<1> QED
  BY <1>3, <1>6, <1>7, <1>8, <1>9, <1>10, <1>11, <1>12 DEF PlainAbout
\* The operations of a request that has a ticket, or counts.
Ticketing(c) ==
    \/ Count(c) \/ Consume(c) \/ SaveRow(c)
    \/ \E k \in Challenge : Arrive(c, k) \/ EnterCode(c, k)

\* Arriving, a request carries the session it was read from.
LEMMA ArriveMoves ==
    ASSUME AdminBase, TicketInv, NEW c \in AdminCall, NEW k \in Challenge, Arrive(c, k)
    PROVE  \E r \in Request : /\ Sound(r) /\ r.op = "any" /\ r.pc = "guard" /\ r.key = k
                              /\ opened[k] = 1
                              /\ adminCall' = [adminCall EXCEPT ![c] = r]
<1> DEFINE r == [Fresh EXCEPT !.pc = "guard", !.key = k, !.actor = challenge[k].of]
<1>1. challenge[k].of \in Admin
  BY DEF AdminBase, AdminTypeOK, TicketInv, Arrive, Ticket
<1>2. opened[k] = 1
  BY DEF TicketInv, Arrive
<1>3. r \in Request /\ r.op = "any" /\ r.pc = "guard" /\ r.key = k /\ r.row = Blank /\ r.letter = Blank
  BY <1>1 DEF Fresh, Request, Op
<1>4. adminCall' = [adminCall EXCEPT ![c] = r]
  BY DEF Arrive, Starts
<1> HIDE DEF r
<1>5. Sound(r)
  BY <1>3 DEF Sound
<1> QED
  BY <1>2, <1>3, <1>4, <1>5

LEMMA EnterCodeMoves ==
    ASSUME AdminBase, NEW c \in AdminCall, NEW k \in Challenge, EnterCode(c, k)
    PROVE  \E r \in Request : /\ Sound(r) /\ r.op = "verify" /\ r.pc = "code" /\ r.key = k
                              /\ challenge[k] # Blank
                              /\ adminCall' = [adminCall EXCEPT ![c] = r]
<1> DEFINE a == challenge[k].of
           row == adminRow[a]
           next == [row EXCEPT !.status = "active", !.fails = 0, !.barred = FALSE, !.mfa = "on"]
           r == [Fresh EXCEPT !.op = "verify", !.on = a, !.key = k, !.saw = row, !.pc = "code",
                              !.row = next]
<1>1. a \in Admin
  BY DEF AdminBase, AdminTypeOK, EnterCode, Ticket
<1>2. row \in Row /\ row.status \notin PutOut
  BY <1>1 DEF AdminBase, AdminTypeOK, EnterCode, Here, Usable
<1>3. 0 \in 0 .. MaxAttempts
  BY AdminAssumption
<1>4. next \in Row
  BY <1>2, <1>3 DEF Row
<1>5. adminCall' = [adminCall EXCEPT ![c] = r] /\ challenge[k] # Blank
  BY DEF EnterCode, Starts
<1> HIDE DEF next
<1>6. r \in Request /\ r.op = "verify" /\ r.pc = "code" /\ r.key = k /\ r.saw = row /\ r.letter = Blank
      /\ r.row = next
  BY <1>1, <1>2, <1>4 DEF Fresh, Request, Op
<1> HIDE DEF r
<1>7. Sound(r)
  BY <1>2, <1>6 DEF Sound, MayBringBack
<1> QED
  BY <1>5, <1>6, <1>7

\* What SaveRow makes of the request.
AfterSave(call) ==
    IF call.letter # Blank THEN "save"
    ELSE IF call.op \in {"suspend", "deactivate", "resetMfa", "disableMfa"} THEN "revoke"
    ELSE IF call.op = "verify" THEN "open" ELSE "done"

Saved(r, call) ==
    \/ r = Blank
    \/ /\ r \in Request /\ Sound(r) /\ r.pc \notin {"counted", "guard"}
       /\ r.op = call.op /\ r.key = call.key

LEMMA SaveRowMoves ==
    ASSUME AdminBase, NEW c \in AdminCall, SaveRow(c)
    PROVE  \E r : Saved(r, adminCall[c]) /\ adminCall' = [adminCall EXCEPT ![c] = r]
<1> DEFINE call == adminCall[c]
           next == AfterSave(call)
           r == WithRow(call, next, Blank)
<1>1. call \in Request /\ Sound(call) /\ call.pc \in {"save", "counted"}
  BY BaseHasCalls, CallAt DEF SaveRow
<1>2. \/ adminCall' = [adminCall EXCEPT ![c] = Blank]
      \/ next # "done" /\ adminCall' = [adminCall EXCEPT ![c] = WithRow(call, next, Blank)]
  BY DEF SaveRow, AfterSave, GoesOn, Ends, WithRow
<1>3. CASE next # "done" /\ adminCall' = [adminCall EXCEPT ![c] = r]
  <2>1. next \in {"save", "revoke", "open"}
    BY <1>3 DEF AfterSave
  <2>2. next \in Place
    BY <2>1 DEF Place
  <2>3. next = "save" => call.letter # Blank
    BY DEF AfterSave
  <2>4. call.op = "verify" => next = "open"
    BY <1>1, <2>1 DEF AfterSave, Sound
  <2>5. next = "open" => call.op = "verify"
    BY DEF AfterSave
  <2> HIDE DEF next
  <2>6. r \in Request /\ r.pc = next /\ r.op = call.op /\ r.key = call.key /\ r.letter = call.letter
        /\ r.row = Blank
    BY <1>1, <2>2, WithRowFields
  <2> HIDE DEF r
  <2>7. Sound(r)
    BY <1>1, <2>1, <2>3, <2>4, <2>5, <2>6 DEF Sound
  <2> QED
    BY <1>3, <2>1, <2>6, <2>7 DEF Saved
<1> QED
  BY <1>2, <1>3 DEF Saved

\* Counting and consuming a ticket move the request on, or end it.
LEMMA CountMoves ==
    ASSUME AdminBase, NEW c \in AdminCall, Count(c)
    PROVE  LET r == PlacedAt(adminCall[c], "counted") IN
           \/ adminCall' = [adminCall EXCEPT ![c] = Blank]
           \/ /\ CountActiveSuperAdmins > 1
              /\ r \in Request /\ Sound(r) /\ r.op # "verify" /\ r.pc = "counted"
              /\ r.on = adminCall[c].on
              /\ adminCall' = [adminCall EXCEPT ![c] = r]
<1> DEFINE r == PlacedAt(adminCall[c], "counted")
<1>1. adminCall[c] \in Request /\ Sound(adminCall[c]) /\ adminCall[c].pc = "count"
  BY BaseHasCalls, CallAt DEF Count
<1>2. "counted" \in Place
  BY DEF Place
<1>3. r \in Request /\ r.pc = "counted" /\ r.op = adminCall[c].op /\ r.on = adminCall[c].on
      /\ r.saw = adminCall[c].saw /\ r.row = adminCall[c].row
  BY <1>1, <1>2, PlacedFields
<1>5. IsFiniteSet(Admin) /\ {a \in Admin : Here(a) /\ adminRow[a].super /\ adminRow[a].status = "active"}
        \subseteq Admin
  BY AdminAssumption
<1>6. CountActiveSuperAdmins \in Nat
  BY <1>5, FS_Subset, FS_CardinalityType DEF CountActiveSuperAdmins
<1>7. \/ adminCall' = [adminCall EXCEPT ![c] = Blank]
      \/ CountActiveSuperAdmins > 1 /\ adminCall' = [adminCall EXCEPT ![c] = r]
  BY <1>6 DEF Count, GoesOn, Ends, PlacedAt
<1> HIDE DEF r
<1>4. Sound(r) /\ r.op # "verify"
  BY <1>1, <1>3 DEF Sound, MayBringBack
<1> QED
  BY <1>3, <1>4, <1>7 DEF r

LEMMA ConsumeMoves ==
    ASSUME AdminBase, TicketInv, NEW c \in AdminCall, Consume(c)
    PROVE  LET r == PlacedAt(adminCall[c], "save")
               k == adminCall[c].key
           IN /\ k \in Challenge /\ challenge[k] \in Ticket
              /\ \/ adminCall' = [adminCall EXCEPT ![c] = Blank] /\ challenge' = challenge
                 \/ /\ r \in Request /\ Sound(r) /\ r.op = "verify" /\ r.pc = "save" /\ r.key = k
                    /\ ~challenge[k].spent
                    /\ challenge' = [challenge EXCEPT ![k].spent = TRUE]
                    /\ adminCall' = [adminCall EXCEPT ![c] = r]
<1> DEFINE r == PlacedAt(adminCall[c], "save")
           k == adminCall[c].key
<1>1. adminCall[c] \in Request /\ Sound(adminCall[c]) /\ adminCall[c].pc = "code"
  BY BaseHasCalls, CallAt DEF Consume
<1>2. "save" \in Place
  BY DEF Place
<1>3. r \in Request /\ r.pc = "save" /\ r.op = adminCall[c].op /\ r.key = adminCall[c].key
      /\ r.saw = adminCall[c].saw /\ r.row = adminCall[c].row /\ r.letter = adminCall[c].letter
  BY <1>1, <1>2, PlacedFields
<1>4. k \in Challenge /\ challenge[k] \in Ticket
  BY <1>1 DEF Sound, TicketInv, TicketHeld, Consume, AdminAt, AdminBase, AdminTypeOK
<1>5. \/ adminCall' = [adminCall EXCEPT ![c] = Blank] /\ challenge' = challenge
      \/ /\ ~challenge[k].spent
         /\ challenge' = [challenge EXCEPT ![k].spent = TRUE]
         /\ adminCall' = [adminCall EXCEPT ![c] = r]
  BY DEF Consume, GoesOn, Ends, PlacedAt
<1> HIDE DEF r
<1>6. Sound(r) /\ r.op = "verify"
  BY <1>1, <1>3 DEF Sound, MayBringBack
<1> QED
  BY <1>3, <1>4, <1>5, <1>6 DEF r

LEMMA CallsStep == AdminBase /\ TicketInv /\ AdminNext => CallsFit'
<1> SUFFICES ASSUME AdminBase, TicketInv, AdminNext PROVE CallsFit'
  OBVIOUS
<1>0. CallsFit
  BY BaseHasCalls
<1>1. ASSUME NEW c \in AdminCall, PlainOf(c) \/ \E a \in Admin : PlainAbout(c, a)
      PROVE  CallsFit'
  <2>1. \E r : Plain(r) /\ adminCall' = [adminCall EXCEPT ![c] = r]
    BY <1>1, PlainMoves, PlainAboutMoves
  <2> QED
    BY <1>0, <2>1, CallReplaced DEF Plain
<1>2. ASSUME NEW c \in AdminCall, Ticketing(c) PROVE CallsFit'
  <2>1. CASE Count(c)
    BY <1>0, <2>1, CountMoves, CallReplaced
  <2>2. CASE Consume(c)
    BY <1>0, <2>2, ConsumeMoves, CallReplaced
  <2>3. CASE SaveRow(c)
    <3> PICK r : Saved(r, adminCall[c]) /\ adminCall' = [adminCall EXCEPT ![c] = r]
      BY <2>3, SaveRowMoves
    <3> QED
      BY <1>0, CallReplaced DEF Saved
  <2>4. CASE \E k \in Challenge : Arrive(c, k)
    BY <1>0, <2>4, ArriveMoves, CallReplaced
  <2>5. CASE \E k \in Challenge : EnterCode(c, k)
    BY <1>0, <2>5, EnterCodeMoves, CallReplaced
  <2> QED
    BY <1>2, <2>1, <2>2, <2>3, <2>4, <2>5 DEF Ticketing
<1>3. CASE \E a \in Admin : GrantEnds(a) \/ LinkExpires(a) \/ LockPasses(a)
  BY <1>0, <1>3 DEF GrantEnds, LinkExpires, LockPasses, CallsFit
<1> QED
  BY <1>1, <1>2, <1>3 DEF AdminNext, PlainOf, PlainAbout, Ticketing, Operations

LEMMA RowsStep ==
    ASSUME AdminBase, TicketInv, AdminNext
    PROVE  /\ adminRow' \in [Admin -> Row \cup {Blank}]
           /\ invitation' \in [Admin -> Letter \cup {Blank}]
           /\ challenge' \in [Challenge -> Ticket \cup {Blank}]
<1> DEFINE Kept == /\ adminRow' \in [Admin -> Row \cup {Blank}]
                   /\ invitation' \in [Admin -> Letter \cup {Blank}]
                   /\ challenge' \in [Challenge -> Ticket \cup {Blank}]
<1>0. /\ adminRow \in [Admin -> Row \cup {Blank}]
      /\ invitation \in [Admin -> Letter \cup {Blank}]
      /\ challenge \in [Challenge -> Ticket \cup {Blank}]
  BY DEF AdminBase, AdminTypeOK
<1>1. ASSUME UNCHANGED <<adminRow, invitation, challenge>> PROVE Kept
  BY <1>0, <1>1
<1>2. ASSUME NEW c \in AdminCall, NEW a \in Admin, NEW super \in BOOLEAN, Invite(c, a, super)
      PROVE  Kept
  <2>1. Invited(super) \in Row
    <3>1. 0 \in 0 .. MaxAttempts
      BY AdminAssumption
    <3>2. Signed \in Row
      BY <3>1 DEF Signed, Row
    <3> QED
      BY <3>2 DEF Invited, Row
  <2> QED
    BY <1>0, <1>2, <2>1 DEF Invite
<1>3. ASSUME NEW a \in Admin, LockPasses(a) PROVE Kept
  <2>1. [adminRow[a] EXCEPT !.barred = FALSE] \in Row
    BY <1>0, <1>3 DEF LockPasses, Here, Row
  <2> QED
    BY <1>0, <1>3, <2>1 DEF LockPasses
<1>4. ASSUME NEW a \in Admin, LinkExpires(a) PROVE Kept
  <2>1. [invitation[a] EXCEPT !.overdue = TRUE] \in Letter
    BY <1>0, <1>4 DEF LinkExpires, Letter
  <2> QED
    BY <1>0, <1>4, <2>1 DEF LinkExpires
<1>5. ASSUME NEW c \in AdminCall, NEW a \in Admin, Overdue(c, a) PROVE Kept
  <2>1. [invitation[a] EXCEPT !.status = "expired"] \in Letter
    BY <1>0, <1>5 DEF Overdue, Letter
  <2> QED
    BY <1>0, <1>5, <2>1 DEF Overdue
<1>6. ASSUME NEW c \in AdminCall, SaveRow(c) PROVE Kept
  <2>1. adminCall[c] \in Request
    BY <1>6, BaseHasCalls, CallAt DEF SaveRow
  <2>2. adminCall[c].row \in Row \cup {Blank}
    BY <2>1 DEF Request
  <2> QED
    BY <1>0, <1>6, <2>2 DEF SaveRow
<1>7. ASSUME NEW c \in AdminCall, SaveLetter(c) PROVE Kept
  <2>1. adminCall[c] \in Request
    BY <1>7, BaseHasCalls, CallAt DEF SaveLetter
  <2>2. adminCall[c].letter \in Letter \cup {Blank}
    BY <2>1 DEF Request
  <2> QED
    BY <1>0, <1>7, <2>2 DEF SaveLetter
<1>8. ASSUME NEW c \in AdminCall, NEW k \in Challenge, RightPassword(c, k) PROVE Kept
  <2>1. adminCall[c].on \in Admin
    BY <1>8, BaseHasCalls, CallAt DEF RightPassword, Sound
  <2>2. [of |-> adminCall[c].on, spent |-> FALSE] \in Ticket
    BY <2>1 DEF Ticket
  <2> QED
    BY <1>0, <1>8, <2>2 DEF RightPassword
<1>9. ASSUME NEW c \in AdminCall, Consume(c) PROVE Kept
  <2> DEFINE k == adminCall[c].key
  <2>1. ASSUME challenge[k] \in Ticket PROVE [challenge[k] EXCEPT !.spent = TRUE] \in Ticket
    BY <2>1 DEF Ticket
  <2>2. challenge[k] \in Ticket
    BY <1>9, ConsumeMoves
  <2> QED
    BY <1>0, <1>9, <2>1, <2>2 DEF Consume
<1>10. ASSUME NEW c \in AdminCall,
              \/ Touch(c) \/ Count(c) \/ RevokeAll(c) \/ Activate(c) \/ Grant(c) \/ WrongPassword(c)
              \/ OpenSession(c) \/ Boot(c) \/ AdminThrows(c)
       PROVE  Kept
  BY <1>1, <1>10 DEF Touch, Count, RevokeAll, Activate, Grant, WrongPassword, OpenSession, Boot, AdminThrows
<1>11. ASSUME NEW c \in AdminCall, NEW k \in Challenge, Arrive(c, k) \/ EnterCode(c, k) PROVE Kept
  BY <1>1, <1>11 DEF Arrive, EnterCode
<1>12. ASSUME NEW c \in AdminCall, NEW keys \in SUBSET Challenge, RevokeSome(c, keys) PROVE Kept
  BY <1>1, <1>12 DEF RevokeSome
<1>13. ASSUME NEW c \in AdminCall, NEW a \in Admin,
              Resend(c, a) \/ Withdraw(c, a) \/ SetPassword(c, a) \/ Enrol(c, a) \/ Login(c, a)
       PROVE  Kept
  BY <1>1, <1>13 DEF Resend, Withdraw, SetPassword, Enrol, Login
<1>14. ASSUME NEW c \in AdminCall, NEW a \in Admin, NEW op \in Operations, Consider(c, a, op) PROVE Kept
  BY <1>1, <1>14 DEF Consider
<1>15. ASSUME NEW a \in Admin, GrantEnds(a) PROVE Kept
  BY <1>1, <1>15 DEF GrantEnds
<1> HIDE DEF Kept
<1>16. Kept
  BY <1>2, <1>3, <1>4, <1>5, <1>6, <1>7, <1>8, <1>9, <1>10, <1>11, <1>12,
     <1>13, <1>14, <1>15 DEF AdminNext, Operations
<1> QED
  BY <1>16 DEF Kept

\* Which operations touch what, besides requests and rows.
LEMMA AdminFrames ==
    ASSUME AdminNext
    PROVE  /\ opened' = opened \/ \E c \in AdminCall : OpenSession(c)
           /\ \/ adminSession' = adminSession
              \/ \E c \in AdminCall : Touch(c) \/ RevokeAll(c) \/ OpenSession(c)
              \/ \E c \in AdminCall, keys \in SUBSET Challenge : RevokeSome(c, keys)
           /\ \/ challenge' = challenge
              \/ \E c \in AdminCall : Consume(c)
              \/ \E c \in AdminCall, k \in Challenge : RightPassword(c, k)
           /\ \/ grants' = grants
              \/ \E c \in AdminCall : Grant(c)
              \/ \E a \in Admin : GrantEnds(a)
           /\ unguarded' = unguarded \/ \E c \in AdminCall : SaveRow(c)
           /\ asked' = asked \/ (asked < MaxAsked /\ asked' = asked + 1)
<1> DEFINE Framed ==
       /\ opened' = opened \/ \E c \in AdminCall : OpenSession(c)
       /\ \/ adminSession' = adminSession
          \/ \E c \in AdminCall : Touch(c) \/ RevokeAll(c) \/ OpenSession(c)
          \/ \E c \in AdminCall, keys \in SUBSET Challenge : RevokeSome(c, keys)
       /\ \/ challenge' = challenge
          \/ \E c \in AdminCall : Consume(c)
          \/ \E c \in AdminCall, k \in Challenge : RightPassword(c, k)
       /\ \/ grants' = grants
          \/ \E c \in AdminCall : Grant(c)
          \/ \E a \in Admin : GrantEnds(a)
       /\ unguarded' = unguarded \/ \E c \in AdminCall : SaveRow(c)
       /\ asked' = asked \/ (asked < MaxAsked /\ asked' = asked + 1)
<1>1. ASSUME NEW c \in AdminCall,
             Touch(c) \/ Count(c) \/ SaveLetter(c) \/ RevokeAll(c) \/ Activate(c) \/ Grant(c)
      PROVE  Framed
  BY <1>1 DEF Touch, Count, SaveLetter, RevokeAll, Activate, Grant, GoesOn, Ends
<1>2. ASSUME NEW c \in AdminCall,
             SaveRow(c) \/ WrongPassword(c) \/ Consume(c) \/ OpenSession(c) \/ Boot(c) \/ AdminThrows(c)
      PROVE  Framed
  BY <1>2 DEF SaveRow, WrongPassword, Consume, OpenSession, Boot, AdminThrows, Starts, GoesOn, Ends
<1>3. ASSUME NEW c \in AdminCall, NEW k \in Challenge, Arrive(c, k) \/ RightPassword(c, k) \/ EnterCode(c, k)
      PROVE  Framed
  BY <1>3 DEF Arrive, RightPassword, EnterCode, Starts, GoesOn, Ends
<1>4. ASSUME NEW c \in AdminCall, NEW keys \in SUBSET Challenge, RevokeSome(c, keys) PROVE Framed
  BY <1>4 DEF RevokeSome, GoesOn, Ends
<1>5. ASSUME NEW c \in AdminCall, NEW a \in Admin,
             \/ Resend(c, a) \/ Withdraw(c, a) \/ Overdue(c, a)
             \/ SetPassword(c, a) \/ Enrol(c, a) \/ Login(c, a)
      PROVE  Framed
  BY <1>5 DEF Resend, Withdraw, Overdue, SetPassword, Enrol, Login, Starts, GoesOn
<1>6. ASSUME NEW c \in AdminCall, NEW a \in Admin, NEW super \in BOOLEAN, Invite(c, a, super)
      PROVE  Framed
  BY <1>6 DEF Invite, GoesOn
<1>7. ASSUME NEW c \in AdminCall, NEW a \in Admin, NEW op \in Operations, Consider(c, a, op)
      PROVE  Framed
  BY <1>7 DEF Consider, GoesOn
<1>8. ASSUME NEW a \in Admin, GrantEnds(a) \/ LinkExpires(a) \/ LockPasses(a) PROVE Framed
  BY <1>8 DEF GrantEnds, LinkExpires, LockPasses
<1> HIDE DEF Framed
<1>9. Framed
  BY <1>1, <1>2, <1>3, <1>4, <1>5, <1>6, <1>7, <1>8 DEF AdminNext, Operations
<1> QED
  BY <1>9 DEF Framed

LEMMA BaseStep == AdminBase /\ TicketInv /\ AdminNext => AdminBase'
<1> SUFFICES ASSUME AdminBase, TicketInv, AdminNext PROVE AdminBase'
  OBVIOUS
<1>0. AdminTypeOK /\ CallsFit
  BY BaseHasCalls DEF AdminBase
<1>1. opened' \in [Challenge -> 0 .. 2]
  <2>1. ASSUME NEW c \in AdminCall, OpenSession(c) PROVE opened' \in [Challenge -> 0 .. 2]
    <3>1. /\ adminCall[c] \in Request /\ Sound(adminCall[c]) /\ adminCall[c].pc = "open"
          /\ adminCall[c] # Blank
      BY <1>0, <2>1, CallAt DEF OpenSession, AdminAt
    <3>2. adminCall[c].key \in Challenge /\ opened[adminCall[c].key] = 0
      BY <3>1 DEF Sound, TicketInv, TicketHeld, Redeems
    <3> QED
      BY <1>0, <2>1, <3>2 DEF OpenSession, AdminTypeOK
  <2> QED
    BY <1>0, <2>1, AdminFrames DEF AdminTypeOK
<1>2. adminSession' \in [Challenge -> {"none", "live", "revoked", "out"}]
  <2>1. adminSession \in [Challenge -> {"none", "live", "revoked", "out"}]
    BY <1>0 DEF AdminTypeOK
  <2>2. ASSUME NEW c \in AdminCall, Touch(c) \/ RevokeAll(c) \/ OpenSession(c)
        PROVE  adminSession' \in [Challenge -> {"none", "live", "revoked", "out"}]
    BY <2>1, <2>2 DEF Touch, RevokeAll, OpenSession
  <2>3. ASSUME NEW c \in AdminCall, NEW keys \in SUBSET Challenge, RevokeSome(c, keys)
        PROVE  adminSession' \in [Challenge -> {"none", "live", "revoked", "out"}]
    BY <2>1, <2>3 DEF RevokeSome
  <2> QED
    BY <2>1, <2>2, <2>3, AdminFrames
<1>3. grants' \in [Admin -> Nat]
  <2>0. grants \in [Admin -> Nat]
    BY <1>0 DEF AdminTypeOK
  <2>1. ASSUME NEW c \in AdminCall, Grant(c) PROVE grants' \in [Admin -> Nat]
    <3>1. CASE adminCall[c].actor \in Admin
      BY <2>0, <2>1, <3>1 DEF Grant
    <3>2. CASE adminCall[c].actor \notin Admin
      BY <2>0, <2>1, <3>2 DEF Grant
    <3> QED
      BY <3>1, <3>2
  <2>2. ASSUME NEW a \in Admin, GrantEnds(a) PROVE grants' \in [Admin -> Nat]
    BY <2>0, <2>2 DEF GrantEnds
  <2> QED
    BY <2>0, <2>1, <2>2, AdminFrames
<1>4. asked' \in 0 .. MaxAsked
  <2>1. asked \in 0 .. MaxAsked /\ MaxAsked \in Nat
    BY <1>0, AdminAssumption DEF AdminTypeOK
  <2> QED
    BY <2>1, AdminFrames
<1>5. unguarded' \in BOOLEAN
  BY <1>0, AdminFrames DEF AdminTypeOK, SaveRow
<1>6. CallsFit'
  BY CallsStep
<1> QED
  BY <1>1, <1>2, <1>3, <1>4, <1>5, <1>6, RowsStep DEF AdminBase, AdminTypeOK, CallsFit, Request

-------------------------------------------------------------------------------
(* Tickets                                                                     *)

\* A step that leaves the tickets alone, and whose request redeems none.
LEMMA TicketsKept ==
    ASSUME AdminBase, TicketInv, NEW c \in AdminCall, NEW r,
           adminCall' = [adminCall EXCEPT ![c] = r], UNCHANGED <<challenge, opened>>,
           \A k \in Challenge : adminSession'[k] = "none" <=> adminSession[k] = "none",
           \/ r = Blank \/ (r.op # "verify" /\ r.pc # "guard")
           \/ /\ TicketHeld(r, challenge, opened)
              /\ Redeems(r) => adminCall[c] # Blank /\ Redeems(adminCall[c]) /\ r.key = adminCall[c].key
    PROVE  TicketInv'
<1>1. /\ adminCall'[c] = r
      /\ \A d \in AdminCall : d # c => adminCall'[d] = adminCall[d]
  BY DEF AdminBase, AdminTypeOK
<1>2. \A k \in Challenge :
        /\ opened'[k] \in {0, 1}
        /\ adminSession'[k] = "none" <=> opened'[k] = 0
        /\ challenge'[k] = Blank => opened'[k] = 0
        /\ challenge'[k] # Blank /\ opened'[k] = 1 => challenge'[k].spent
  BY DEF TicketInv
<1>3. \A d \in AdminCall : adminCall'[d] # Blank => TicketHeld(adminCall'[d], challenge', opened')
  BY <1>1 DEF TicketInv, TicketHeld, Redeems
<1>4. \A d, e \in AdminCall :
        adminCall'[d] # Blank /\ adminCall'[e] # Blank /\ Redeems(adminCall'[d])
            /\ Redeems(adminCall'[e]) /\ adminCall'[d].key = adminCall'[e].key => d = e
  <2>1. \A d \in AdminCall : adminCall'[d] # Blank /\ Redeems(adminCall'[d]) =>
          adminCall[d] # Blank /\ Redeems(adminCall[d]) /\ adminCall'[d].key = adminCall[d].key
    BY <1>1 DEF Redeems
  <2> QED
    BY <2>1 DEF TicketInv
<1> QED
  BY <1>2, <1>3, <1>4 DEF TicketInv

LEMMA TicketStep == AdminBase /\ TicketInv /\ AdminNext => TicketInv'
<1> SUFFICES ASSUME AdminBase, TicketInv, AdminNext PROVE TicketInv'
  OBVIOUS
<1>0. /\ CallsFit /\ adminCall \in [AdminCall -> Request \cup {Blank}]
      /\ challenge \in [Challenge -> Ticket \cup {Blank}]
      /\ adminSession \in [Challenge -> {"none", "live", "revoked", "out"}]
      /\ opened \in [Challenge -> 0 .. 2]
  BY BaseHasCalls DEF AdminBase, AdminTypeOK, CallsFit
<1>1. ASSUME NEW c \in AdminCall, \E r : Plain(r) /\ adminCall' = [adminCall EXCEPT ![c] = r],
             UNCHANGED <<challenge, opened>>,
             \A k \in Challenge : adminSession'[k] = "none" <=> adminSession[k] = "none"
      PROVE  TicketInv'
  BY <1>1, TicketsKept DEF Plain
<1>2. ASSUME NEW c \in AdminCall, Touch(c) PROVE TicketInv'
  <2>1. /\ adminCall[c] \in Request /\ adminCall[c].pc = "guard" /\ adminCall[c] # Blank
        /\ adminCall[c].key \in Challenge
    BY <1>0, <1>2, CallAt DEF Touch, AdminAt, Sound
  <2>2. adminSession[adminCall[c].key] # "none"
    BY <2>1 DEF TicketInv, TicketHeld
  <2>3. \A k \in Challenge : adminSession'[k] = "none" <=> adminSession[k] = "none"
    BY <1>0, <1>2, <2>1, <2>2 DEF Touch
  <2>4. UNCHANGED <<challenge, opened>> /\ PlainOf(c)
    BY <1>2 DEF Touch, PlainOf
  <2> QED
    BY <1>1, <2>3, <2>4, PlainMoves
<1>3. ASSUME NEW c \in AdminCall,
             RevokeAll(c) \/ \E keys \in SUBSET Challenge : RevokeSome(c, keys)
      PROVE  TicketInv'
  <2>1. \A k \in Challenge : adminSession'[k] = "none" <=> adminSession[k] = "none"
    BY <1>0, <1>3 DEF RevokeAll, RevokeSome
  <2>2. UNCHANGED <<challenge, opened>> /\ PlainOf(c)
    BY <1>3 DEF RevokeAll, RevokeSome, PlainOf
  <2> QED
    BY <1>1, <2>1, <2>2, PlainMoves
<1>4. ASSUME NEW c \in AdminCall,
             \/ SaveLetter(c) \/ Activate(c) \/ Grant(c) \/ WrongPassword(c) \/ Boot(c) \/ AdminThrows(c)
      PROVE  TicketInv'
  <2>1. UNCHANGED <<challenge, opened, adminSession>> /\ PlainOf(c)
    BY <1>4 DEF SaveLetter, Activate, Grant, WrongPassword, Boot, AdminThrows, PlainOf
  <2> QED
    BY <1>1, <2>1, PlainMoves
<1>5. ASSUME NEW c \in AdminCall, NEW a \in Admin, PlainAbout(c, a) PROVE TicketInv'
  <2>1. UNCHANGED <<challenge, opened, adminSession>>
    BY <1>5 DEF PlainAbout, Resend, Withdraw, Overdue, SetPassword, Enrol, Login, Invite, Consider
  <2> QED
    BY <1>1, <1>5, <2>1, PlainAboutMoves
<1>6. ASSUME NEW c \in AdminCall, OpenSession(c) PROVE TicketInv'
  <2> DEFINE k == adminCall[c].key
  <2>1. /\ adminCall[c] \in Request /\ adminCall[c].pc = "open" /\ adminCall[c] # Blank
        /\ adminCall[c].op = "verify" /\ k \in Challenge
    BY <1>0, <1>6, CallAt DEF OpenSession, AdminAt, Sound
  <2>2. opened[k] = 0 /\ challenge[k] # Blank /\ challenge[k].spent
    BY <2>1 DEF TicketInv, TicketHeld, Redeems
  <2>3. /\ adminSession' = [adminSession EXCEPT ![k] = "live"]
        /\ opened' = [opened EXCEPT ![k] = 1] /\ UNCHANGED challenge
        /\ adminCall' = [adminCall EXCEPT ![c] = Blank]
    BY <1>0, <1>6, <2>1, <2>2 DEF OpenSession, GoesOn, Ends
  <2> HIDE DEF k
  <2>4. /\ adminCall'[c] = Blank
        /\ \A d \in AdminCall : d # c => adminCall'[d] = adminCall[d]
    BY <1>0, <2>3
  <2>5. \A j \in Challenge :
          /\ opened'[j] \in {0, 1}
          /\ adminSession'[j] = "none" <=> opened'[j] = 0
          /\ challenge'[j] = Blank => opened'[j] = 0
          /\ challenge'[j] # Blank /\ opened'[j] = 1 => challenge'[j].spent
    BY <1>0, <2>1, <2>2, <2>3 DEF TicketInv
  <2>6. \A d \in AdminCall : adminCall'[d] # Blank => TicketHeld(adminCall'[d], challenge', opened')
    <3> SUFFICES ASSUME NEW d \in AdminCall, adminCall'[d] # Blank
                 PROVE  TicketHeld(adminCall'[d], challenge', opened')
      OBVIOUS
    <3>1. d # c /\ adminCall'[d] = adminCall[d] /\ adminCall[d] # Blank
      BY <2>4
    <3>2. TicketHeld(adminCall[d], challenge, opened)
      BY <3>1 DEF TicketInv
    <3>3. Redeems(adminCall[d]) => adminCall[d].key # k
      BY <2>1, <3>1 DEF TicketInv, Redeems, k
    <3>4. adminCall[d].pc = "guard" => adminCall[d].key # k
      BY <2>2, <3>2 DEF TicketHeld
    <3>5. opened'[adminCall[d].key] = opened[adminCall[d].key] \/ adminCall[d].key = k
      BY <2>3
    <3> QED
      BY <2>3, <3>1, <3>2, <3>3, <3>4, <3>5 DEF TicketHeld
  <2>7. \A d, e \in AdminCall :
          adminCall'[d] # Blank /\ adminCall'[e] # Blank /\ Redeems(adminCall'[d])
              /\ Redeems(adminCall'[e]) /\ adminCall'[d].key = adminCall'[e].key => d = e
    BY <2>4 DEF TicketInv
  <2> QED
    BY <2>5, <2>6, <2>7 DEF TicketInv
<1>7. ASSUME NEW c \in AdminCall, NEW k \in Challenge, RightPassword(c, k) PROVE TicketInv'
  <2>1. PICK r : Plain(r) /\ adminCall' = [adminCall EXCEPT ![c] = r]
    BY <1>7, PlainMoves DEF PlainOf
  <2>2. /\ challenge[k] = Blank /\ challenge' = [challenge EXCEPT ![k] = [of |-> adminCall[c].on, spent |-> FALSE]]
        /\ UNCHANGED <<opened, adminSession>>
    BY <1>7 DEF RightPassword
  <2>3. opened[k] = 0
    BY <2>2 DEF TicketInv
  <2>4. \A j \in Challenge : j # k => challenge'[j] = challenge[j]
    BY <1>0, <2>2
  <2>5. \A d \in AdminCall : adminCall'[d] # Blank =>
          \/ adminCall'[d].op # "verify" /\ adminCall'[d].pc # "guard"
          \/ adminCall[d] # Blank /\ adminCall'[d] = adminCall[d]
    BY <1>0, <2>1 DEF Plain
  <2>6. \A j \in Challenge :
          /\ opened'[j] \in {0, 1}
          /\ adminSession'[j] = "none" <=> opened'[j] = 0
          /\ challenge'[j] = Blank => opened'[j] = 0
          /\ challenge'[j] # Blank /\ opened'[j] = 1 => challenge'[j].spent
    BY <1>0, <2>2, <2>3, <2>4 DEF TicketInv
  <2>7. \A d \in AdminCall : adminCall'[d] # Blank => TicketHeld(adminCall'[d], challenge', opened')
    <3> SUFFICES ASSUME NEW d \in AdminCall, adminCall'[d] # Blank,
                        adminCall[d] # Blank, adminCall'[d] = adminCall[d]
                 PROVE  TicketHeld(adminCall[d], challenge', opened')
      BY <2>5 DEF TicketHeld, Redeems
    <3>1. TicketHeld(adminCall[d], challenge, opened) /\ Sound(adminCall[d])
      BY <1>0 DEF TicketInv, CallsFit
    <3>2. adminCall[d].op = "verify" => adminCall[d].key \in Challenge /\ adminCall[d].key # k
      BY <2>2, <3>1 DEF TicketHeld, Sound
    <3> QED
      BY <2>2, <2>4, <3>1, <3>2 DEF TicketHeld, Redeems
  <2>8. \A d, e \in AdminCall :
          adminCall'[d] # Blank /\ adminCall'[e] # Blank /\ Redeems(adminCall'[d])
              /\ Redeems(adminCall'[e]) /\ adminCall'[d].key = adminCall'[e].key => d = e
    BY <2>5 DEF TicketInv, Redeems
  <2> QED
    BY <2>6, <2>7, <2>8 DEF TicketInv
<1>8. ASSUME NEW c \in AdminCall, Consume(c) PROVE TicketInv'
  <2> DEFINE r == PlacedAt(adminCall[c], "save")
             k == adminCall[c].key
  <2>0. UNCHANGED <<opened, adminSession>>
    BY <1>8 DEF Consume
  <2>1. CASE adminCall' = [adminCall EXCEPT ![c] = Blank] /\ challenge' = challenge
    BY <2>0, <2>1, TicketsKept
  <2>2. CASE /\ r \in Request /\ Sound(r) /\ r.op = "verify" /\ r.pc = "save" /\ r.key = k
             /\ ~challenge[k].spent
             /\ challenge' = [challenge EXCEPT ![k].spent = TRUE]
             /\ adminCall' = [adminCall EXCEPT ![c] = r]
    <3>1. k \in Challenge /\ challenge[k] \in Ticket /\ challenge[k] # Blank
      BY <1>8, ConsumeMoves, BlankIsNoRow
    <3>2. opened[k] = 0
      BY <2>2, <3>1 DEF TicketInv
    <3>3. /\ challenge'[k] \in Ticket /\ challenge'[k].spent
          /\ \A j \in Challenge : j # k => challenge'[j] = challenge[j]
      BY <1>0, <2>2, <3>1 DEF Ticket
    <3>4. challenge'[k] # Blank
      BY <3>3, BlankIsNoRow
    <3> HIDE DEF r, k
    <3>5. /\ adminCall'[c] = r
          /\ \A d \in AdminCall : d # c => adminCall'[d] = adminCall[d]
      BY <1>0, <2>2
    <3>6. \A j \in Challenge :
            /\ opened'[j] \in {0, 1}
            /\ adminSession'[j] = "none" <=> opened'[j] = 0
            /\ challenge'[j] = Blank => opened'[j] = 0
            /\ challenge'[j] # Blank /\ opened'[j] = 1 => challenge'[j].spent
      BY <1>0, <2>0, <3>1, <3>2, <3>3, <3>4 DEF TicketInv
    <3>7. \A d \in AdminCall : d # c /\ adminCall[d] # Blank /\ Redeems(adminCall[d])
            => adminCall[d].key # k
      BY <2>2, <3>1 DEF TicketInv, TicketHeld
    <3>8. \A d \in AdminCall : adminCall'[d] # Blank => TicketHeld(adminCall'[d], challenge', opened')
      <4> SUFFICES ASSUME NEW d \in AdminCall, adminCall'[d] # Blank
                   PROVE  TicketHeld(adminCall'[d], challenge', opened')
        OBVIOUS
      <4>1. CASE d = c
        BY <2>0, <2>2, <3>2, <3>3, <3>4, <3>5, <4>1 DEF TicketHeld
      <4>2. CASE d # c
        <5>1. adminCall'[d] = adminCall[d] /\ TicketHeld(adminCall[d], challenge, opened)
              /\ Sound(adminCall[d])
          BY <1>0, <3>5, <4>2 DEF TicketInv, CallsFit
        <5>2. adminCall[d].op = "verify" => adminCall[d].key \in Challenge
          BY <5>1 DEF Sound
        <5> QED
          BY <2>0, <3>3, <3>4, <5>1, <5>2 DEF TicketHeld, Redeems
      <4> QED
        BY <4>1, <4>2
    <3>9. \A d, e \in AdminCall :
            adminCall'[d] # Blank /\ adminCall'[e] # Blank /\ Redeems(adminCall'[d])
                /\ Redeems(adminCall'[e]) /\ adminCall'[d].key = adminCall'[e].key => d = e
      BY <2>2, <3>5, <3>7 DEF TicketInv
    <3> QED
      BY <3>6, <3>8, <3>9 DEF TicketInv
  <2> QED
    BY <1>8, <2>1, <2>2, ConsumeMoves
<1>9. ASSUME NEW c \in AdminCall, Count(c) PROVE TicketInv'
  <2>1. UNCHANGED <<challenge, opened, adminSession>>
    BY <1>9 DEF Count
  <2> QED
    BY <1>9, <2>1, CountMoves, TicketsKept
<1>10. ASSUME NEW c \in AdminCall, SaveRow(c) PROVE TicketInv'
  <2>1. UNCHANGED <<challenge, opened, adminSession>>
    BY <1>10 DEF SaveRow
  <2>2. PICK r : Saved(r, adminCall[c]) /\ adminCall' = [adminCall EXCEPT ![c] = r]
    BY <1>10, SaveRowMoves
  <2>3. adminCall[c] # Blank /\ adminCall[c] \in Request /\ Sound(adminCall[c])
        /\ adminCall[c].pc \in {"save", "counted"}
    BY <1>0, <1>10, CallAt DEF SaveRow, AdminAt
  <2>4. adminCall[c].op = "verify" => adminCall[c].pc = "save"
    BY <2>3 DEF Sound
  <2>5. TicketHeld(adminCall[c], challenge, opened)
    BY <2>3 DEF TicketInv
  <2>6. r # Blank /\ r.op = "verify" =>
          /\ TicketHeld(r, challenge, opened) /\ Redeems(adminCall[c]) /\ r.key = adminCall[c].key
    BY <2>2, <2>4, <2>5 DEF Saved, TicketHeld, Redeems
  <2> QED
    BY <2>1, <2>2, <2>3, <2>6, TicketsKept DEF Saved
<1>11. ASSUME NEW c \in AdminCall, NEW k \in Challenge, Arrive(c, k) PROVE TicketInv'
  <2>1. UNCHANGED <<challenge, opened, adminSession>>
    BY <1>11 DEF Arrive
  <2>2. PICK r \in Request : /\ Sound(r) /\ r.op = "any" /\ r.pc = "guard" /\ r.key = k
                              /\ opened[k] = 1
                              /\ adminCall' = [adminCall EXCEPT ![c] = r]
    BY <1>11, ArriveMoves
  <2>3. TicketHeld(r, challenge, opened) /\ ~Redeems(r)
    BY <2>2 DEF TicketHeld, Redeems
  <2> QED
    BY <2>1, <2>2, <2>3, TicketsKept
<1>12. ASSUME NEW c \in AdminCall, NEW k \in Challenge, EnterCode(c, k) PROVE TicketInv'
  <2>1. UNCHANGED <<challenge, opened, adminSession>>
    BY <1>12 DEF EnterCode
  <2>2. PICK r \in Request : /\ Sound(r) /\ r.op = "verify" /\ r.pc = "code" /\ r.key = k
                              /\ challenge[k] # Blank
                              /\ adminCall' = [adminCall EXCEPT ![c] = r]
    BY <1>12, EnterCodeMoves
  <2>3. TicketHeld(r, challenge, opened) /\ ~Redeems(r)
    BY <2>2 DEF TicketHeld, Redeems
  <2> QED
    BY <2>1, <2>2, <2>3, TicketsKept
<1>13. CASE \E a \in Admin : GrantEnds(a) \/ LinkExpires(a) \/ LockPasses(a)
  BY <1>13 DEF GrantEnds, LinkExpires, LockPasses, TicketInv
<1> QED
  BY <1>2, <1>3, <1>4, <1>5, <1>6, <1>7, <1>8, <1>9, <1>10, <1>11, <1>12, <1>13
     DEF AdminNext, PlainAbout, Operations

-------------------------------------------------------------------------------
(* Super administrators                                                        *)

\* Saves apart, an account keeps its status and its roles.
LEMMA RowIsKept ==
    ASSUME AdminBase, AdminNext, \A c \in AdminCall : ~SaveRow(c), NEW a \in Admin, Here(a)
    PROVE  /\ adminRow'[a] # Blank /\ adminRow'[a].super = adminRow[a].super
           /\ adminRow'[a].status = adminRow[a].status
<1> DEFINE Kept == /\ adminRow'[a] # Blank /\ adminRow'[a].super = adminRow[a].super
                   /\ adminRow'[a].status = adminRow[a].status
<1>0. adminRow \in [Admin -> Row \cup {Blank}] /\ adminRow[a] \in Row /\ adminRow[a] # Blank
  BY DEF AdminBase, AdminTypeOK, Here
<1>1. ASSUME adminRow' = adminRow PROVE Kept
  BY <1>0, <1>1
<1>2. ASSUME NEW c \in AdminCall, NEW b \in Admin, NEW super \in BOOLEAN, Invite(c, b, super) PROVE Kept
  BY <1>0, <1>2 DEF Invite, Here
<1>3. ASSUME NEW b \in Admin, LockPasses(b) PROVE Kept
  <2>1. [adminRow[a] EXCEPT !.barred = FALSE] \in Row
    BY <1>0 DEF Row
  <2>2. b = a => adminRow'[a] = [adminRow[a] EXCEPT !.barred = FALSE]
    BY <1>0, <1>3 DEF LockPasses
  <2>3. b # a => adminRow'[a] = adminRow[a]
    BY <1>0, <1>3 DEF LockPasses
  <2>4. [adminRow[a] EXCEPT !.barred = FALSE].super = adminRow[a].super
        /\ [adminRow[a] EXCEPT !.barred = FALSE].status = adminRow[a].status
    BY <1>0, Zenon DEF Row
  <2> QED
    BY <1>0, <2>1, <2>2, <2>3, <2>4, BlankIsNoRow
<1>4. ASSUME NEW c \in AdminCall, PlainOf(c) PROVE adminRow' = adminRow
  BY <1>4 DEF PlainOf, Touch, SaveLetter, RevokeAll, Activate, Grant, WrongPassword, OpenSession,
         Boot, AdminThrows, RightPassword, RevokeSome
<1>5. ASSUME NEW c \in AdminCall, Ticketing(c), ~SaveRow(c) PROVE adminRow' = adminRow
  BY <1>5 DEF Ticketing, Count, Consume, Arrive, EnterCode
<1>6. ASSUME NEW c \in AdminCall, NEW b \in Admin,
             Resend(c, b) \/ Withdraw(c, b) \/ Overdue(c, b) \/ SetPassword(c, b) \/ Enrol(c, b) \/ Login(c, b)
      PROVE  adminRow' = adminRow
  BY <1>6 DEF Resend, Withdraw, Overdue, SetPassword, Enrol, Login
<1>7. ASSUME NEW c \in AdminCall, NEW b \in Admin, NEW op \in Operations, Consider(c, b, op)
      PROVE  adminRow' = adminRow
  BY <1>7 DEF Consider
<1>8. ASSUME NEW b \in Admin, GrantEnds(b) \/ LinkExpires(b) PROVE adminRow' = adminRow
  BY <1>8 DEF GrantEnds, LinkExpires
<1> HIDE DEF Kept
<1>9. Kept
  BY <1>1, <1>2, <1>3, <1>4, <1>5, <1>6, <1>7, <1>8
     DEF AdminNext, Operations, PlainOf, Ticketing
<1> QED
  BY <1>9 DEF Kept

LEMMA AbleIsKept ==
    ASSUME AdminBase, AdminNext, \A c \in AdminCall : ~SaveRow(c), NEW a \in Admin, Able(adminRow[a])
    PROVE  Able(adminRow'[a])
  BY RowIsKept DEF Able, Here

\* Two of them are counted: so there is one besides whoever is to be put out.
LEMMA AnotherIsCounted ==
    ASSUME CountActiveSuperAdmins > 1, NEW x
    PROVE  \E a \in Admin : a # x /\ Able(adminRow[a])
<1> DEFINE S == {a \in Admin : Here(a) /\ adminRow[a].super /\ adminRow[a].status = "active"}
<1>1. SUFFICES ASSUME \A a \in S : a = x PROVE FALSE
  BY DEF Able, Here
<1>2. IsFiniteSet(S) /\ S \subseteq {x}
  BY <1>1, AdminAssumption, FS_Subset
<1>3. Cardinality(S) <= 1
  <2>1. IsFiniteSet({x}) /\ Cardinality({x}) = 1
    BY FS_Singleton
  <2> QED
    BY <1>2, <2>1, FS_Subset
<1>4. Cardinality(S) \in Nat /\ Cardinality(S) > 1
  BY <1>2, FS_CardinalityType DEF CountActiveSuperAdmins
<1> QED
  BY <1>3, <1>4

LEMMA CountStep == AdminBase /\ CountInv /\ AdminNext => CountInv'
<1> SUFFICES ASSUME AdminBase, CountInv, AdminNext PROVE CountInv'
  OBVIOUS
<1>0. /\ CallsFit /\ adminCall \in [AdminCall -> Request \cup {Blank}]
      /\ adminRow \in [Admin -> Row \cup {Blank}] /\ unguarded \in BOOLEAN
  BY BaseHasCalls DEF AdminBase, AdminTypeOK, CallsFit
<1>1. CASE \A c \in AdminCall : ~SaveRow(c)
  <2>1. unguarded' = unguarded
    BY <1>1, AdminFrames
  <2>2. \A a \in Admin : Able(adminRow[a]) => Able(adminRow'[a])
    BY <1>1, AbleIsKept
  <2>3. ASSUME \A d \in AdminCall : AdminAt(d, "counted")' => AdminAt(d, "counted") /\ adminCall'[d] = adminCall[d]
        PROVE  CountInv'
    BY <2>1, <2>2, <2>3 DEF CountInv, OthersAble
  <2>4. ASSUME NEW c \in AdminCall, NEW r, adminCall' = [adminCall EXCEPT ![c] = r], r = Blank \/ r.pc # "counted"
        PROVE  CountInv'
    <3>1. \A d \in AdminCall : AdminAt(d, "counted")' => AdminAt(d, "counted") /\ adminCall'[d] = adminCall[d]
      BY <1>0, <2>4 DEF AdminAt
    <3> QED
      BY <2>3, <3>1
  <2>5. ASSUME NEW c \in AdminCall, PlainOf(c) PROVE CountInv'
    BY <2>4, <2>5, PlainMoves DEF Plain
  <2>6. ASSUME NEW c \in AdminCall, NEW a \in Admin, PlainAbout(c, a) PROVE CountInv'
    BY <2>4, <2>6, PlainAboutMoves DEF Plain
  <2>7. ASSUME NEW c \in AdminCall, Consume(c) PROVE CountInv'
    <3>1. \/ adminCall' = [adminCall EXCEPT ![c] = Blank]
          \/ /\ PlacedAt(adminCall[c], "save").pc = "save"
             /\ adminCall' = [adminCall EXCEPT ![c] = PlacedAt(adminCall[c], "save")]
      <4>1. adminCall[c] \in Request /\ "save" \in Place
        BY <1>0, <2>7, CallAt DEF Consume, Place
      <4>2. PlacedAt(adminCall[c], "save").pc = "save"
        BY <4>1, PlacedFields
      <4> QED
        BY <2>7, <4>2 DEF Consume, GoesOn, Ends, PlacedAt
    <3> QED
      BY <2>4, <3>1
  <2>8. ASSUME NEW c \in AdminCall, NEW k \in Challenge, Arrive(c, k) PROVE CountInv'
    <3>1. [Fresh EXCEPT !.pc = "guard", !.key = k, !.actor = challenge[k].of].pc = "guard"
      BY DEF Fresh
    <3> QED
      BY <2>4, <2>8, <3>1 DEF Arrive, Starts
  <2>9. ASSUME NEW c \in AdminCall, NEW k \in Challenge, EnterCode(c, k) PROVE CountInv'
    <3>1. PICK r \in Request : /\ Sound(r) /\ r.op = "verify" /\ r.pc = "code" /\ r.key = k
                              /\ challenge[k] # Blank
                              /\ adminCall' = [adminCall EXCEPT ![c] = r]
      BY <2>9, EnterCodeMoves
    <3> QED
      BY <2>4, <3>1
  <2>10. ASSUME NEW c \in AdminCall, Count(c) PROVE CountInv'
    <3>1. CASE adminCall' = [adminCall EXCEPT ![c] = Blank]
      BY <2>4, <3>1
    <3>2. CASE /\ CountActiveSuperAdmins > 1
               /\ PlacedAt(adminCall[c], "counted").on = adminCall[c].on
               /\ adminCall' = [adminCall EXCEPT ![c] = PlacedAt(adminCall[c], "counted")]
      <4>1. \E a \in Admin : a # adminCall[c].on /\ Able(adminRow[a])
        BY <3>2, AnotherIsCounted
      <4>2. /\ adminCall'[c].on = adminCall[c].on
            /\ \A d \in AdminCall : d # c => adminCall'[d] = adminCall[d]
        BY <1>0, <3>2
      <4>3. ASSUME ~unguarded', NEW d \in AdminCall, AdminAt(d, "counted")' PROVE OthersAble(adminCall[d])'
        BY <2>1, <2>2, <4>1, <4>2, <4>3 DEF CountInv, OthersAble, AdminAt
      <4> QED
        BY <2>1, <2>2, <4>3 DEF CountInv
    <3> QED
      BY <2>10, <3>1, <3>2, CountMoves
  <2>11. CASE \E a \in Admin : GrantEnds(a) \/ LinkExpires(a) \/ LockPasses(a)
    BY <2>3, <2>11 DEF GrantEnds, LinkExpires, LockPasses, AdminAt
  <2> QED
    BY <1>1, <2>5, <2>6, <2>7, <2>8, <2>9, <2>10, <2>11
       DEF AdminNext, PlainOf, PlainAbout, Operations
<1>2. CASE \E c \in AdminCall : SaveRow(c)
  <2> PICK c \in AdminCall : SaveRow(c)
    BY <1>2
  <2> DEFINE call == adminCall[c]
  <2>1. PICK r : Saved(r, call) /\ adminCall' = [adminCall EXCEPT ![c] = r]
    BY SaveRowMoves
  <2>2. SUFFICES ASSUME ~unguarded'
                 PROVE  /\ \E a \in Admin : Able(adminRow'[a])
                        /\ \A d \in AdminCall : AdminAt(d, "counted")' =>
                             \E a \in Admin : a # adminCall'[d].on /\ Able(adminRow'[a])
    BY DEF CountInv, OthersAble
  <2>3. /\ ~unguarded
        /\ Able(adminRow[call.on]) /\ ~Able(call.row) =>
             /\ call.pc = "counted"
             /\ \A d \in AdminCall \ {c} : ~AdminAt(d, "counted")
    BY <1>0, <2>2 DEF SaveRow
  <2>4. adminRow' = [adminRow EXCEPT ![call.on] = call.row]
    BY DEF SaveRow
  <2>5. \A d \in AdminCall : AdminAt(d, "counted")' => /\ d # c /\ adminCall'[d] = adminCall[d]
                                                      /\ AdminAt(d, "counted")
    BY <1>0, <2>1 DEF Saved, AdminAt
  <2>6. CASE Able(adminRow[call.on]) /\ ~Able(call.row)
    <3>1. AdminAt(c, "counted")
      BY <2>3, <2>6 DEF SaveRow, AdminAt
    <3>2. PICK a \in Admin : a # call.on /\ Able(adminRow[a])
      BY <2>3, <3>1 DEF CountInv, OthersAble
    <3>3. Able(adminRow'[a])
      BY <1>0, <2>4, <3>2
    <3> QED
      BY <2>3, <2>5, <2>6, <3>3
  <2>7. CASE ~(Able(adminRow[call.on]) /\ ~Able(call.row))
    <3>1. \A a \in Admin : Able(adminRow[a]) => Able(adminRow'[a])
      BY <1>0, <2>4, <2>7
    <3> QED
      BY <2>3, <2>5, <3>1 DEF CountInv, OthersAble
  <2> QED
    BY <2>6, <2>7
<1> QED
  BY <1>1, <1>2
-------------------------------------------------------------------------------
(* The initial states                                                          *)

LEMMA AdminInvInit == AdminInit => AdminInv
<1> SUFFICES ASSUME AdminInit PROVE AdminInv
  OBVIOUS
<1>1. 0 \in 0 .. MaxAttempts /\ 1 \in 1 .. MaxLink /\ 0 \in 0 .. MaxAsked
  BY AdminAssumption
<1>2. Signed \in Row /\ Sent \in Letter
  BY <1>1 DEF Signed, Sent, Row, Letter
<1>3. [Signed EXCEPT !.super = FALSE] \in Row /\ Invited(FALSE) \in Row
  BY <1>2 DEF Row, Invited
<1>4. adminRow \in [Admin -> Row \cup {Blank}]
  BY <1>2, <1>3 DEF AdminInit
<1>5. invitation \in [Admin -> Letter \cup {Blank}]
  BY <1>2 DEF AdminInit
<1> DEFINE pass == CHOOSE p \in [Admin -> Challenge] : IsInjective(p)
           Holder(k) == {a \in Admin : adminRow[a] = Signed /\ pass[a] = k}
           of(k) == CHOOSE a \in Holder(k) : TRUE
<1>6. /\ challenge = [k \in Challenge |->
              IF Holder(k) = {} THEN Blank ELSE [of |-> of(k), spent |-> TRUE]]
      /\ adminSession = [k \in Challenge |-> IF Holder(k) = {} THEN "none" ELSE "live"]
      /\ opened = [k \in Challenge |-> IF Holder(k) = {} THEN 0 ELSE 1]
  BY DEF AdminInit
<1>7. \A k \in Challenge : Holder(k) # {} => of(k) \in Admin
  OBVIOUS
<1> HIDE DEF pass, Holder, of
<1>8. /\ adminSession \in [Challenge -> {"none", "live", "revoked", "out"}]
      /\ opened \in [Challenge -> 0 .. 2]
      /\ \A k \in Challenge : opened[k] \in {0, 1} /\ (adminSession[k] = "none" <=> opened[k] = 0)
  BY <1>6
<1>9. \A k \in Challenge : Holder(k) # {} => [of |-> of(k), spent |-> TRUE] \in Ticket
  BY <1>7 DEF Ticket
<1>10. challenge \in [Challenge -> Ticket \cup {Blank}]
  BY <1>6, <1>9
<1>11. \A k \in Challenge : /\ challenge[k] = Blank => opened[k] = 0
                            /\ challenge[k] # Blank /\ opened[k] = 1 => challenge[k].spent
  BY <1>6, <1>9, BlankIsNoRow
<1>12. /\ grants \in [Admin -> Nat] /\ asked \in 0 .. MaxAsked /\ unguarded \in BOOLEAN
       /\ adminCall = [c \in AdminCall |-> Blank]
  BY <1>1 DEF AdminInit
<1>13. AdminBase
  BY <1>4, <1>5, <1>8, <1>10, <1>12 DEF AdminBase, AdminTypeOK
<1>14. TicketInv
  BY <1>8, <1>11, <1>12 DEF TicketInv
<1>15. Able(adminRow[BootAdmin])
  <2>1. adminRow[BootAdmin] = Signed /\ Signed # Blank
    BY <1>2, BlankIsNoRow DEF AdminInit
  <2>2. Signed.super /\ Signed.status = "active"
    BY DEF Signed
  <2> QED
    BY <2>1, <2>2 DEF Able
<1>16. CountInv
  BY <1>12, <1>15, AdminAssumption DEF CountInv, AdminAt
<1> QED
  BY <1>13, <1>14, <1>16 DEF AdminInv

LEMMA AdminInvStep == AdminInv /\ [AdminNext]_adminVars => AdminInv'
<1>1. AdminInv /\ AdminNext => AdminInv'
  BY BaseStep, TicketStep, CountStep DEF AdminInv
<1>2. AdminInv /\ UNCHANGED adminVars => AdminInv'
  BY DEF AdminInv, AdminBase, AdminTypeOK, TicketInv, CountInv, adminVars, AdminAt, OthersAble
<1> QED
  BY <1>1, <1>2

LEMMA AdminInvShows == AdminInv => AdminTypeOK /\ SuperAdminRemains /\ ChallengesOpenOneSession
<1>1. AdminInv => AdminTypeOK
  BY DEF AdminInv, AdminBase
<1>2. AdminInv => SuperAdminRemains
  BY DEF AdminInv, CountInv, SuperAdminRemains
<1>3. AdminInv => ChallengesOpenOneSession
  BY DEF AdminInv, TicketInv, ChallengesOpenOneSession
<1> QED
  BY <1>1, <1>2, <1>3

\* Of the steps, only a save changes the status of an account that was put out.
LEMMA OldCallStep == AdminInv /\ [AdminNext]_adminVars => OldCallUndoes
<1> SUFFICES ASSUME AdminInv, [AdminNext]_adminVars PROVE OldCallUndoes
  OBVIOUS
<1>0. /\ CallsFit /\ adminCall \in [AdminCall -> Request \cup {Blank}]
      /\ adminRow \in [Admin -> Row \cup {Blank}]
      /\ adminSession \in [Challenge -> {"none", "live", "revoked", "out"}]
  BY BaseHasCalls DEF AdminInv, AdminBase, AdminTypeOK, CallsFit
<1> DEFINE Back(a) == /\ Here(a) /\ adminRow[a].status \in PutOut
                      /\ Here(a)' /\ adminRow'[a].status \notin PutOut
           Told(c, a) == /\ adminCall[c] # Blank
                         /\ adminCall[c].on = a
                         /\ \/ adminCall[c].op \in {"reactivate", "resend", "enrol"}
                            \/ /\ adminCall[c].saw # Blank
                               /\ adminCall[c].saw.status \notin PutOut
           Open(k) == adminSession[k] \in {"revoked", "out"} /\ adminSession'[k] = "live"
<1>1. ASSUME NEW a \in Admin, Back(a) PROVE \E c \in AdminCall : Told(c, a)
  <2>1. AdminNext
    BY <1>1 DEF adminVars
  <2>2. PICK c \in AdminCall : SaveRow(c)
    BY <1>1, <2>1, RowIsKept DEF AdminInv, Here
  <2> DEFINE call == adminCall[c]
  <2>3. call \in Request /\ Sound(call) /\ call # Blank /\ call.row # Blank
    BY <1>0, <2>2, CallAt DEF SaveRow, AdminAt
  <2>4. adminRow' = [adminRow EXCEPT ![call.on] = call.row]
    BY <2>2 DEF SaveRow
  <2>5. call.on = a
    BY <1>0, <1>1, <2>4 DEF Here
  <2>6. call.row.status \notin PutOut
    BY <1>0, <1>1, <2>4, <2>5
  <2>7. Told(c, a)
    BY <2>3, <2>5, <2>6, BlankIsNoRow DEF Sound, MayBringBack
  <2> QED
    BY <2>7
<1>2. ASSUME NEW k \in Challenge, Open(k)
      PROVE  adminSession[k] = "revoked" /\ \E c \in AdminCall : AdminAt(c, "guard")
  <2>1. AdminNext
    BY <1>2 DEF adminVars
  <2>2. ASSUME NEW c \in AdminCall, RevokeAll(c) PROVE FALSE
    BY <1>0, <1>2, <2>2 DEF RevokeAll
  <2>3. ASSUME NEW c \in AdminCall, NEW keys \in SUBSET Challenge, RevokeSome(c, keys) PROVE FALSE
    BY <1>0, <1>2, <2>3 DEF RevokeSome
  <2>4. ASSUME NEW c \in AdminCall, OpenSession(c) PROVE FALSE
    <3>1. /\ adminCall[c] \in Request /\ Sound(adminCall[c]) /\ adminCall[c].pc = "open"
          /\ adminCall[c] # Blank
      BY <1>0, <2>4, CallAt DEF OpenSession, AdminAt
    <3>2. adminCall[c].key \in Challenge /\ adminSession[adminCall[c].key] = "none"
      BY <3>1 DEF AdminInv, Sound, TicketInv, TicketHeld, Redeems
    <3> QED
      BY <1>0, <1>2, <2>4, <3>2 DEF OpenSession
  <2>5. PICK c \in AdminCall : Touch(c)
    BY <1>2, <2>1, <2>2, <2>3, <2>4, AdminFrames
  <2> QED
    BY <1>0, <1>2, <2>5 DEF Touch
<1> QED
  BY <1>1, <1>2 DEF OldCallUndoes

-------------------------------------------------------------------------------
(* Spotlights                                                                  *)

SpotInv == SpotTypeOK /\ ShownIsReady

LEMMA SpotInvInit == SpotInit => SpotInv
  BY SpotAssumption DEF SpotInit, SpotInv, SpotTypeOK, ShownIsReady, Is

\* A step that replaces the row of one spotlight.
LEMMA SpotReplaced ==
    ASSUME SpotInv, NEW n \in Spot, NEW row \in SpotRow, spot' = [spot EXCEPT ![n] = row],
           UNCHANGED <<clock, views>>,
           row.status \in {"active", "scheduled"} => row.ready /\ Ordered(row.startsAt, row.expiresAt),
           row.status = "active" => row.startsAt <= clock,
           row.status = "scheduled" => row.startsAt # 0
    PROVE  SpotInv'
<1>1. SpotTypeOK'
  BY DEF SpotInv, SpotTypeOK
<1>2. ShownIsReady'
  BY DEF SpotInv, SpotTypeOK, ShownIsReady, Is
<1> QED
  BY <1>1, <1>2 DEF SpotInv

LEMMA SpotRowAt == ASSUME SpotInv, NEW n \in Spot, spot[n] # NoSpot PROVE spot[n] \in SpotRow
  BY DEF SpotInv, SpotTypeOK


LEMMA SpotInvStep == SpotInv /\ [SpotNext]_spotVars => SpotInv'
<1> SUFFICES ASSUME SpotInv, [SpotNext]_spotVars PROVE SpotInv'
  OBVIOUS
<1>0. /\ spot \in [Spot -> SpotRow \cup {NoSpot}] /\ clock \in 1 .. SpotClock
      /\ views \in [Spot -> 0 .. 1] /\ SpotClock \in Nat
  BY SpotAssumption DEF SpotInv, SpotTypeOK
<1>1. CASE TimePasses
  <2>1. clock' \in 1 .. SpotClock /\ clock' >= clock
    BY <1>0, <1>1 DEF TimePasses
  <2>2. \A n \in Spot : Is(n, {"active"}) => spot[n].startsAt \in Int
    BY <1>0 DEF Is, SpotRow
  <2>3. ShownIsReady'
    <3> SUFFICES ASSUME NEW n \in Spot
                 PROVE  /\ Is(n, {"active", "scheduled"}) =>
                              spot[n].ready /\ Ordered(spot[n].startsAt, spot[n].expiresAt)
                        /\ Is(n, {"active"}) => spot[n].startsAt <= clock'
                        /\ Is(n, {"scheduled"}) => spot[n].startsAt # 0
      BY <1>1 DEF TimePasses, ShownIsReady, Is
    <3> QED
      BY <1>0, <2>1, <2>2 DEF SpotInv, ShownIsReady
  <2> QED
    BY <1>1, <2>1, <2>3 DEF TimePasses, SpotInv, SpotTypeOK
<1>2. ASSUME NEW n \in Spot, PublishSpot(n) PROVE SpotInv'
  <2> DEFINE row == [spot[n] EXCEPT !.status = "active"]
  <2>1. spot[n] \in SpotRow /\ Deliverable(spot[n]) /\ spot[n].startsAt <= clock
    BY <1>2, SpotRowAt DEF PublishSpot, Is
  <2>2. /\ row \in SpotRow /\ row.status = "active" /\ row.ready = spot[n].ready
        /\ row.startsAt = spot[n].startsAt /\ row.expiresAt = spot[n].expiresAt
    BY <2>1 DEF SpotRow
  <2>3. spot' = [spot EXCEPT ![n] = row] /\ UNCHANGED <<clock, views>>
    BY <1>2 DEF PublishSpot
  <2> HIDE DEF row
  <2> QED
    BY <2>1, <2>2, <2>3, SpotReplaced DEF Deliverable
<1>3. ASSUME NEW n \in Spot, PauseSpot(n) \/ ArchiveSpot(n) PROVE SpotInv'
  <2>1. spot[n] \in SpotRow
    BY <1>3, SpotRowAt DEF PauseSpot, ArchiveSpot, Is
  <2> DEFINE paused == [spot[n] EXCEPT !.status = "paused"]
             archived == [spot[n] EXCEPT !.status = "archived"]
  <2>2. paused \in SpotRow /\ paused.status = "paused" /\ archived \in SpotRow /\ archived.status = "archived"
    BY <2>1 DEF SpotRow
  <2>3. /\ spot' = [spot EXCEPT ![n] = paused] \/ spot' = [spot EXCEPT ![n] = archived]
        /\ UNCHANGED <<clock, views>>
    BY <1>3 DEF PauseSpot, ArchiveSpot
  <2> HIDE DEF paused, archived
  <2> QED
    BY <2>2, <2>3, SpotReplaced
<1>4. ASSUME NEW n \in Spot, TrackImpression(n) PROVE SpotInv'
  BY <1>0, <1>4 DEF TrackImpression, SpotInv, SpotTypeOK, ShownIsReady, Is
<1>5. ASSUME NEW n \in Spot, NEW copy \in Spot, DuplicateSpot(n, copy) PROVE SpotInv'
  <2> DEFINE row == [spot[n] EXCEPT !.status = "draft", !.startsAt = 0, !.expiresAt = 0]
  <2>1. spot[n] \in SpotRow /\ 0 \in 0 .. SpotClock
    BY <1>0, <1>5, SpotRowAt DEF DuplicateSpot
  <2>2. row \in SpotRow /\ row.status = "draft"
    BY <2>1 DEF SpotRow
  <2>3. spot' = [spot EXCEPT ![copy] = row] /\ UNCHANGED <<clock, views>>
    BY <1>5 DEF DuplicateSpot
  <2> HIDE DEF row
  <2> QED
    BY <2>2, <2>3, SpotReplaced
<1>6. ASSUME NEW n \in Spot, NEW startsAt \in 0 .. SpotClock, NEW expiresAt \in 0 .. SpotClock,
             ScheduleSpot(n, startsAt, expiresAt)
      PROVE  SpotInv'
  <2> DEFINE dated == [spot[n] EXCEPT !.startsAt = startsAt, !.expiresAt = expiresAt]
             row == [spot[n] EXCEPT !.status = "scheduled", !.startsAt = startsAt, !.expiresAt = expiresAt]
  <2>1. spot[n] \in SpotRow
    BY <1>6, SpotRowAt DEF ScheduleSpot, Is
  <2>2. dated.ready = spot[n].ready /\ dated.startsAt = startsAt /\ dated.expiresAt = expiresAt
    BY <2>1 DEF SpotRow
  <2>3. /\ row \in SpotRow /\ row.status = "scheduled" /\ row.startsAt = startsAt
        /\ row.expiresAt = expiresAt /\ row.ready = spot[n].ready
    BY <2>1 DEF SpotRow
  <2>4. spot' = [spot EXCEPT ![n] = row] /\ UNCHANGED <<clock, views>>
    BY <1>0, <1>6, <2>1 DEF ScheduleSpot, SpotRow
  <2>5. Deliverable(dated) /\ startsAt # 0
    BY <1>0, <1>6 DEF ScheduleSpot
  <2> HIDE DEF row, dated
  <2> QED
    BY <2>2, <2>3, <2>4, <2>5, SpotReplaced DEF Deliverable
<1>7. ASSUME NEW n \in Spot, NEW startsAt \in 0 .. SpotClock, NEW expiresAt \in 0 .. SpotClock,
             NEW ready \in BOOLEAN, CreateSpot(n, ready, startsAt, expiresAt)
      PROVE  SpotInv'
  <2> DEFINE row == [status |-> "draft", ready |-> ready, startsAt |-> startsAt, expiresAt |-> expiresAt]
  <2>1. row \in SpotRow /\ row.status = "draft"
    BY DEF SpotRow
  <2>2. spot' = [spot EXCEPT ![n] = row] /\ UNCHANGED <<clock, views>>
    BY <1>7 DEF CreateSpot
  <2> HIDE DEF row
  <2> QED
    BY <2>1, <2>2, SpotReplaced
<1>8. ASSUME NEW n \in Spot, NEW startsAt \in 0 .. SpotClock, NEW expiresAt \in 0 .. SpotClock,
             NEW ready \in BOOLEAN, UpdateSpot(n, ready, startsAt, expiresAt)
      PROVE  SpotInv'
  <2> DEFINE row == [spot[n] EXCEPT !.ready = ready, !.startsAt = startsAt, !.expiresAt = expiresAt]
  <2>1. spot[n] \in SpotRow /\ spot[n].status \in {"draft", "paused"}
    BY <1>8, SpotRowAt DEF UpdateSpot, Is, EditableStatuses
  <2>2. row \in SpotRow /\ row.status = spot[n].status
    BY <2>1 DEF SpotRow
  <2>3. spot' = [spot EXCEPT ![n] = row] /\ UNCHANGED <<clock, views>>
    BY <1>8, <2>1 DEF UpdateSpot, SpotRow
  <2> HIDE DEF row
  <2> QED
    BY <2>1, <2>2, <2>3, SpotReplaced
<1>9. CASE UNCHANGED spotVars
  BY <1>9 DEF spotVars, SpotInv, SpotTypeOK, ShownIsReady, Is
<1> QED
  BY <1>1, <1>2, <1>3, <1>4, <1>5, <1>6, <1>7, <1>8, <1>9 DEF SpotNext

-------------------------------------------------------------------------------
(* Campaigns                                                                   *)

CallRow == [pc: {"send", "save", "register", "insert"},
            on: Campaign \cup {NoCampaign}, row: CampaignRow \cup {NoCampaign},
            user: Subscriber \cup {NoCampaign}, device: Device \cup {NoCampaign}]

\* The answer to a campaign's dispatch that its row reports.
Evidence(row, answer) ==
    row.status \in {"delivered", "partially_delivered"} =>
        /\ <<row.accepted, row.rejected>> \in answer
        /\ row.accepted > 0
        /\ (row.rejected = 0) <=> (row.status = "delivered")

\* A request writes a row of its campaign, or registers a device.
CallFits(r) ==
    /\ r.pc \in {"send", "save"} => r.on \in Campaign /\ r.row \in CampaignRow /\ r.device = NoCampaign
    /\ r.pc \in {"register", "insert"} => r.user \in Subscriber /\ r.device \in Device
CallEvidence(r, replies) == r.pc \in {"send", "save"} => Evidence(r.row, replies[r.on])

CampaignBase ==
    /\ CampaignTypeOK
    /\ answers \in [Campaign -> SUBSET (Figure \X Figure)]
    /\ \A c \in CampaignCall : campaignCall[c] # NoCampaign => CallFits(campaignCall[c])

EvidenceInv ==
    /\ \A n \in Campaign : campaign[n] # NoCampaign => Evidence(campaign[n], answers[n])
    /\ \A c \in CampaignCall : campaignCall[c] # NoCampaign => CallEvidence(campaignCall[c], answers)

\* While a device is being registered, by one request unless two have
\* overlapped, nobody has it.
Registers(c, d) == campaignCall[c] # NoCampaign /\ campaignCall[c].device = d
Holders(d) == {u \in Subscriber : pushToken[<<u, d>>] > 0}
DeviceInv ==
    \A d \in Device \ overlapped :
        /\ Cardinality(Holders(d)) <= 1
        /\ \A c \in CampaignCall : Registers(c, d) => Holders(d) = {}
        /\ \A b, c \in CampaignCall : Registers(b, d) /\ Registers(c, d) => b = c

CampaignInv == CampaignBase /\ EvidenceInv /\ DeviceInv

LEMMA FigureFits == 0 \in Figure /\ \A x, y \in Nat : y \in Figure /\ x <= y => x \in Figure
<1>1. IsFiniteSet(Subscriber \X Device)
  BY CampaignAssumption, FS_Product
<1>2. Cardinality(Subscriber \X Device) \in Nat
  BY <1>1, FS_CardinalityType
<1> QED
  BY <1>2 DEF Figure

\* As many messages as rows join a recipient and a device.
LEMMA TokensFit == ASSUME NEW row PROVE Tokens(row) \in Figure
<1> DEFINE All == Subscriber \X Device
           Once == {pair \in Recipients(row) : pushToken[pair] > 0}
           Twice == {pair \in Recipients(row) : pushToken[pair] > 1}
<1>1. IsFiniteSet(All)
  BY CampaignAssumption, FS_Product
<1>2. Once \subseteq All /\ Twice \subseteq All
  BY DEF Recipients
<1>3. /\ Cardinality(All) \in Nat /\ Cardinality(Once) \in Nat /\ Cardinality(Twice) \in Nat
      /\ Cardinality(Once) <= Cardinality(All) /\ Cardinality(Twice) <= Cardinality(All)
  BY <1>1, <1>2, FS_Subset, FS_CardinalityType
<1>4. Tokens(row) = Cardinality(Once) + Cardinality(Twice)
  BY DEF Tokens
<1> HIDE DEF All, Once, Twice
<1>5. Figure = 0 .. (2 * Cardinality(All))
  BY DEF Figure, All
<1> QED
  BY <1>3, <1>4, <1>5

LEMMA FigureIsNat == \A x \in Figure : x \in Nat
  BY DEF Figure

\* A step that replaces one request.
LEMMA CallGoes ==
    ASSUME CampaignBase, NEW c \in CampaignCall, NEW r,
           r = NoCampaign \/ (r \in CallRow /\ CallFits(r)), campaignCall' = [campaignCall EXCEPT ![c] = r]
    PROVE  /\ campaignCall' \in [CampaignCall -> CallRow \cup {NoCampaign}]
           /\ \A d \in CampaignCall : campaignCall'[d] # NoCampaign => CallFits(campaignCall'[d])
           /\ campaignCall'[c] = r
           /\ \A d \in CampaignCall : d # c => campaignCall'[d] = campaignCall[d]
  BY DEF CampaignBase, CampaignTypeOK, CallRow

LEMMA CampaignAt ==
    ASSUME CampaignBase, NEW c \in CampaignCall, NEW pc, CallIs(c, pc)
    PROVE  /\ campaignCall[c] \in CallRow /\ CallFits(campaignCall[c]) /\ campaignCall[c].pc = pc
           /\ campaignCall[c] # NoCampaign
  BY DEF CampaignBase, CampaignTypeOK, CallIs, CallRow

LEMMA WritingFits ==
    ASSUME NEW n \in Campaign, NEW row \in CampaignRow
    PROVE  /\ Writing(n, row) \in CallRow /\ CallFits(Writing(n, row))
           /\ Writing(n, row).device = NoCampaign /\ Writing(n, row).pc = "save"
           /\ Writing(n, row).on = n /\ Writing(n, row).row = row
<1>1. /\ Writing(n, row) \in CallRow
      /\ Writing(n, row).device = NoCampaign /\ Writing(n, row).pc = "save"
      /\ Writing(n, row).on = n /\ Writing(n, row).row = row
  BY DEF Writing, CallRow
<1> QED
  BY <1>1 DEF CallFits

\* A step that leaves the device tokens alone and whose request registers none.
LEMMA DevicesKept ==
    ASSUME CampaignBase, DeviceInv, NEW c \in CampaignCall, NEW r,
           campaignCall' = [campaignCall EXCEPT ![c] = r], r = NoCampaign \/ r.device = NoCampaign,
           UNCHANGED <<pushToken, overlapped>>
    PROVE  DeviceInv'
<1>1. \A b \in CampaignCall, d \in Device : Registers(b, d)' => Registers(b, d)
  BY CampaignAssumption DEF CampaignBase, CampaignTypeOK, Registers
<1>2. \A d : Holders(d)' = Holders(d)
  BY DEF Holders
<1> QED
  BY <1>1, <1>2 DEF DeviceInv

\* A step that changes the requests alone: one of them writes a row.
LEMMA WritesStep ==
    ASSUME CampaignInv, NEW c \in CampaignCall, NEW r, r \in CallRow, CallFits(r), r.device = NoCampaign,
           campaignCall' = [campaignCall EXCEPT ![c] = r], campaignCalls' \in 0 .. MaxCampaignCalls,
           CallEvidence(r, answers), UNCHANGED <<campaign, pushToken, answers, overlapped>>
    PROVE  CampaignInv'
<1>1. CampaignBase'
  BY CallGoes DEF CampaignInv, CampaignBase, CampaignTypeOK, CallRow
<1>2. EvidenceInv'
  BY CallGoes DEF CampaignInv, EvidenceInv
<1>3. DeviceInv'
  BY DevicesKept DEF CampaignInv
<1> QED
  BY <1>1, <1>2, <1>3 DEF CampaignInv

LEMMA CampaignThrown ==
    ASSUME CampaignInv, NEW c \in CampaignCall, campaignCall' = [campaignCall EXCEPT ![c] = NoCampaign],
           UNCHANGED <<campaignCalls, campaign, pushToken, answers, overlapped>>
    PROVE  CampaignInv'
<1>1. CampaignBase'
  BY CallGoes DEF CampaignInv, CampaignBase, CampaignTypeOK, CallRow
<1>2. EvidenceInv'
  BY CallGoes DEF CampaignInv, EvidenceInv
<1>3. DeviceInv'
  BY DevicesKept DEF CampaignInv
<1> QED
  BY <1>1, <1>2, <1>3 DEF CampaignInv

\* Several rows of devices go, and a request may go on.
HoldersShrink == \A d \in Device : Holders(d)' \subseteq Holders(d)

LEMMA HoldersAreFinite == \A d : IsFiniteSet(Holders(d)) /\ Cardinality(Holders(d)) \in Nat
  BY CampaignAssumption, FS_Subset, FS_CardinalityType DEF Holders

LEMMA FewerHolders ==
    ASSUME DeviceInv, HoldersShrink, overlapped' = overlapped,
           \A b \in CampaignCall, d \in Device : Registers(b, d)' => Registers(b, d)
    PROVE  DeviceInv'
<1> SUFFICES ASSUME NEW d \in Device \ overlapped
             PROVE  /\ Cardinality(Holders(d)') <= 1
                    /\ \A c \in CampaignCall : Registers(c, d)' => Holders(d)' = {}
                    /\ \A b, c \in CampaignCall : Registers(b, d)' /\ Registers(c, d)' => b = c
  BY DEF DeviceInv
<1>1. Holders(d)' \subseteq Holders(d)
  BY DEF HoldersShrink
<1>2. Cardinality(Holders(d)') <= Cardinality(Holders(d)) /\ Cardinality(Holders(d)') \in Nat
  BY <1>1, HoldersAreFinite, FS_Subset, FS_CardinalityType
<1> QED
  BY <1>1, <1>2, HoldersAreFinite DEF DeviceInv

LEMMA CampaignInvInit == CampaignInit => CampaignInv
<1> SUFFICES ASSUME CampaignInit PROVE CampaignInv
  OBVIOUS
<1>1. CampaignBase
  BY CampaignAssumption DEF CampaignInit, CampaignBase, CampaignTypeOK
<1>2. EvidenceInv
  BY DEF CampaignInit, EvidenceInv
<1>3. ASSUME NEW d \in Device PROVE Cardinality(Holders(d)) <= 1
  <2>1. Holders(d) = {u \in Subscriber : pushToken[<<u, d>>] = 1}
    BY DEF Holders, CampaignInit
  <2> QED
    BY <2>1 DEF CampaignInit
<1>4. \A c \in CampaignCall, d \in Device : ~Registers(c, d)
  BY DEF CampaignInit, Registers
<1>5. DeviceInv
  BY <1>3, <1>4 DEF DeviceInv
<1> QED
  BY <1>1, <1>2, <1>5 DEF CampaignInv

LEMMA CampaignRowAt ==
    ASSUME CampaignInv, NEW n \in Campaign, campaign[n] # NoCampaign
    PROVE  campaign[n] \in CampaignRow /\ Evidence(campaign[n], answers[n])
  BY DEF CampaignInv, CampaignBase, CampaignTypeOK, EvidenceInv

\* A step that replaces the row of a campaign, and ends a request or none.
LEMMA RowReplaced ==
    ASSUME CampaignInv, NEW n \in Campaign, NEW row \in CampaignRow, Evidence(row, answers[n]),
           campaign' = [campaign EXCEPT ![n] = row], UNCHANGED <<pushToken, answers, overlapped>>,
           \/ UNCHANGED <<campaignCall, campaignCalls>>
           \/ /\ UNCHANGED campaignCalls
              /\ \E c \in CampaignCall : campaignCall' = [campaignCall EXCEPT ![c] = NoCampaign]
    PROVE  CampaignInv'
<1>1. /\ campaignCall' \in [CampaignCall -> CallRow \cup {NoCampaign}]
      /\ \A d \in CampaignCall : campaignCall'[d] # NoCampaign => campaignCall'[d] = campaignCall[d]
  BY DEF CampaignInv, CampaignBase, CampaignTypeOK, CallRow
<1>2. CampaignBase'
  BY <1>1 DEF CampaignInv, CampaignBase, CampaignTypeOK, CallRow
<1>3. EvidenceInv'
  BY <1>1 DEF CampaignInv, CampaignBase, CampaignTypeOK, EvidenceInv
<1>4. \A b \in CampaignCall, d \in Device : Registers(b, d)' => Registers(b, d)
  BY <1>1 DEF Registers
<1>5. HoldersShrink
  BY DEF HoldersShrink, Holders
<1>6. DeviceInv'
  BY <1>4, <1>5, FewerHolders DEF CampaignInv
<1> QED
  BY <1>2, <1>3, <1>6 DEF CampaignInv

LEMMA EditedFits ==
    ASSUME NEW row \in CampaignRow, NEW answer, Evidence(row, answer), NEW new \in EditedCampaign(row)
    PROVE  new \in CampaignRow /\ Evidence(new, answer)
<1>1. CASE \E audience \in SUBSET Subscriber : new = [row EXCEPT !.audience = audience]
  <2> PICK audience \in SUBSET Subscriber : new = [row EXCEPT !.audience = audience]
    BY <1>1
  <2>1. new \in CampaignRow /\ new.status = row.status /\ new.accepted = row.accepted /\ new.rejected = row.rejected
    BY DEF CampaignRow
  <2> QED
    BY <2>1 DEF Evidence
<1>2. CASE new = [row EXCEPT !.push = ~row.push]
  <2>1. new \in CampaignRow /\ new.status = row.status /\ new.accepted = row.accepted /\ new.rejected = row.rejected
    BY <1>2 DEF CampaignRow
  <2> QED
    BY <2>1 DEF Evidence
<1>3. CASE \E status \in {"draft", "scheduled", "sent", "cancelled", "failed"} : new = [row EXCEPT !.status = status]
  <2> PICK status \in {"draft", "scheduled", "sent", "cancelled", "failed"} : new = [row EXCEPT !.status = status]
    BY <1>3
  <2>1. new \in CampaignRow /\ new.status = status
    BY DEF CampaignRow, CampaignStatus
  <2> QED
    BY <2>1 DEF Evidence
<1> QED
  BY <1>1, <1>2, <1>3 DEF EditedCampaign

LEMMA DispatchStep == ASSUME CampaignInv, NEW c \in CampaignCall, NEW accepted \in Figure, Dispatch(c, accepted)
                      PROVE  CampaignInv'
<1> DEFINE call == campaignCall[c]
           n == call.on
           row == call.row
           tokens == Tokens(row)
           unsent == [row EXCEPT !.status = "delivery_unavailable", !.accepted = 0, !.rejected = 0]
           sent == [row EXCEPT !.status = Outcome(tokens, accepted),
                               !.accepted = accepted, !.rejected = tokens - accepted]
<1>1. n \in Campaign /\ row \in CampaignRow /\ call \in CallRow
  BY CampaignAt DEF Dispatch, CampaignInv, CallFits
<1>2. tokens \in Figure /\ 0 \in Figure
  BY TokensFit, FigureFits
<1>3. CASE ~row.push
  <2>1. unsent \in CampaignRow /\ unsent.status = "delivery_unavailable"
    BY <1>1, <1>2 DEF CampaignRow, CampaignStatus
  <2>2. campaignCall' = [campaignCall EXCEPT ![c] = Writing(n, unsent)]
        /\ UNCHANGED <<answers, campaignCalls, campaign, pushToken, overlapped>>
    BY <1>3 DEF Dispatch, CallGoesOn
  <2> HIDE DEF unsent, n, row
  <2>3. CallEvidence(Writing(n, unsent), answers)
    BY <1>1, <2>1, WritingFits DEF CallEvidence, Evidence
  <2>4. campaignCalls' \in 0 .. MaxCampaignCalls
    BY <2>2 DEF CampaignInv, CampaignBase, CampaignTypeOK
  <2> QED
    BY <1>1, <2>1, <2>2, <2>3, <2>4, WritingFits, WritesStep
<1>4. CASE row.push
  <2>1. /\ accepted <= tokens
        /\ answers' = [answers EXCEPT ![n] = @ \cup {<<accepted, tokens - accepted>>}]
        /\ campaignCall' = [campaignCall EXCEPT ![c] = Writing(n, sent)]
        /\ UNCHANGED <<campaignCalls, campaign, pushToken, overlapped>>
    BY <1>4 DEF Dispatch, CallGoesOn
  <2>2. accepted \in Nat /\ tokens \in Nat
    BY <1>2, FigureIsNat
  <2> HIDE DEF tokens
  <2>3. tokens - accepted \in Nat /\ tokens - accepted <= tokens
    BY <2>1, <2>2
  <2>4. tokens - accepted \in Figure
    BY <1>2, <2>2, <2>3, FigureFits
  <2>5. Outcome(tokens, accepted) \in CampaignStatus
    BY DEF Outcome, CampaignStatus
  <2>6. /\ sent \in CampaignRow /\ sent.status = Outcome(tokens, accepted) /\ sent.accepted = accepted
        /\ sent.rejected = tokens - accepted
    BY <1>1, <2>4, <2>5 DEF CampaignRow
  <2> HIDE DEF sent, n, row, call
  <2>7. answers \in [Campaign -> SUBSET (Figure \X Figure)]
    BY DEF CampaignInv, CampaignBase
  <2>8. /\ answers' \in [Campaign -> SUBSET (Figure \X Figure)]
        /\ \A m \in Campaign : answers[m] \subseteq answers'[m]
        /\ <<accepted, tokens - accepted>> \in answers'[n]
    BY <1>1, <2>1, <2>4, <2>7
  <2>9. Evidence(sent, answers'[n])
    BY <2>1, <2>2, <2>6, <2>8 DEF Evidence, Outcome
  <2>10. Writing(n, sent) \in CallRow /\ CallFits(Writing(n, sent)) /\ Writing(n, sent).device = NoCampaign
         /\ Writing(n, sent).on = n /\ Writing(n, sent).row = sent
    BY <1>1, <2>6, WritingFits
  <2>11. /\ campaignCall' \in [CampaignCall -> CallRow \cup {NoCampaign}]
         /\ \A d \in CampaignCall : campaignCall'[d] # NoCampaign => CallFits(campaignCall'[d])
         /\ campaignCall'[c] = Writing(n, sent)
         /\ \A d \in CampaignCall : d # c => campaignCall'[d] = campaignCall[d]
    BY <2>1, <2>10, CallGoes DEF CampaignInv
  <2>12. CampaignBase'
    BY <2>1, <2>8, <2>11 DEF CampaignInv, CampaignBase, CampaignTypeOK, CallRow
  <2>13. \A m \in Campaign : \A any : Evidence(any, answers[m]) => Evidence(any, answers'[m])
    BY <2>8 DEF Evidence
  <2>14. EvidenceInv'
    <3>1. \A m \in Campaign : campaign'[m] # NoCampaign => Evidence(campaign'[m], answers'[m])
      BY <2>1, <2>13 DEF CampaignInv, EvidenceInv
    <3>2. ASSUME NEW d \in CampaignCall, campaignCall'[d] # NoCampaign
          PROVE  CallEvidence(campaignCall'[d], answers')
      <4>1. CASE d = c
        BY <2>9, <2>10, <2>11, <4>1 DEF CallEvidence
      <4>2. CASE d # c
        <5>1. campaignCall'[d] = campaignCall[d] /\ CallEvidence(campaignCall[d], answers)
              /\ CallFits(campaignCall[d])
          BY <2>11, <3>2, <4>2 DEF CampaignInv, EvidenceInv, CampaignBase
        <5> QED
          BY <2>13, <5>1 DEF CallEvidence, CallFits
      <4> QED
        BY <4>1, <4>2
    <3> QED
      BY <3>1, <3>2 DEF EvidenceInv
  <2>15. DeviceInv'
    BY <2>1, <2>10, DevicesKept DEF CampaignInv
  <2> QED
    BY <2>12, <2>14, <2>15 DEF CampaignInv
<1> QED
  BY <1>1, <1>3, <1>4 DEF CampaignRow

\* The record of a registration.
Registering(u, d, pc) == [Writing(NoCampaign, NoCampaign) EXCEPT !.pc = pc, !.user = u, !.device = d]

LEMMA RegisterStep ==
    ASSUME CampaignInv, NEW c \in CampaignCall, NEW u \in Subscriber, NEW d \in Device, Register(c, u, d)
    PROVE  CampaignInv'
<1> DEFINE r == Registering(u, d, "register")
<1>1. r \in CallRow /\ r.pc = "register" /\ r.user = u /\ r.device = d
  BY DEF Registering, Writing, CallRow
<1>2. /\ campaignCall' = [campaignCall EXCEPT ![c] = r]
      /\ campaignCall[c] = NoCampaign
      /\ pushToken' = [pair \in Subscriber \X Device |-> IF pair[2] = d THEN 0 ELSE pushToken[pair]]
      /\ overlapped' = overlapped \cup
           {e \in {d} : \E b \in CampaignCall \ {c} :
               campaignCall[b] # NoCampaign /\ campaignCall[b].device = e}
      /\ UNCHANGED <<campaign, answers>>
  BY DEF Register, StartsCall, Registering
<1>9. campaignCalls' \in 0 .. MaxCampaignCalls
  BY CampaignAssumption DEF Register, StartsCall, CampaignInv, CampaignBase, CampaignTypeOK
<1> HIDE DEF r
<1>3. CallFits(r)
  BY <1>1 DEF CallFits
<1>4. /\ campaignCall' \in [CampaignCall -> CallRow \cup {NoCampaign}]
      /\ \A b \in CampaignCall : campaignCall'[b] # NoCampaign => CallFits(campaignCall'[b])
      /\ campaignCall'[c] = r
      /\ \A b \in CampaignCall : b # c => campaignCall'[b] = campaignCall[b]
  BY <1>1, <1>2, <1>3, CallGoes DEF CampaignInv
<1>5. /\ pushToken \in [Subscriber \X Device -> 0 .. 2] /\ pushToken' \in [Subscriber \X Device -> 0 .. 2]
      /\ overlapped \subseteq Device /\ overlapped' \subseteq Device
  BY <1>2 DEF CampaignInv, CampaignBase, CampaignTypeOK
<1>6. CampaignBase'
  BY <1>2, <1>4, <1>5, <1>9 DEF CampaignInv, CampaignBase, CampaignTypeOK, CallRow
<1>7. EvidenceInv'
  BY <1>1, <1>2, <1>4 DEF CampaignInv, EvidenceInv, CallEvidence
<1>8. DeviceInv'
  <2> SUFFICES ASSUME NEW e \in Device \ overlapped'
               PROVE  /\ Cardinality(Holders(e)') <= 1
                      /\ \A b \in CampaignCall : Registers(b, e)' => Holders(e)' = {}
                      /\ \A a, b \in CampaignCall : Registers(a, e)' /\ Registers(b, e)' => a = b
    BY DEF DeviceInv
  <2>1. e \in Device \ overlapped
    BY <1>2
  <2>2. /\ Cardinality(Holders(e)) <= 1
        /\ \A b \in CampaignCall : Registers(b, e) => Holders(e) = {}
        /\ \A a, b \in CampaignCall : Registers(a, e) /\ Registers(b, e) => a = b
    BY <2>1 DEF CampaignInv, DeviceInv
  <2>3. \A pair \in Subscriber \X Device : pushToken'[pair] = IF pair[2] = d THEN 0 ELSE pushToken[pair]
    BY <1>2
  <2>4. CASE e = d
    <3>1. Holders(e)' = {}
      BY <2>3, <2>4 DEF Holders
    <3>2. \A b \in CampaignCall : b # c => ~Registers(b, e)'
      BY <1>2, <1>4, <2>4 DEF Registers
    <3>3. Cardinality(Holders(e)') = 0
      BY <3>1, FS_EmptySet
    <3> QED
      BY <3>1, <3>2, <3>3
  <2>5. CASE e # d
    <3>1. Holders(e)' = Holders(e)
      BY <2>3, <2>5 DEF Holders
    <3>2. \A b \in CampaignCall : Registers(b, e)' => Registers(b, e)
      BY <1>1, <1>4, <2>5 DEF Registers
    <3> QED
      BY <2>2, <3>1, <3>2
  <2> QED
    BY <2>4, <2>5
<1> QED
  BY <1>6, <1>7, <1>8 DEF CampaignInv

LEMMA DropFormerStep == ASSUME CampaignInv, NEW c \in CampaignCall, DropFormer(c) PROVE CampaignInv'
<1> DEFINE call == campaignCall[c]
           r == [call EXCEPT !.pc = "insert"]
<1>1. call \in CallRow /\ CallFits(call) /\ call.pc = "register" /\ call # NoCampaign
  BY CampaignAt DEF DropFormer, CampaignInv
<1>2. r \in CallRow /\ r.pc = "insert" /\ r.user = call.user /\ r.device = call.device
  BY <1>1 DEF CallRow
<1>3. /\ campaignCall' = [campaignCall EXCEPT ![c] = r]
      /\ pushToken' = [pair \in Subscriber \X Device |-> IF pair[1] = call.user THEN 0 ELSE pushToken[pair]]
      /\ UNCHANGED <<campaign, answers, overlapped, campaignCalls>>
  BY DEF DropFormer, CallGoesOn
<1> HIDE DEF r
<1>4. CallFits(r)
  BY <1>1, <1>2 DEF CallFits
<1>5. /\ campaignCall' \in [CampaignCall -> CallRow \cup {NoCampaign}]
      /\ \A b \in CampaignCall : campaignCall'[b] # NoCampaign => CallFits(campaignCall'[b])
      /\ campaignCall'[c] = r
      /\ \A b \in CampaignCall : b # c => campaignCall'[b] = campaignCall[b]
  BY <1>2, <1>3, <1>4, CallGoes DEF CampaignInv
<1>6. pushToken' \in [Subscriber \X Device -> 0 .. 2]
  BY <1>3 DEF CampaignInv, CampaignBase, CampaignTypeOK
<1>7. CampaignBase'
  BY <1>3, <1>5, <1>6 DEF CampaignInv, CampaignBase, CampaignTypeOK, CallRow
<1>8. EvidenceInv'
  BY <1>2, <1>3, <1>5 DEF CampaignInv, EvidenceInv, CallEvidence
<1>9. HoldersShrink
  BY <1>3 DEF HoldersShrink, Holders
<1>10. \A b \in CampaignCall, d \in Device : Registers(b, d)' => Registers(b, d)
  BY <1>1, <1>2, <1>5 DEF Registers
<1>11. DeviceInv'
  BY <1>3, <1>9, <1>10, FewerHolders DEF CampaignInv
<1> QED
  BY <1>7, <1>8, <1>11 DEF CampaignInv

LEMMA InsertStep == ASSUME CampaignInv, NEW c \in CampaignCall, Insert(c) PROVE CampaignInv'
<1> DEFINE call == campaignCall[c]
           u == call.user
           d == call.device
<1>1. call \in CallRow /\ call # NoCampaign /\ u \in Subscriber /\ d \in Device
  BY CampaignAt DEF Insert, CampaignInv, CallFits
<1>2. /\ campaignCall' = [campaignCall EXCEPT ![c] = NoCampaign]
      /\ pushToken' = [pushToken EXCEPT ![<<u, d>>] = IF @ < 2 THEN @ + 1 ELSE @]
      /\ UNCHANGED <<campaign, answers, overlapped, campaignCalls>>
  BY DEF Insert, CallGoesOn
<1>3. Registers(c, d)
  BY <1>1 DEF Registers
<1> HIDE DEF call, u, d
<1>4. /\ campaignCall' \in [CampaignCall -> CallRow \cup {NoCampaign}]
      /\ \A b \in CampaignCall : campaignCall'[b] # NoCampaign => CallFits(campaignCall'[b])
      /\ campaignCall'[c] = NoCampaign
      /\ \A b \in CampaignCall : b # c => campaignCall'[b] = campaignCall[b]
  BY <1>2, CallGoes DEF CampaignInv
<1>5. pushToken \in [Subscriber \X Device -> 0 .. 2] /\ pushToken' \in [Subscriber \X Device -> 0 .. 2]
  BY <1>1, <1>2 DEF CampaignInv, CampaignBase, CampaignTypeOK
<1>6. CampaignBase'
  BY <1>2, <1>4, <1>5 DEF CampaignInv, CampaignBase, CampaignTypeOK, CallRow
<1>7. EvidenceInv'
  BY <1>2, <1>4 DEF CampaignInv, EvidenceInv
<1>8. \A b \in CampaignCall, e \in Device : Registers(b, e)' => b # c /\ Registers(b, e)
  BY <1>4 DEF Registers
<1>9. DeviceInv'
  <2> SUFFICES ASSUME NEW e \in Device \ overlapped
               PROVE  /\ Cardinality(Holders(e)') <= 1
                      /\ \A b \in CampaignCall : Registers(b, e)' => Holders(e)' = {}
                      /\ \A a, b \in CampaignCall : Registers(a, e)' /\ Registers(b, e)' => a = b
    BY <1>2 DEF DeviceInv
  <2>1. /\ Cardinality(Holders(e)) <= 1
        /\ \A b \in CampaignCall : Registers(b, e) => Holders(e) = {}
        /\ \A a, b \in CampaignCall : Registers(a, e) /\ Registers(b, e) => a = b
    BY DEF CampaignInv, DeviceInv
  <2>2. CASE e = d
    <3>1. Holders(e) = {} /\ \A b \in CampaignCall : ~Registers(b, e)'
      BY <1>3, <1>8, <2>1, <2>2
    <3>2. Holders(e)' \subseteq {u}
      <4>1. \A x \in Subscriber : x # u => pushToken'[<<x, e>>] = pushToken[<<x, e>>]
        BY <1>2, <1>5
      <4> QED
        BY <3>1, <4>1 DEF Holders
    <3>3. IsFiniteSet({u}) /\ Cardinality({u}) = 1
      BY FS_Singleton
    <3>4. Cardinality(Holders(e)') <= 1
      BY <3>2, <3>3, FS_Subset
    <3> QED
      BY <3>1, <3>4
  <2>3. CASE e # d
    <3>1. \A x \in Subscriber : pushToken'[<<x, e>>] = pushToken[<<x, e>>]
      BY <1>2, <1>5, <2>3
    <3>2. Holders(e)' = Holders(e)
      BY <3>1 DEF Holders
    <3> QED
      BY <1>8, <2>1, <3>2
  <2> QED
    BY <2>2, <2>3
<1> QED
  BY <1>6, <1>7, <1>9 DEF CampaignInv

LEMMA UnregisterStep ==
    ASSUME CampaignInv, NEW u \in Subscriber, NEW devices \in SUBSET Device, Unregister(u, devices)
    PROVE  CampaignInv'
<1>1. /\ pushToken' = [pair \in Subscriber \X Device |->
                         IF pair[1] = u /\ pair[2] \in devices THEN 0 ELSE pushToken[pair]]
      /\ UNCHANGED <<campaign, campaignCall, campaignCalls, answers, overlapped>>
  BY DEF Unregister
<1>2. CampaignBase'
  BY <1>1 DEF CampaignInv, CampaignBase, CampaignTypeOK
<1>3. EvidenceInv'
  BY <1>1 DEF CampaignInv, EvidenceInv
<1>4. HoldersShrink
  BY <1>1 DEF HoldersShrink, Holders
<1>5. DeviceInv'
  BY <1>1, <1>4, FewerHolders DEF CampaignInv, Registers
<1> QED
  BY <1>2, <1>3, <1>5 DEF CampaignInv

LEMMA CampaignInvStep == CampaignInv /\ [CampaignNext]_campaignVars => CampaignInv'
<1> SUFFICES ASSUME CampaignInv, [CampaignNext]_campaignVars PROVE CampaignInv'
  OBVIOUS
<1>1. ASSUME NEW n \in Campaign, NEW push \in BOOLEAN, NEW audience \in SUBSET Subscriber,
             CreateCampaign(n, push, audience)
      PROVE  CampaignInv'
  <2> DEFINE row == [status |-> "draft", push |-> push, audience |-> audience, accepted |-> 0, rejected |-> 0]
  <2>1. row \in CampaignRow /\ row.status = "draft"
    BY FigureFits DEF CampaignRow, CampaignStatus
  <2>2. campaign' = [campaign EXCEPT ![n] = row]
        /\ UNCHANGED <<pushToken, answers, overlapped, campaignCall, campaignCalls>>
    BY <1>1 DEF CreateCampaign
  <2> HIDE DEF row
  <2> QED
    BY <2>1, <2>2, RowReplaced DEF Evidence
<1>2. ASSUME NEW n \in Campaign, NEW copy \in Campaign, DuplicateCampaign(n, copy) PROVE CampaignInv'
  <2>1. campaign[n] \in CampaignRow
    BY <1>2, CampaignRowAt DEF DuplicateCampaign
  <2>2. Copied(campaign[n]) \in CampaignRow /\ Copied(campaign[n]).status = "draft"
    BY <2>1, FigureFits DEF Copied, CampaignRow, CampaignStatus
  <2>3. campaign' = [campaign EXCEPT ![copy] = Copied(campaign[n])]
        /\ UNCHANGED <<pushToken, answers, overlapped, campaignCall, campaignCalls>>
    BY <1>2 DEF DuplicateCampaign
  <2> QED
    BY <2>2, <2>3, RowReplaced DEF Evidence
<1>3. ASSUME NEW c \in CampaignCall, NEW n \in Campaign, Edit(c, n) PROVE CampaignInv'
  <2> PICK row \in EditedCampaign(campaign[n]) : StartsCall(c, Writing(n, row))
    BY <1>3 DEF Edit
  <2>1. row \in CampaignRow /\ Evidence(row, answers[n])
    BY <1>3, CampaignRowAt, EditedFits DEF Edit
  <2>2. CallEvidence(Writing(n, row), answers)
    BY <2>1, WritingFits DEF CallEvidence
  <2>3. campaignCall' = [campaignCall EXCEPT ![c] = Writing(n, row)] /\ campaignCalls' \in 0 .. MaxCampaignCalls
    BY CampaignAssumption DEF StartsCall, CampaignInv, CampaignBase, CampaignTypeOK
  <2> QED
    BY <1>3, <2>1, <2>2, <2>3, WritingFits, WritesStep DEF Edit
<1>4. ASSUME NEW c \in CampaignCall, NEW n \in Campaign, Send(c, n) PROVE CampaignInv'
  <2> DEFINE row == campaign[n]
             r == [Writing(n, row) EXCEPT !.pc = "send"]
  <2>1. row \in CampaignRow /\ Evidence(row, answers[n])
    BY <1>4, CampaignRowAt DEF Send
  <2>2. r \in CallRow /\ r.device = NoCampaign /\ r.pc = "send" /\ r.on = n /\ r.row = row
    BY <2>1 DEF Writing, CallRow
  <2>3. campaignCall' = [campaignCall EXCEPT ![c] = r] /\ campaignCalls' \in 0 .. MaxCampaignCalls
        /\ UNCHANGED <<campaign, pushToken, answers, overlapped>>
    BY <1>4, CampaignAssumption DEF Send, StartsCall, CampaignInv, CampaignBase, CampaignTypeOK
  <2> HIDE DEF r, row
  <2>4. CallFits(r) /\ CallEvidence(r, answers)
    BY <2>1, <2>2 DEF CallFits, CallEvidence
  <2> QED
    BY <2>2, <2>3, <2>4, WritesStep
<1>5. ASSUME NEW c \in CampaignCall, SaveCampaign(c) PROVE CampaignInv'
  <2>1. /\ campaignCall[c] \in CallRow /\ CallFits(campaignCall[c]) /\ campaignCall[c].pc = "save"
        /\ campaignCall[c] # NoCampaign
    BY <1>5, CampaignAt DEF SaveCampaign, CampaignInv
  <2>2. /\ campaignCall[c].on \in Campaign /\ campaignCall[c].row \in CampaignRow
        /\ Evidence(campaignCall[c].row, answers[campaignCall[c].on])
    BY <2>1 DEF CallFits, CampaignInv, EvidenceInv, CallEvidence
  <2> QED
    BY <1>5, <2>2, RowReplaced DEF SaveCampaign, CallGoesOn
<1>6. ASSUME NEW c \in CampaignCall, CampaignThrows(c) PROVE CampaignInv'
  BY <1>6, CampaignThrown DEF CampaignThrows, CallGoesOn
<1>7. CASE UNCHANGED campaignVars
  <2>1. /\ campaign' = campaign /\ pushToken' = pushToken /\ campaignCall' = campaignCall
        /\ campaignCalls' = campaignCalls /\ answers' = answers /\ overlapped' = overlapped
    BY <1>7 DEF campaignVars
  <2>2. CampaignTypeOK'
    BY <2>1 DEF CampaignInv, CampaignBase, CampaignTypeOK
  <2>3. CampaignBase'
    BY <2>1, <2>2 DEF CampaignInv, CampaignBase
  <2>4. EvidenceInv'
    BY <2>1 DEF CampaignInv, EvidenceInv
  <2>5. HoldersShrink /\ \A b \in CampaignCall, d \in Device : Registers(b, d)' => Registers(b, d)
    BY <2>1 DEF HoldersShrink, Holders, Registers
  <2>6. DeviceInv'
    BY <2>1, <2>5, FewerHolders DEF CampaignInv
  <2> QED
    BY <2>3, <2>4, <2>6 DEF CampaignInv
<1> QED
  BY <1>1, <1>2, <1>3, <1>4, <1>5, <1>6, <1>7, DispatchStep, RegisterStep, DropFormerStep, InsertStep,
     UnregisterStep
     DEF CampaignNext

LEMMA CampaignInvShows == CampaignInv => CampaignTypeOK /\ DeliveryHasEvidence /\ DeviceHasOneAccount
<1>1. CampaignInv => CampaignTypeOK
  BY DEF CampaignInv, CampaignBase
<1>2. CampaignInv => DeliveryHasEvidence
  BY DEF CampaignInv, EvidenceInv, Evidence, DeliveryHasEvidence
<1>3. CampaignInv => DeviceHasOneAccount
  BY DEF CampaignInv, DeviceInv, Holders, DeviceHasOneAccount
<1> QED
  BY <1>1, <1>2, <1>3

-------------------------------------------------------------------------------
(* Identities                                                                  *)

\* A request has what its step works on.
Ready(r) ==
    /\ r.step = "known" => r.seen \in IdentityRow
    /\ r.step \in {"known", "match"} => r.email \in Address \cup {NoOne}
    /\ r.step = "create" => r.email \in Address \cup {r.subject}
    /\ r.step \in {"known", "match", "create", "reuse", "stamp", "avatar", "adopt", "persist", "delete"}
         => r.subject \in Subject
    /\ r.step \in {"known", "match", "create", "reuse", "avatar", "adopt"} => r.kind = "sign-in"
    /\ r.step \in {"match", "create", "reuse", "persist"} => r.seen = NoOne
    /\ r.step = "stamp" => r.kind \in {"sign-in", "link"} /\ r.seen \in IdentityRow
    /\ r.step = "persist" => r.kind \in {"sign-in", "link"}
    /\ r.step \in {"stamp", "avatar", "adopt", "persist", "delete", "staging", "save", "clear"}
         => r.user \in Account
    /\ r.step \in {"adopt", "staging", "save", "clear"} <=> r.copy # NoOne
    /\ r.step \in {"staging", "save", "clear"} => r.kind # "sign-in"
    /\ r.step = "staging" => r.kind = "request" /\ r.email \in Address
    /\ r.step = "save" /\ r.kind = "verify" => r.copy.code \in Address
    /\ r.step = "save" /\ r.kind = "confirm" => r.copy.pending \in Address

\* An address that counts as verified was proven; before that, a code can have
\* gone there only. The reserved address of a subject is its account's.
RowIsProven(row, shown, whose) ==
    /\ row.verified /\ row.email \in Address => row.email \in shown
    /\ ~row.verified => row.code \in {NoOne, row.email}
    /\ row.email \in Subject => whose = row.email
    /\ whose # "never"

JoinIsProven(s, i, shown, whose) ==
    i.by = "sign-in" /\ whose[i.owner] # s => FoundUnder(i.through, shown[i.owner])

\* A sign-in joins the account made for its subject, or one that has proven an
\* address its email finds.
JoinsItsOwn(r, shown, whose) ==
    r.kind = "sign-in" /\ r.seen = NoOne /\ r.step \in {"avatar", "adopt", "persist"} =>
         \/ whose[r.user] = r.subject
         \/ FoundUnder(r.email, shown[r.user])

CallIsProven(r, shown, whose) ==
    /\ r.copy # NoOne => RowIsProven(r.copy, shown[r.user], whose[r.user])
    /\ r.seen # NoOne => r.subject \in Subject /\ JoinIsProven(r.subject, r.seen, shown, whose)
    /\ JoinsItsOwn(r, shown, whose)

\* A request that has missed nothing holds the row as it is, but for what it is
\* about to change.
Holds(r, rows) ==
    r.copy # NoOne =>
        /\ rows[r.user] # NoOne
        /\ r.copy.verified <=> rows[r.user].verified
        /\ r.copy.password <=> rows[r.user].password
Leaves(r) ==
    r.step = "delete" => LeavesAMethod(r.user, SocialProvider(r.subject))

CallIsGood(r) ==
    /\ r \in IdentityRequest /\ Ready(r)
    /\ CallIsProven(r, proven, everMade)
    /\ ~r.missed => Holds(r, account) /\ Leaves(r)

RowsAreProven ==
    \A a \in Account : account[a] # NoOne => RowIsProven(account[a], proven[a], everMade[a])
JoinsAreProven ==
    \A s \in Subject : joined[s] # NoOne => JoinIsProven(s, joined[s], proven, everMade)

IdentityInv ==
    /\ IdentityTypeOK /\ RowsAreProven /\ JoinsAreProven
    /\ \A c \in IdentityCall : CallIsGood(identityCall[c])

LEMMA NamesApart ==
    /\ \A a \in Address : a \notin Subject
    /\ NoOne \notin Account \cup Address \cup Subject
    /\ "never" \notin Subject /\ "signup" \notin Subject
  BY IdentityAssumption DEF Subject

LEMMA ProviderIs == \A s \in Subject : SocialProvider(s) \in {"google", "apple"}
  BY DEF SocialProvider

-----------------------------------------------------------------------------
(* What a step leaves.                                                       *)

\* A request as it was, but that it may have missed a write.
Kin(r, q) ==
    /\ q.kind = r.kind /\ q.step = r.step /\ q.user = r.user /\ q.subject = r.subject
    /\ q.email = r.email /\ q.seen = r.seen /\ q.copy = r.copy
    /\ ~q.missed => ~r.missed

Late(r, wrote) == [r EXCEPT !.missed = @ \/ (wrote /\ ~(r.step = "away"))]

LEMMA LateIsKin ==
    ASSUME NEW r \in IdentityRequest, NEW wrote \in BOOLEAN
    PROVE  /\ Late(r, wrote) \in IdentityRequest /\ Kin(r, Late(r, wrote))
           /\ ~Late(r, wrote).missed /\ wrote => r.step = "away"
<1>1. r.missed \in BOOLEAN
  BY DEF IdentityRequest
<1>2. /\ Late(r, wrote).missed \in BOOLEAN
      /\ Late(r, wrote).missed <=> (r.missed \/ (wrote /\ ~(r.step = "away")))
  BY <1>1 DEF IdentityRequest, Late
<1>3. /\ Late(r, wrote) = [kind |-> r.kind, step |-> r.step, user |-> r.user, subject |-> r.subject,
                           email |-> r.email, trusted |-> r.trusted, seen |-> r.seen, copy |-> r.copy,
                           missed |-> Late(r, wrote).missed]
  BY DEF IdentityRequest, Late
<1>4. Late(r, wrote) \in IdentityRequest
  BY <1>2, <1>3 DEF IdentityRequest
<1>5. Kin(r, Late(r, wrote))
  BY <1>2, <1>3 DEF Kin
<1> QED
  BY <1>2, <1>4, <1>5

LEMMA KinReady == ASSUME NEW r, NEW q, Kin(r, q), Ready(r) PROVE Ready(q)
  BY DEF Kin, Ready

\* The proofs grow: a mailbox shown stays shown, an account keeps its subject.
ProofsGrow ==
    \A a \in Account : /\ proven[a] \subseteq proven'[a]
                       /\ everMade[a] # "never" => everMade'[a] = everMade[a]

LEMMA RowStaysProven ==
    ASSUME ProofsGrow, NEW a \in Account, NEW row, RowIsProven(row, proven[a], everMade[a])
    PROVE  RowIsProven(row, proven'[a], everMade'[a])
  BY DEF ProofsGrow, RowIsProven

\* What is found under an address is found when more was shown.
LEMMA FoundStays ==
    ASSUME NEW e, NEW less, NEW more, less \subseteq more, FoundUnder(e, less)
    PROVE  FoundUnder(e, more)
  BY DEF FoundUnder

LEMMA JoinStaysProven ==
    ASSUME ProofsGrow, NEW s \in Subject, NEW i \in IdentityRow, JoinIsProven(s, i, proven, everMade)
    PROVE  JoinIsProven(s, i, proven', everMade')
<1>1. i.owner \in Account
  BY DEF IdentityRow
<1>2. proven[i.owner] \subseteq proven'[i.owner]
      /\ (everMade[i.owner] # "never" => everMade'[i.owner] = everMade[i.owner])
  BY <1>1 DEF ProofsGrow
<1> QED
  BY <1>2, NamesApart, FoundStays DEF JoinIsProven

LEMMA CallStaysProven ==
    ASSUME ProofsGrow, NEW r \in IdentityRequest, Ready(r), CallIsProven(r, proven, everMade),
           NEW q, Kin(r, q)
    PROVE  CallIsProven(q, proven', everMade')
<1>1. q.copy # NoOne => RowIsProven(q.copy, proven'[q.user], everMade'[q.user])
  <2> SUFFICES ASSUME q.copy # NoOne PROVE RowIsProven(q.copy, proven'[q.user], everMade'[q.user])
    OBVIOUS
  <2>1. r.user \in Account /\ q.user = r.user /\ q.copy = r.copy
    BY DEF Kin, Ready
  <2>2. RowIsProven(r.copy, proven[r.user], everMade[r.user])
    BY <2>1 DEF CallIsProven
  <2> QED
    BY <2>1, <2>2, RowStaysProven
<1>2. q.seen # NoOne => q.subject \in Subject /\ JoinIsProven(q.subject, q.seen, proven', everMade')
  <2> SUFFICES ASSUME q.seen # NoOne
               PROVE  q.subject \in Subject /\ JoinIsProven(q.subject, q.seen, proven', everMade')
    OBVIOUS
  <2>1. q.subject = r.subject /\ q.seen = r.seen
    BY DEF Kin
  <2>2. r.seen \in IdentityRow
    BY <2>1 DEF IdentityRequest
  <2>3. r.subject \in Subject /\ JoinIsProven(r.subject, r.seen, proven, everMade)
    BY <2>1 DEF CallIsProven
  <2> QED
    BY <2>1, <2>2, <2>3, JoinStaysProven
<1>3. JoinsItsOwn(q, proven', everMade')
  <2> SUFFICES ASSUME q.kind = "sign-in", q.seen = NoOne, q.step \in {"avatar", "adopt", "persist"}
               PROVE  \/ everMade'[q.user] = q.subject
                      \/ FoundUnder(q.email, proven'[q.user])
    BY DEF JoinsItsOwn
  <2>1. r.user \in Account /\ r.subject \in Subject
        /\ q.user = r.user /\ q.subject = r.subject /\ q.email = r.email
    BY DEF Kin, Ready
  <2>2. \/ everMade[r.user] = r.subject
        \/ FoundUnder(r.email, proven[r.user])
    BY DEF Kin, CallIsProven, JoinsItsOwn
  <2> QED
    BY <2>1, <2>2, NamesApart, FoundStays DEF ProofsGrow
<1> QED
  BY <1>1, <1>2, <1>3 DEF CallIsProven

\* A request goes on as it was, and misses what is written.
Misses(d, wrote) ==
    /\ identityCall'[d] \in IdentityRequest
    /\ Kin(identityCall[d], identityCall'[d])
    /\ ~identityCall'[d].missed /\ wrote => identityCall[d].step = "away"

OthersMiss(c, wrote) == \A d \in IdentityCall : d # c => Misses(d, wrote)
AllMiss == \A d \in IdentityCall : Misses(d, TRUE)

LEMMA GoOnLeaves ==
    ASSUME IdentityTypeOK, NEW c \in IdentityCall, NEW r \in IdentityRequest, NEW wrote \in BOOLEAN,
           GoOn(c, r, wrote)
    PROVE  OthersMiss(c, wrote) /\ identityCall'[c] = r
           /\ identityCall' \in [IdentityCall -> IdentityRequest]
<1>1. \A d \in IdentityCall : d # c => identityCall'[d] = Late(identityCall[d], wrote)
  BY DEF GoOn, Late, On
<1>2. \A d \in IdentityCall : identityCall[d] \in IdentityRequest
  BY DEF IdentityTypeOK
<1>3. OthersMiss(c, wrote)
  BY <1>1, <1>2, LateIsKin DEF OthersMiss, Misses
<1>4. identityCall'[c] = r
  BY DEF GoOn
<1>5. identityCall' = [d \in IdentityCall |-> identityCall'[d]]
  BY DEF GoOn
<1>6. \A d \in IdentityCall : identityCall'[d] \in IdentityRequest
  BY <1>3, <1>4 DEF OthersMiss, Misses
<1> QED
  BY <1>3, <1>4, <1>5, <1>6

LEMMA KinIsSelf == \A r : Kin(r, r)
  BY DEF Kin

LEMMA ArrivesLeaves ==
    ASSUME IdentityTypeOK, NEW c \in IdentityCall, NEW r \in IdentityRequest, Arrives(c, r)
    PROVE  OthersMiss(c, FALSE) /\ identityCall'[c] = r
           /\ identityCall' \in [IdentityCall -> IdentityRequest]
  BY KinIsSelf DEF Arrives, IdentityTypeOK, OthersMiss, Misses

LEMMA OthersStayGood ==
    ASSUME IdentityInv, ProofsGrow, NEW wrote \in BOOLEAN, NEW d \in IdentityCall, Misses(d, wrote),
           wrote \/ UNCHANGED <<account, joined>>
    PROVE  CallIsGood(identityCall[d])'
<1> DEFINE r == identityCall[d]
           q == identityCall'[d]
<1>1. /\ q \in IdentityRequest /\ Kin(r, q)
      /\ ~q.missed /\ wrote => r.step = "away"
  BY DEF Misses
<1>2. CallIsGood(r)
  BY DEF IdentityInv
<1>3. r \in IdentityRequest /\ Ready(r) /\ CallIsProven(r, proven, everMade)
  BY <1>2 DEF CallIsGood
<1> HIDE DEF r, q
<1>4. Ready(q)
  BY <1>1, <1>3, KinReady
<1>5. CallIsProven(q, proven', everMade')
  BY <1>1, <1>3, CallStaysProven
<1>6. ASSUME ~q.missed PROVE Holds(q, account') /\ Leaves(identityCall[d])'
  <2>1. ~r.missed /\ q.step = r.step /\ q.user = r.user /\ q.subject = r.subject /\ q.copy = r.copy
    BY <1>1, <1>6 DEF Kin
  <2>2. Holds(r, account) /\ Leaves(r)
    BY <1>2, <2>1 DEF CallIsGood
  <2>3. CASE r.step = "away"
    <3>1. q.copy = NoOne
      BY <1>3, <2>1, <2>3 DEF Ready
    <3>2. identityCall'[d].step = "away"
      BY <2>1, <2>3 DEF q
    <3> QED
      BY <3>1, <3>2 DEF Holds, Leaves, q
  <2>4. CASE ~(r.step = "away")
    <3>1. UNCHANGED <<account, joined>>
      BY <1>1, <1>6, <2>4
    <3>2. Holds(q, account')
      BY <3>1, <2>1, <2>2 DEF Holds
    <3>3. Leaves(identityCall[d])'
      BY <3>1, <2>1, <2>2 DEF Leaves, LeavesAMethod, Linked, q, r
    <3> QED
      BY <3>2, <3>3
  <2> QED
    BY <2>3, <2>4
<1> QED
  BY <1>1, <1>4, <1>5, <1>6 DEF CallIsGood, q

LEMMA InvFrom ==
    ASSUME IdentityInv, ProofsGrow, NEW c \in IdentityCall, NEW r, NEW wrote \in BOOLEAN,
           OthersMiss(c, wrote), identityCall'[c] = r,
           wrote \/ UNCHANGED <<account, joined>>,
           IdentityTypeOK', RowsAreProven', JoinsAreProven', CallIsGood(r)'
    PROVE  IdentityInv'
<1>1. CallIsGood(identityCall[c])'
  BY DEF CallIsGood, Leaves
<1> QED
  BY <1>1, OthersStayGood DEF IdentityInv, OthersMiss

LEMMA IdentityInvInit == IdentityInit => IdentityInv
<1> SUFFICES ASSUME IdentityInit PROVE IdentityInv
  OBVIOUS
<1>1. Idle0 \in IdentityRequest
  BY DEF Idle0, IdentityRequest
<1>2. IdentityTypeOK
  BY <1>1, IdentityAssumption DEF IdentityInit, IdentityTypeOK
<1>3. CallIsGood(Idle0)
  BY <1>1 DEF CallIsGood, Idle0, Ready, CallIsProven, JoinsItsOwn, Holds, Leaves
<1> QED
  BY <1>2, <1>3 DEF IdentityInv, IdentityInit, RowsAreProven, JoinsAreProven

LEMMA StillUndoes == ASSUME UNCHANGED <<account, joined>> PROVE LateWriteUndoes
  BY DEF LateWriteUndoes, WayIn, Linked, Exists

\* Steps that only read leave a good request.
LEMMA ReadsStep ==
    ASSUME IdentityInv, NEW c \in IdentityCall, NEW r, CallIsGood(r), Reads(c, r)
    PROVE  IdentityInv'
<1>1. r \in IdentityRequest /\ IdentityTypeOK
  BY DEF CallIsGood, IdentityInv
<1>2. GoOn(c, r, FALSE) /\ UNCHANGED <<account, joined, everMade, proven, begun>>
  BY DEF Reads
<1>3. /\ OthersMiss(c, FALSE) /\ identityCall'[c] = r
      /\ identityCall' \in [IdentityCall -> IdentityRequest]
  BY <1>1, <1>2, GoOnLeaves
<1>4. ProofsGrow /\ RowsAreProven' /\ JoinsAreProven' /\ IdentityTypeOK'
  BY <1>1, <1>2, <1>3 DEF ProofsGrow, IdentityInv, RowsAreProven, JoinsAreProven, IdentityTypeOK
<1>5. CallIsGood(r)'
  BY <1>2 DEF CallIsGood, Leaves, LeavesAMethod, Linked
<1> QED
  BY <1>2, <1>3, <1>4, <1>5, InvFrom

LEMMA ArrivesStep ==
    ASSUME IdentityInv, NEW c \in IdentityCall, NEW r, CallIsGood(r), Arrives(c, r)
    PROVE  IdentityInv'
<1>1. r \in IdentityRequest /\ IdentityTypeOK
  BY DEF CallIsGood, IdentityInv
<1>2. UNCHANGED <<account, joined, everMade, proven>> /\ begun' = begun + 1 /\ begun < MaxBegun
  BY DEF Arrives
<1>3. /\ OthersMiss(c, FALSE) /\ identityCall'[c] = r
      /\ identityCall' \in [IdentityCall -> IdentityRequest]
  BY <1>1, ArrivesLeaves
<1>4. begun' \in 0 .. MaxBegun
  BY <1>1, <1>2, IdentityAssumption DEF IdentityTypeOK
<1>5. ProofsGrow /\ RowsAreProven' /\ JoinsAreProven' /\ IdentityTypeOK'
  BY <1>1, <1>2, <1>3, <1>4 DEF ProofsGrow, IdentityInv, RowsAreProven, JoinsAreProven, IdentityTypeOK
<1>6. CallIsGood(r)'
  BY <1>2 DEF CallIsGood, Leaves, LeavesAMethod, Linked
<1> QED
  BY <1>2, <1>3, <1>5, <1>6, InvFrom

LEMMA IdleIsGood == CallIsGood(Idle0)
<1>1. Idle0 \in IdentityRequest
  BY DEF Idle0, IdentityRequest
<1> QED
  BY <1>1 DEF CallIsGood, Idle0, Ready, CallIsProven, JoinsItsOwn, Holds, Leaves

LEMMA GoodAt ==
    ASSUME IdentityInv, NEW c \in IdentityCall
    PROVE  LET r == identityCall[c] IN
           /\ r \in IdentityRequest /\ Ready(r) /\ CallIsProven(r, proven, everMade)
           /\ ~r.missed => Holds(r, account) /\ Leaves(r)
  BY DEF IdentityInv, CallIsGood

LEMMA AccountAt ==
    ASSUME IdentityInv, NEW a \in Account, Exists(a)
    PROVE  account[a] \in AccountRow /\ RowIsProven(account[a], proven[a], everMade[a])
           /\ account[a] # NoOne
  BY DEF IdentityInv, IdentityTypeOK, RowsAreProven, Exists

LEMMA JoinAt ==
    ASSUME IdentityInv, NEW s \in Subject, joined[s] # NoOne
    PROVE  joined[s] \in IdentityRow /\ JoinIsProven(s, joined[s], proven, everMade)
  BY DEF IdentityInv, IdentityTypeOK, JoinsAreProven

LEMMA RowFields ==
    ASSUME NEW row \in AccountRow
    PROVE  /\ row.email \in Address \cup Subject /\ row.pending \in Address \cup {NoOne}
           /\ row.code \in Address \cup Subject \cup {NoOne}
           /\ row.verified \in BOOLEAN /\ row.password \in BOOLEAN
  BY DEF AccountRow

-----------------------------------------------------------------------------
(* A step that only reads.                                                   *)

LEMMA SocialAuthStep ==
    ASSUME IdentityInv, NEW c \in IdentityCall, NEW s \in Subject, NEW v \in BOOLEAN,
           NEW e \in Address \cup {NoOne}, SocialAuth(c, s, e, v)
    PROVE  IdentityInv'
<1> DEFINE new == [Idle0 EXCEPT !.kind = "sign-in", !.subject = s, !.email = e,
                                !.trusted = v, !.seen = joined[s],
                                !.step = IF joined[s] = NoOne THEN "match" ELSE "known"]
<1>1. joined[s] \in IdentityRow \cup {NoOne}
  BY DEF IdentityInv, IdentityTypeOK
<1>2. /\ new \in IdentityRequest /\ new.kind = "sign-in" /\ new.subject = s /\ new.email = e
      /\ new.seen = joined[s] /\ new.copy = NoOne /\ new.step \in {"match", "known"}
      /\ new.step = "match" <=> joined[s] = NoOne
  BY <1>1 DEF Idle0, IdentityRequest
<1>3. Arrives(c, new)
  BY DEF SocialAuth
<1> HIDE DEF new
<1>4. Ready(new)
  BY <1>1, <1>2 DEF Ready
<1>5. CallIsProven(new, proven, everMade)
  BY <1>2, JoinAt DEF CallIsProven, JoinsItsOwn
<1>6. CallIsGood(new)
  BY <1>2, <1>4, <1>5 DEF CallIsGood, Holds, Leaves
<1> QED
  BY <1>3, <1>6, ArrivesStep

LEMMA FindKnownStep == ASSUME IdentityInv, NEW c \in IdentityCall, FindKnown(c) PROVE IdentityInv'
<1> DEFINE r == identityCall[c]
           stamps == [r EXCEPT !.step = "stamp", !.user = r.seen.owner]
           matches == [r EXCEPT !.step = "match", !.seen = NoOne]
<1>1. /\ r \in IdentityRequest /\ Ready(r) /\ CallIsProven(r, proven, everMade)
      /\ r.step = "known"
  BY GoodAt DEF FindKnown, On
<1>2. /\ r.kind = "sign-in" /\ r.seen \in IdentityRow /\ r.subject \in Subject /\ r.copy = NoOne
      /\ r.email \in Address \cup {NoOne}
  BY <1>1 DEF Ready
<1>3. r.seen.owner \in Account
  BY <1>2 DEF IdentityRow
<1>4. CASE Exists(r.seen.owner)
  <2>1. /\ stamps \in IdentityRequest /\ stamps.step = "stamp" /\ stamps.user = r.seen.owner
        /\ stamps.kind = r.kind /\ stamps.seen = r.seen /\ stamps.subject = r.subject
        /\ stamps.copy = r.copy /\ stamps.email = r.email
    BY <1>1, <1>3 DEF IdentityRequest
  <2>2. Reads(c, stamps)
    BY <1>4 DEF FindKnown
  <2> HIDE DEF stamps, r
  <2>3. Ready(stamps)
    BY <1>2, <1>3, <2>1 DEF Ready
  <2>4. CallIsProven(stamps, proven, everMade)
    BY <1>1, <1>2, <2>1 DEF CallIsProven, JoinsItsOwn
  <2>5. CallIsGood(stamps)
    BY <1>2, <2>1, <2>3, <2>4 DEF CallIsGood, Holds, Leaves
  <2> QED
    BY <2>2, <2>5, ReadsStep
<1>5. CASE ~Exists(r.seen.owner)
  <2>1. /\ matches \in IdentityRequest /\ matches.step = "match"
        /\ matches.kind = r.kind /\ matches.seen = NoOne /\ matches.subject = r.subject
        /\ matches.copy = r.copy /\ matches.email = r.email
    BY <1>1 DEF IdentityRequest
  <2>2. Reads(c, matches)
    BY <1>5 DEF FindKnown
  <2> HIDE DEF matches, r
  <2>3. Ready(matches)
    BY <1>2, <2>1 DEF Ready
  <2>4. CallIsProven(matches, proven, everMade)
    BY <1>1, <1>2, <2>1 DEF CallIsProven, JoinsItsOwn
  <2>5. CallIsGood(matches)
    BY <1>2, <2>1, <2>3, <2>4 DEF CallIsGood, Holds, Leaves
  <2> QED
    BY <2>2, <2>5, ReadsStep
<1> QED
  BY <1>4, <1>5

\* A sign-in for an unknown subject is moved on.
Moved(r, step) == [r EXCEPT !.step = step]
MovedTo(r, step, a) == [r EXCEPT !.step = step, !.user = a]
Isolated(r, step, e) == [r EXCEPT !.step = step, !.email = e]

LEMMA MovedIs ==
    ASSUME NEW r \in IdentityRequest,
           NEW step \in {"create", "reuse", "avatar", "persist", "save"}
    PROVE  LET q == Moved(r, step) IN
           /\ q \in IdentityRequest /\ q.step = step /\ q.kind = r.kind /\ q.user = r.user
           /\ q.subject = r.subject /\ q.email = r.email /\ q.seen = r.seen /\ q.copy = r.copy
           /\ q.missed <=> r.missed
<1>1. Moved(r, step).missed = r.missed
  BY DEF Moved, IdentityRequest
<1> QED
  BY <1>1 DEF Moved, IdentityRequest
LEMMA MovedToIs ==
    ASSUME NEW r \in IdentityRequest, NEW step \in {"avatar", "persist"}, NEW a \in Account
    PROVE  LET q == MovedTo(r, step, a) IN
           /\ q \in IdentityRequest /\ q.step = step /\ q.kind = r.kind /\ q.user = a
           /\ q.subject = r.subject /\ q.email = r.email /\ q.seen = r.seen /\ q.copy = r.copy
  BY DEF MovedTo, IdentityRequest
LEMMA IsolatedIs ==
    ASSUME NEW r \in IdentityRequest, NEW e \in Address \cup Subject
    PROVE  LET q == Isolated(r, "create", e) IN
           /\ q \in IdentityRequest /\ q.step = "create" /\ q.kind = r.kind
           /\ q.subject = r.subject /\ q.email = e /\ q.seen = r.seen /\ q.copy = r.copy
  BY DEF Isolated, IdentityRequest

\* ... to where an account is made for it,
CreatesNext(r, q) ==
    /\ q \in IdentityRequest /\ q.step \in {"create", "reuse"} /\ q.kind = r.kind
    /\ q.subject = r.subject /\ q.seen = r.seen /\ q.copy = r.copy
    /\ q.step = "create" => q.email \in Address \cup {r.subject}

LEMMA CreatesNextIsGood ==
    ASSUME NEW r \in IdentityRequest, Ready(r), r.step \in {"match", "create"},
           NEW q, CreatesNext(r, q)
    PROVE  CallIsGood(q)
<1>1. r.kind = "sign-in" /\ r.subject \in Subject /\ r.seen = NoOne /\ r.copy = NoOne
  BY DEF Ready
<1>2. Ready(q)
  BY <1>1 DEF CreatesNext, Ready
<1>3. CallIsProven(q, proven, everMade)
  BY <1>1 DEF CreatesNext, CallIsProven, JoinsItsOwn
<1> QED
  BY <1>1, <1>2, <1>3 DEF CallIsGood, CreatesNext, Holds, Leaves

\* ... or to an account that is its own.
OwnNext(r, q, a) ==
    /\ q \in IdentityRequest /\ q.step \in {"avatar", "persist"} /\ q.kind = r.kind /\ q.user = a
    /\ q.subject = r.subject /\ q.email = r.email /\ q.seen = r.seen /\ q.copy = r.copy

IsOwn(r, a, shown, whose) ==
    whose[a] = r.subject \/ FoundUnder(r.email, shown[a])

LEMMA OwnNextIsProven ==
    ASSUME NEW r \in IdentityRequest, Ready(r), r.step \in {"match", "create", "reuse"},
           NEW a \in Account, NEW shown, NEW whose, IsOwn(r, a, shown, whose), NEW q, OwnNext(r, q, a)
    PROVE  Ready(q) /\ CallIsProven(q, shown, whose) /\ q.copy = NoOne /\ q.step # "delete"
<1>1. r.kind = "sign-in" /\ r.subject \in Subject /\ r.seen = NoOne /\ r.copy = NoOne
  BY DEF Ready
<1>2. Ready(q)
  BY <1>1 DEF OwnNext, Ready
<1>3. CallIsProven(q, shown, whose)
  BY <1>1 DEF OwnNext, IsOwn, CallIsProven, JoinsItsOwn
<1> QED
  BY <1>1, <1>2, <1>3 DEF OwnNext

LEMMA OwnNextIsGood ==
    ASSUME NEW r \in IdentityRequest, Ready(r), r.step \in {"match", "create", "reuse"},
           NEW a \in Account, IsOwn(r, a, proven, everMade), NEW q, OwnNext(r, q, a)
    PROVE  CallIsGood(q)
<1>1. Ready(q) /\ CallIsProven(q, proven, everMade) /\ q.copy = NoOne /\ q.step # "delete"
  BY OwnNextIsProven
<1> QED
  BY <1>1 DEF CallIsGood, OwnNext, Holds, Leaves

LEMMA HolderIs ==
    ASSUME IdentityInv, NEW e, NEW a \in HolderOf(e)
    PROVE  a \in Account /\ Exists(a) /\ account[a].email = e
  BY DEF HolderOf

LEMMA FoundIs ==
    ASSUME NEW e \in Address, NEW a \in FindByEmail(e)
    PROVE  a \in Account /\ Exists(a) /\ account[a].email \in Likes[e] /\ account[a].email \in Address
<1>1. Likes[e] \subseteq Address
  BY IdentityAssumption
<1> QED
  BY <1>1 DEF FindByEmail

LEMMA MatchStep == ASSUME IdentityInv, NEW c \in IdentityCall, Match(c) PROVE IdentityInv'
<1> DEFINE r == identityCall[c]
           local == IF r.email = NoOne THEN {} ELSE FindByEmail(r.email)
<1>1. /\ r \in IdentityRequest /\ Ready(r) /\ r.step = "match"
  BY GoodAt DEF Match, On
<1>2. /\ r.kind = "sign-in" /\ r.subject \in Subject /\ r.email \in Address \cup {NoOne}
      /\ r.subject \in Address \cup Subject
  BY <1>1 DEF Ready
<1>3. ASSUME Reads(c, Isolated(r, "create", r.subject)) PROVE IdentityInv'
  <2>1. CreatesNext(r, Isolated(r, "create", r.subject))
    BY <1>1, <1>2, IsolatedIs DEF CreatesNext
  <2> QED
    BY <1>1, <1>3, <2>1, CreatesNextIsGood, ReadsStep
<1>4. ASSUME NEW a \in local, SafeToLink(r, account[a]), Reads(c, MovedTo(r, "avatar", a))
      PROVE  IdentityInv'
  <2>1. /\ a \in Account /\ Exists(a) /\ r.email \in Address
        /\ account[a].email \in Likes[r.email] /\ account[a].email \in Address
    BY <1>2, <1>4, FoundIs
  <2>2. account[a].verified
    BY <1>4 DEF SafeToLink
  <2>3. account[a].email \in proven[a]
    BY <2>1, <2>2, AccountAt DEF RowIsProven
  <2>4. IsOwn(r, a, proven, everMade)
    BY <2>1, <2>3 DEF IsOwn, FoundUnder
  <2>5. OwnNext(r, MovedTo(r, "avatar", a), a)
    BY <1>1, <2>1, MovedToIs DEF OwnNext
  <2> QED
    BY <1>1, <1>4, <2>1, <2>4, <2>5, OwnNextIsGood, ReadsStep
<1>5. ASSUME local = {}, r.email # NoOne, Reads(c, Moved(r, "create")) PROVE IdentityInv'
  <2>1. CreatesNext(r, Moved(r, "create"))
    BY <1>1, <1>2, <1>5, MovedIs DEF CreatesNext
  <2> QED
    BY <1>1, <1>5, <2>1, CreatesNextIsGood, ReadsStep
<1> QED
  BY <1>3, <1>4, <1>5 DEF Match, Moved, MovedTo, Isolated

LEMMA ReuseStep == ASSUME IdentityInv, NEW c \in IdentityCall, Reuse(c) PROVE IdentityInv'
<1> DEFINE r == identityCall[c]
<1>1. r \in IdentityRequest /\ Ready(r) /\ r.step = "reuse"
  BY GoodAt DEF Reuse, On
<1>2. r.subject \in Subject
  BY <1>1 DEF Ready
<1> PICK a \in HolderOf(r.subject) : Reads(c, MovedTo(r, "persist", a))
  BY DEF Reuse, MovedTo
<1>3. a \in Account /\ Exists(a) /\ account[a].email = r.subject
  BY HolderIs
<1>4. everMade[a] = r.subject
  BY <1>2, <1>3, AccountAt DEF RowIsProven
<1>5. IsOwn(r, a, proven, everMade)
  BY <1>4 DEF IsOwn
<1>6. OwnNext(r, MovedTo(r, "persist", a), a)
  BY <1>1, <1>3, MovedToIs DEF OwnNext
<1> QED
  BY <1>1, <1>3, <1>5, <1>6, OwnNextIsGood, ReadsStep

LEMMA AvatarStep == ASSUME IdentityInv, NEW c \in IdentityCall, AvatarIfMissing(c) PROVE IdentityInv'
<1> DEFINE r == identityCall[c]
           adopts == [r EXCEPT !.step = "adopt", !.copy = account[r.user]]
<1>1. /\ r \in IdentityRequest /\ Ready(r) /\ CallIsProven(r, proven, everMade)
      /\ r.step = "avatar"
  BY GoodAt DEF AvatarIfMissing, On
<1>2. r.kind = "sign-in" /\ r.user \in Account /\ r.copy = NoOne /\ r.subject \in Subject
  BY <1>1 DEF Ready
<1>3. CASE Exists(r.user) /\ Reads(c, adopts)
  <2>1. account[r.user] \in AccountRow /\ RowIsProven(account[r.user], proven[r.user], everMade[r.user])
        /\ account[r.user] # NoOne
    BY <1>2, <1>3, AccountAt
  <2>2. /\ adopts \in IdentityRequest /\ adopts.step = "adopt" /\ adopts.user = r.user
        /\ adopts.kind = r.kind /\ adopts.seen = r.seen /\ adopts.subject = r.subject
        /\ adopts.copy = account[r.user] /\ adopts.email = r.email
    BY <1>1, <2>1 DEF IdentityRequest
  <2>3. Reads(c, adopts)
    BY <1>3
  <2> HIDE DEF adopts, r
  <2>4. Ready(adopts)
    BY <1>2, <2>1, <2>2 DEF Ready
  <2>5. CallIsProven(adopts, proven, everMade)
    BY <1>1, <1>2, <2>1, <2>2 DEF CallIsProven, JoinsItsOwn
  <2>6. CallIsGood(adopts)
    BY <1>2, <2>1, <2>2, <2>4, <2>5 DEF CallIsGood, Holds, Leaves
  <2> QED
    BY <2>3, <2>6, ReadsStep
<1>4. CASE r.seen = NoOne /\ Reads(c, Moved(r, "persist"))
  <2> DEFINE q == Moved(r, "persist")
  <2>1. /\ q \in IdentityRequest /\ q.step = "persist" /\ q.user = r.user
        /\ q.kind = r.kind /\ q.seen = r.seen /\ q.subject = r.subject
        /\ q.copy = r.copy /\ q.email = r.email
    BY <1>1, MovedIs
  <2>2. Ready(q)
    BY <1>2, <1>4, <2>1 DEF Ready
  <2>3. CallIsProven(q, proven, everMade)
    BY <1>1, <1>2, <1>4, <2>1 DEF CallIsProven, JoinsItsOwn
  <2>4. CallIsGood(q)
    BY <1>2, <2>1, <2>2, <2>3 DEF CallIsGood, Holds, Leaves
  <2> QED
    BY <1>4, <2>4, ReadsStep
<1>5. CASE Reads(c, Idle0)
  BY <1>5, IdleIsGood, ReadsStep
<1> QED
  BY <1>3, <1>4, <1>5 DEF AvatarIfMissing, Moved

LEMMA LinkStep ==
    ASSUME IdentityInv, NEW c \in IdentityCall, NEW a \in Account, NEW s \in Subject, LinkToUser(c, a, s)
    PROVE  IdentityInv'
<1> DEFINE new(step) == [Idle0 EXCEPT !.kind = "link", !.user = a, !.subject = s,
                                      !.seen = joined[s], !.step = step]
<1>1. joined[s] \in IdentityRow \cup {NoOne}
  BY DEF IdentityInv, IdentityTypeOK
<1>2. ASSUME NEW step \in {"persist", "stamp"}
      PROVE  /\ new(step) \in IdentityRequest /\ new(step).kind = "link" /\ new(step).subject = s
             /\ new(step).user = a /\ new(step).seen = joined[s] /\ new(step).copy = NoOne
             /\ new(step).step = step
  BY <1>1 DEF Idle0, IdentityRequest
<1>3. \/ joined[s] = NoOne /\ Arrives(c, new("persist"))
      \/ joined[s] # NoOne /\ Arrives(c, new("stamp"))
  BY DEF LinkToUser, Idle0
<1> HIDE DEF new
<1>4. ASSUME NEW step \in {"persist", "stamp"}, step = "persist" <=> joined[s] = NoOne
      PROVE  CallIsGood(new(step))
  <2>1. Ready(new(step))
    BY <1>1, <1>2, <1>4 DEF Ready
  <2>2. CallIsProven(new(step), proven, everMade)
    BY <1>2, JoinAt DEF CallIsProven, JoinsItsOwn
  <2> QED
    BY <1>2, <2>1, <2>2 DEF CallIsGood, Holds, Leaves
<1>5. CASE joined[s] = NoOne /\ Arrives(c, new("persist"))
  BY <1>4, <1>5, ArrivesStep
<1>6. CASE joined[s] # NoOne /\ Arrives(c, new("stamp"))
  BY <1>4, <1>6, ArrivesStep
<1> QED
  BY <1>3, <1>5, <1>6

LEMMA UnlinkAskedStep ==
    ASSUME IdentityInv, NEW c \in IdentityCall, NEW a \in Account, NEW s \in Subject,
           UnlinkSocialProvider(c, a, s)
    PROVE  IdentityInv'
<1> DEFINE new == [Idle0 EXCEPT !.kind = "unlink", !.step = "delete", !.user = a, !.subject = s]
<1>1. /\ new \in IdentityRequest /\ new.kind = "unlink" /\ new.subject = s /\ new.user = a
      /\ new.seen = NoOne /\ new.copy = NoOne /\ new.step = "delete"
  BY DEF Idle0, IdentityRequest
<1>2. Arrives(c, new) /\ LeavesAMethod(a, SocialProvider(s))
  BY DEF UnlinkSocialProvider
<1> HIDE DEF new
<1>3. Ready(new) /\ CallIsProven(new, proven, everMade)
  BY <1>1 DEF Ready, CallIsProven, JoinsItsOwn
<1>4. CallIsGood(new)
  BY <1>1, <1>2, <1>3 DEF CallIsGood, Holds, Leaves
<1> QED
  BY <1>2, <1>4, ArrivesStep

\* A request that changes the user's row, and holds it as it is.
Editing(r, a, step) ==
    /\ r \in IdentityRequest /\ r.user = a /\ r.seen = NoOne /\ r.copy \in AccountRow
    /\ r.step = step /\ r.kind \notin {"sign-in", "idle"}
    /\ step = "staging" => r.kind = "request" /\ r.email \in Address
    /\ step = "save" /\ r.kind = "verify" => r.copy.code \in Address
    /\ step = "save" /\ r.kind = "confirm" => r.copy.pending \in Address

LEMMA EditingIsReady ==
    ASSUME NEW r, NEW a \in Account, NEW step \in {"staging", "save", "clear"}, Editing(r, a, step),
           NEW shown, NEW whose, RowIsProven(r.copy, shown[a], whose[a])
    PROVE  Ready(r) /\ CallIsProven(r, shown, whose)
<1>1. r.copy # NoOne
  BY NoOneAssumption DEF Editing
<1>2. Ready(r)
  BY <1>1 DEF Editing, Ready
<1> QED
  BY <1>1, <1>2 DEF Editing, CallIsProven, JoinsItsOwn

LEMMA BeginStep ==
    ASSUME IdentityInv, NEW c \in IdentityCall, NEW a \in Account,
           NEW kind \in {"profile", "send", "verify", "password", "confirm", "request"},
           NEW e \in Address \cup {NoOne}, kind = "request" => e \in Address, Begin(c, a, kind, e)
    PROVE  IdentityInv'
<1> DEFINE new == [Idle0 EXCEPT !.kind = kind, !.user = a, !.copy = account[a],
                   !.email = IF kind = "request" THEN e ELSE NoOne,
                   !.step = IF kind = "request" THEN "staging" ELSE "save"]
<1>1. /\ Arrives(c, new) /\ Exists(a)
      /\ kind = "verify" => account[a].code \in Address
      /\ kind = "confirm" => account[a].pending # NoOne
  BY DEF Begin
<1>2. account[a] \in AccountRow /\ RowIsProven(account[a], proven[a], everMade[a])
      /\ account[a] # NoOne /\ account[a].pending \in Address \cup {NoOne}
  BY <1>1, AccountAt, RowFields
<1>3. /\ new \in IdentityRequest /\ new.kind = kind /\ new.user = a
      /\ new.seen = NoOne /\ new.copy = account[a]
      /\ new.email = IF kind = "request" THEN e ELSE NoOne
      /\ new.step = IF kind = "request" THEN "staging" ELSE "save"
  BY <1>2 DEF Idle0, IdentityRequest
<1> HIDE DEF new
<1>4. Editing(new, a, new.step) /\ new.step \in {"staging", "save", "clear"}
  BY <1>1, <1>2, <1>3 DEF Editing
<1>5. Ready(new) /\ CallIsProven(new, proven, everMade)
  BY <1>2, <1>3, <1>4, EditingIsReady
<1>6. CallIsGood(new)
  BY <1>2, <1>3, <1>4, <1>5 DEF CallIsGood, Holds, Leaves
<1> QED
  BY <1>1, <1>6, ArrivesStep

LEMMA EditingAt ==
    ASSUME IdentityInv, NEW c \in IdentityCall,
           identityCall[c].step \in {"staging", "save", "clear"}
    PROVE  LET r == identityCall[c] IN
           /\ r \in IdentityRequest /\ r.user \in Account /\ r.copy \in AccountRow /\ r.copy # NoOne
           /\ r.kind # "sign-in"
           /\ r.step = "staging" => r.kind = "request" /\ r.email \in Address
           /\ r.step = "save" /\ r.kind = "verify" => r.copy.code \in Address
           /\ r.step = "save" /\ r.kind = "confirm" => r.copy.pending \in Address
           /\ RowIsProven(r.copy, proven[r.user], everMade[r.user])
<1> DEFINE r == identityCall[c]
<1>1. r \in IdentityRequest /\ Ready(r) /\ CallIsProven(r, proven, everMade)
  BY GoodAt
<1>2. r.copy # NoOne /\ r.user \in Account
  BY <1>1 DEF Ready
<1>3. r.copy \in AccountRow
  BY <1>1, <1>2 DEF IdentityRequest
<1>4. RowIsProven(r.copy, proven[r.user], everMade[r.user])
  BY <1>1, <1>2 DEF CallIsProven
<1> QED
  BY <1>1, <1>2, <1>3, <1>4 DEF Ready

Pending(row, e) == [row EXCEPT !.pending = e]

LEMMA PendingIs ==
    ASSUME NEW row \in AccountRow, NEW e \in Address \cup {NoOne}
    PROVE  /\ Pending(row, e) \in AccountRow /\ Pending(row, e).email = row.email
           /\ Pending(row, e).code = row.code
           /\ Pending(row, e).verified <=> row.verified
           /\ Pending(row, e).password <=> row.password
<1>1. Pending(row, e).verified = row.verified /\ Pending(row, e).password = row.password
  BY DEF Pending, AccountRow
<1> QED
  BY <1>1 DEF Pending, AccountRow

LEMMA PendingIsProven ==
    ASSUME NEW row \in AccountRow, NEW e \in Address \cup {NoOne}, NEW shown, NEW whose,
           RowIsProven(row, shown, whose)
    PROVE  RowIsProven(Pending(row, e), shown, whose)
  BY PendingIs DEF RowIsProven

LEMMA StagingStep == ASSUME IdentityInv, NEW c \in IdentityCall, Staging(c) PROVE IdentityInv'
<1>0. PICK e \in {identityCall[c].email, identityCall[c].copy.pending} :
        Reads(c, [identityCall[c] EXCEPT !.step = "save", !.copy = Pending(identityCall[c].copy, e)])
  <2> DEFINE r == identityCall[c]
  <2>1. r.copy \in AccountRow /\ r \in IdentityRequest
    BY EditingAt DEF Staging, On
  <2>2. Pending(r.copy, r.copy.pending) = r.copy
    BY <2>1 DEF AccountRow, Pending
  <2>3. [r EXCEPT !.step = "save", !.copy = r.copy] = [r EXCEPT !.step = "save"]
    BY <2>1 DEF IdentityRequest
  <2> QED
    BY <2>2, <2>3 DEF Staging, Pending
<1> DEFINE r == identityCall[c]
           new == [r EXCEPT !.step = "save", !.copy = Pending(r.copy, e)]
<1>1. r.step = "staging"
  BY DEF Staging, On
<1>2. /\ r \in IdentityRequest /\ r.user \in Account /\ r.copy \in AccountRow
      /\ r.kind = "request" /\ r.email \in Address /\ r.copy # NoOne
      /\ RowIsProven(r.copy, proven[r.user], everMade[r.user])
  BY <1>1, EditingAt
<1>3. Ready(r) /\ (~r.missed => Holds(r, account))
  BY GoodAt
<1>4. e \in Address \cup {NoOne}
  BY <1>0, <1>2, RowFields
<1>5. Pending(r.copy, e) \in AccountRow
  BY <1>2, <1>4, PendingIs
<1>6. new.missed = r.missed
  BY <1>2 DEF IdentityRequest
<1>7. /\ new \in IdentityRequest /\ new.kind = r.kind /\ new.user = r.user /\ new.seen = r.seen
      /\ new.copy = Pending(r.copy, e) /\ new.step = "save"
      /\ new.missed <=> r.missed
  BY <1>2, <1>5, <1>6 DEF IdentityRequest
<1>8. Reads(c, new)
  BY <1>0
<1> HIDE DEF new, r
<1>10. Ready(new)
  BY <1>2, <1>5, <1>7, NoOneAssumption DEF Ready
<1>11. CallIsProven(new, proven, everMade)
  <2>1. CallIsProven(r, proven, everMade) /\ new.subject = r.subject
    BY <1>2, GoodAt DEF r, new, IdentityRequest
  <2>2. RowIsProven(new.copy, proven[new.user], everMade[new.user])
    BY <1>2, <1>4, <1>7, PendingIsProven
  <2> QED
    BY <1>2, <1>7, <2>1, <2>2 DEF CallIsProven, JoinsItsOwn
<1>12. ASSUME ~new.missed PROVE Holds(new, account) /\ Leaves(new)
  BY <1>2, <1>3, <1>4, <1>7, <1>12, PendingIs DEF Holds, Leaves
<1>13. CallIsGood(new)
  BY <1>7, <1>10, <1>11, <1>12 DEF CallIsGood
<1> QED
  BY <1>8, <1>13, ReadsStep

LEMMA ClashStep == ASSUME IdentityInv, NEW c \in IdentityCall, Clash(c) PROVE IdentityInv'
<1> DEFINE r == identityCall[c]
           new == [r EXCEPT !.step = "clear", !.copy = account[r.user], !.missed = FALSE]
<1>1. r.step = "save" /\ r.kind = "confirm" /\ Exists(r.user) /\ Reads(c, new)
  BY DEF Clash, On
<1>2. r \in IdentityRequest /\ r.user \in Account /\ CallIsProven(r, proven, everMade)
  BY <1>1, EditingAt, GoodAt
<1>3. account[r.user] \in AccountRow /\ RowIsProven(account[r.user], proven[r.user], everMade[r.user])
      /\ account[r.user] # NoOne
  BY <1>1, <1>2, AccountAt
<1>4. /\ new \in IdentityRequest /\ new.kind = r.kind /\ new.user = r.user /\ new.seen = r.seen
      /\ new.copy = account[r.user] /\ new.step = "clear" /\ new.subject = r.subject
  BY <1>2, <1>3 DEF IdentityRequest
<1> HIDE DEF new, r
<1>5. Ready(new)
  BY <1>1, <1>2, <1>3, <1>4 DEF Ready
<1>6. CallIsProven(new, proven, everMade)
  BY <1>1, <1>2, <1>3, <1>4 DEF CallIsProven, JoinsItsOwn
<1>7. CallIsGood(new)
  BY <1>3, <1>4, <1>5, <1>6 DEF CallIsGood, Holds, Leaves
<1> QED
  BY <1>1, <1>7, ReadsStep

LEMMA IdentityThrowsStep == ASSUME IdentityInv, NEW c \in IdentityCall, IdentityThrows(c) PROVE IdentityInv'
  BY IdleIsGood, ReadsStep DEF IdentityThrows

-----------------------------------------------------------------------------
(* A step that writes.                                                       *)

LEMMA WriteStep ==
    ASSUME IdentityInv, NEW c \in IdentityCall, NEW a \in Account, NEW row \in AccountRow,
           NEW r \in IdentityRequest, Write(c, a, row, r), UNCHANGED <<joined, everMade, begun>>,
           ProofsGrow, proven' \in [Account -> SUBSET Address],
           RowIsProven(row, proven'[a], everMade[a]),
           Ready(r), CallIsProven(r, proven', everMade), r.copy = NoOne, r.step # "delete"
    PROVE  IdentityInv'
<1>1. IdentityTypeOK /\ account' = [account EXCEPT ![a] = row] /\ GoOn(c, r, TRUE)
  BY DEF Write, IdentityInv
<1>2. /\ OthersMiss(c, TRUE) /\ identityCall'[c] = r
      /\ identityCall' \in [IdentityCall -> IdentityRequest]
  BY <1>1, GoOnLeaves
<1>3. IdentityTypeOK'
  BY <1>1, <1>2 DEF IdentityTypeOK
<1>4. RowsAreProven'
  <2> SUFFICES ASSUME NEW b \in Account, account'[b] # NoOne
               PROVE  RowIsProven(account'[b], proven'[b], everMade'[b])
    BY DEF RowsAreProven
  <2>1. CASE b = a
    BY <1>1, <2>1 DEF IdentityTypeOK
  <2>2. CASE b # a
    <3>1. account'[b] = account[b]
      BY <1>1, <2>2 DEF IdentityTypeOK
    <3> QED
      BY <3>1, RowStaysProven DEF IdentityInv, RowsAreProven
  <2> QED
    BY <2>1, <2>2
<1>5. JoinsAreProven'
  BY JoinAt, JoinStaysProven DEF JoinsAreProven
<1>6. CallIsGood(r)'
  BY DEF CallIsGood, Holds, Leaves
<1> QED
  BY <1>2, <1>3, <1>4, <1>5, <1>6, InvFrom

LEMMA WriteAndBeIdle ==
    ASSUME IdentityInv, NEW c \in IdentityCall, NEW a \in Account, NEW row \in AccountRow,
           Write(c, a, row, Idle0), UNCHANGED <<joined, everMade, begun>>,
           ProofsGrow, proven' \in [Account -> SUBSET Address],
           RowIsProven(row, proven'[a], everMade[a])
    PROVE  IdentityInv'
<1>1. Idle0 \in IdentityRequest
  BY DEF Idle0, IdentityRequest
<1>2. Ready(Idle0) /\ CallIsProven(Idle0, proven', everMade) /\ Idle0.copy = NoOne /\ Idle0.step # "delete"
  BY DEF Idle0, Ready, CallIsProven, JoinsItsOwn
<1> QED
  BY <1>1, <1>2, WriteStep

\* Nobody else is the writer.
LEMMA OneWriter ==
    ASSUME NEW c \in IdentityCall, NEW wrote, OthersMiss(c, wrote), NEW d \in IdentityCall, Writer(d)
    PROVE  d = c
  BY DEF OthersMiss, Misses, Kin, Writer

\* A request that has missed nothing keeps what the row had.
Keeps(c, a, row) ==
    ~identityCall[c].missed =>
        /\ Exists(a)
        /\ account[a].verified => row.verified
        /\ account[a].password => row.password

LEMMA WriteUndoes ==
    ASSUME IdentityInv, NEW c \in IdentityCall, NEW a \in Account, NEW row,
           NEW r \in IdentityRequest, Write(c, a, row, r), UNCHANGED joined, Keeps(c, a, row)
    PROVE  LateWriteUndoes
<1>1. IdentityTypeOK /\ account' = [account EXCEPT ![a] = row] /\ GoOn(c, r, TRUE)
  BY DEF Write, IdentityInv
<1>2. OthersMiss(c, TRUE)
  BY <1>1, GoOnLeaves
<1> SUFFICES ASSUME NEW d \in IdentityCall, Writer(d), NEW b \in Account
             PROVE  /\ WayIn(b) /\ Exists(b)' => WayIn(b)'
                    /\ Exists(b) /\ Exists(b)' /\ account[b].verified => account'[b].verified
                    /\ ~Exists(b) /\ Exists(b)' => everMade[b] = "never"
  BY DEF LateWriteUndoes
<1>3. d = c /\ ~identityCall[c].missed
  BY <1>2, OneWriter DEF Writer
<1>4. Linked(b)' = Linked(b)
  BY DEF Linked
<1>5. CASE b = a
  <2>1. account'[b] = row /\ Exists(b)
    BY <1>1, <1>3, <1>5 DEF IdentityTypeOK, Keeps
  <2> QED
    BY <1>3, <1>4, <1>5, <2>1 DEF Keeps, WayIn
<1>6. CASE b # a
  <2>1. account'[b] = account[b]
    BY <1>1, <1>6 DEF IdentityTypeOK
  <2> QED
    BY <1>4, <2>1 DEF WayIn, Exists
<1> QED
  BY <1>5, <1>6

LEMMA CopyKeeps ==
    ASSUME IdentityInv, NEW c \in IdentityCall, identityCall[c].copy # NoOne, NEW row,
           identityCall[c].copy.verified => row.verified,
           identityCall[c].copy.password => row.password
    PROVE  Keeps(c, identityCall[c].user, row)
  BY GoodAt DEF Keeps, Holds, Exists

LEMMA ProofsStay == ASSUME UNCHANGED <<everMade, proven>> PROVE ProofsGrow
  BY DEF ProofsGrow

LEMMA ProvenIs == ASSUME IdentityInv PROVE proven \in [Account -> SUBSET Address]
  BY DEF IdentityInv, IdentityTypeOK

LEMMA AdoptStep ==
    ASSUME IdentityInv, NEW c \in IdentityCall, AdoptAvatar(c)
    PROVE  IdentityInv' /\ LateWriteUndoes
<1> DEFINE r == identityCall[c]
           q == [r EXCEPT !.step = "persist", !.copy = NoOne]
<1>1. r \in IdentityRequest /\ Ready(r) /\ CallIsProven(r, proven, everMade) /\ r.step = "adopt"
  BY GoodAt DEF AdoptAvatar, On
<1>2. /\ r.kind = "sign-in" /\ r.user \in Account /\ r.copy # NoOne /\ r.subject \in Subject
      /\ r.copy \in AccountRow
  BY <1>1 DEF Ready, IdentityRequest
<1>3. UNCHANGED <<joined, everMade, proven, begun>>
  BY DEF AdoptAvatar
<1>4. RowIsProven(r.copy, proven'[r.user], everMade[r.user])
  BY <1>1, <1>2, <1>3 DEF CallIsProven
<1>5. Idle0 \in IdentityRequest
  BY IdleIsGood DEF CallIsGood
<1>6. Keeps(c, r.user, r.copy)
  BY <1>2, CopyKeeps
<1>7. CASE r.seen = NoOne
  <2>1. Write(c, r.user, r.copy, q)
    BY <1>7 DEF AdoptAvatar
  <2>2. /\ q \in IdentityRequest /\ q.step = "persist" /\ q.user = r.user
        /\ q.kind = r.kind /\ q.seen = r.seen /\ q.subject = r.subject
        /\ q.copy = NoOne /\ q.email = r.email
    BY <1>1 DEF IdentityRequest
  <2> HIDE DEF q
  <2>3. Ready(q)
    BY <1>2, <1>7, <2>2 DEF Ready
  <2>4. CallIsProven(q, proven', everMade)
    BY <1>1, <1>2, <1>3, <1>7, <2>2 DEF CallIsProven, JoinsItsOwn
  <2>5. IdentityInv'
    BY <1>2, <1>3, <1>4, <2>1, <2>2, <2>3, <2>4, ProofsStay, ProvenIs, WriteStep
  <2> QED
    BY <1>2, <1>3, <1>6, <2>1, <2>2, <2>5, WriteUndoes
<1>8. CASE r.seen # NoOne
  <2>1. Write(c, r.user, r.copy, Idle0)
    BY <1>8 DEF AdoptAvatar
  <2>2. IdentityInv'
    BY <1>2, <1>3, <1>4, <2>1, ProofsStay, ProvenIs, WriteAndBeIdle
  <2> QED
    BY <1>2, <1>3, <1>5, <1>6, <2>1, <2>2, WriteUndoes
<1> QED
  BY <1>7, <1>8

\* A step that saves the copy as edited and is done.
LEMMA SaveCopyStep ==
    ASSUME IdentityInv, NEW c \in IdentityCall, identityCall[c].step \in {"save", "clear"},
           NEW row \in AccountRow,
           Write(c, identityCall[c].user, row, Idle0), UNCHANGED <<joined, everMade, begun>>,
           ProofsGrow, proven' \in [Account -> SUBSET Address],
           RowIsProven(row, proven'[identityCall[c].user], everMade[identityCall[c].user]),
           identityCall[c].copy.verified => row.verified,
           identityCall[c].copy.password => row.password
    PROVE  IdentityInv' /\ LateWriteUndoes
<1>1. identityCall[c].user \in Account /\ identityCall[c].copy # NoOne
  BY EditingAt
<1>2. Idle0 \in IdentityRequest
  BY IdleIsGood DEF CallIsGood
<1>3. Keeps(c, identityCall[c].user, row)
  BY <1>1, CopyKeeps
<1>4. IdentityInv'
  BY <1>1, WriteAndBeIdle
<1> QED
  BY <1>1, <1>2, <1>3, <1>4, WriteUndoes

LEMMA ClearedIs == \A row : NothingPending(row) = Pending(row, NoOne)
  BY DEF NothingPending, Pending

LEMMA WrongCodeStep ==
    ASSUME IdentityInv, NEW c \in IdentityCall, WrongCode(c)
    PROVE  IdentityInv' /\ LateWriteUndoes
<1> DEFINE r == identityCall[c]
<1>1. r.step \in {"save", "clear"} /\ UNCHANGED <<joined, everMade, proven, begun>>
  BY DEF WrongCode, On
<1>2. r.copy \in AccountRow /\ RowIsProven(r.copy, proven'[r.user], everMade[r.user])
  BY <1>1, EditingAt
<1>3. CASE Write(c, r.user, r.copy, Idle0)
  BY <1>1, <1>2, <1>3, ProofsStay, ProvenIs, SaveCopyStep
<1>4. CASE Write(c, r.user, Pending(r.copy, NoOne), Idle0)
  <2>1. Pending(r.copy, NoOne) \in AccountRow
        /\ RowIsProven(Pending(r.copy, NoOne), proven'[r.user], everMade[r.user])
    BY <1>2, PendingIs, PendingIsProven
  <2>2. (r.copy.verified => Pending(r.copy, NoOne).verified)
        /\ (r.copy.password => Pending(r.copy, NoOne).password)
    BY <1>2, PendingIs
  <2> QED
    BY <1>1, <1>4, <2>1, <2>2, ProofsStay, ProvenIs, SaveCopyStep
<1> QED
  BY <1>3, <1>4, ClearedIs DEF WrongCode

LEMMA ClearStep ==
    ASSUME IdentityInv, NEW c \in IdentityCall, ClearPending(c)
    PROVE  IdentityInv' /\ LateWriteUndoes
<1> DEFINE r == identityCall[c]
<1>1. r.step \in {"save", "clear"} /\ UNCHANGED <<joined, everMade, proven, begun>>
      /\ Write(c, r.user, Pending(r.copy, NoOne), Idle0)
  BY ClearedIs DEF ClearPending, On
<1>2. r.copy \in AccountRow /\ RowIsProven(r.copy, proven'[r.user], everMade[r.user])
  BY <1>1, EditingAt
<1>3. Pending(r.copy, NoOne) \in AccountRow
      /\ RowIsProven(Pending(r.copy, NoOne), proven'[r.user], everMade[r.user])
  BY <1>2, PendingIs, PendingIsProven
<1>4. (r.copy.verified => Pending(r.copy, NoOne).verified)
      /\ (r.copy.password => Pending(r.copy, NoOne).password)
  BY <1>2, PendingIs
<1> QED
  BY <1>1, <1>3, <1>4, ProofsStay, ProvenIs, SaveCopyStep

\* What each handler sets.
EditsSoundly(r, new, a, shown) ==
    /\ new \in AccountRow
    /\ RowIsProven(new, shown[a] \cup Shows(r), everMade[a])
    /\ r.copy.verified => new.verified
    /\ r.copy.password => new.password

LEMMA EditedIs ==
    ASSUME IdentityInv, NEW c \in IdentityCall, On(c, "save")
    PROVE  /\ EditsSoundly(identityCall[c], Edited(identityCall[c]), identityCall[c].user, proven)
           /\ Shows(identityCall[c]) \subseteq Address
<1> DEFINE r == identityCall[c]
           copy == r.copy
           a == r.user
<1>1. /\ r \in IdentityRequest /\ r.user \in Account /\ copy \in AccountRow
      /\ r.kind = "verify" => copy.code \in Address
      /\ r.kind = "confirm" => copy.pending \in Address
      /\ RowIsProven(copy, proven[a], everMade[a])
  BY EditingAt DEF On
<1>2. Shows(r) \subseteq Address
  BY <1>1 DEF Shows
<1>3. CASE r.kind = "send"
  <2> DEFINE new == [copy EXCEPT !.code = copy.email]
  <2>1. copy.email \in Address \cup Subject /\ copy.verified \in BOOLEAN
    BY <1>1, RowFields
  <2>2. new.verified = copy.verified /\ new.password = copy.password
    BY <1>1 DEF AccountRow
  <2>3. /\ new \in AccountRow /\ new.email = copy.email /\ new.code = copy.email
        /\ (new.verified <=> copy.verified) /\ (new.password <=> copy.password)
    BY <1>1, <2>1, <2>2 DEF AccountRow
  <2>4. Edited(r) = new
    BY <1>3 DEF Edited
  <2> HIDE DEF new, copy, a, r
  <2>5. RowIsProven(new, proven[a] \cup Shows(r), everMade[a])
    BY <1>1, <2>3 DEF RowIsProven
  <2> QED
    BY <1>2, <2>3, <2>4, <2>5 DEF EditsSoundly, copy, a, r
<1>4. CASE r.kind = "verify"
  <2> DEFINE now == IF Exists(a) THEN account[a].code ELSE NoOne
             new == [copy EXCEPT !.verified = TRUE, !.code = now]
  <2>1. now \in Address \cup Subject \cup {NoOne}
    BY <1>1, AccountAt, RowFields
  <2> HIDE DEF now
  <2>2. new.verified = TRUE /\ new.password = copy.password
    BY <1>1 DEF AccountRow
  <2>3. /\ new \in AccountRow /\ new.email = copy.email /\ new.verified
        /\ (new.password <=> copy.password)
    BY <1>1, <2>1, <2>2 DEF AccountRow
  <2>4. Edited(r) = new
    BY <1>4 DEF Edited, now
  <2>5. Shows(r) = {copy.code}
    BY <1>4 DEF Shows
  <2> HIDE DEF new, copy, a, r
  <2>6. RowIsProven(new, proven[a] \cup Shows(r), everMade[a])
    BY <1>1, <1>4, <2>3, <2>5, NamesApart DEF RowIsProven
  <2> QED
    BY <1>2, <2>3, <2>4, <2>6 DEF EditsSoundly, copy, a, r
<1>5. CASE r.kind = "password"
  <2> DEFINE new == [copy EXCEPT !.password = TRUE]
  <2>2. new.verified = copy.verified /\ new.password = TRUE
    BY <1>1 DEF AccountRow
  <2>3. /\ new \in AccountRow /\ new.email = copy.email /\ new.code = copy.code
        /\ (new.verified <=> copy.verified) /\ new.password
    BY <1>1, <2>2 DEF AccountRow
  <2>4. Edited(r) = new
    BY <1>5 DEF Edited
  <2> HIDE DEF new, copy, a, r
  <2>5. RowIsProven(new, proven[a] \cup Shows(r), everMade[a])
    BY <1>1, <2>3 DEF RowIsProven
  <2> QED
    BY <1>2, <2>3, <2>4, <2>5 DEF EditsSoundly, copy, a, r
<1>6. CASE r.kind = "confirm"
  <2> DEFINE done == NothingPending(copy)
             new == [done EXCEPT !.email = copy.pending, !.verified = TRUE]
  <2>1. done \in AccountRow /\ (done.password <=> copy.password)
    BY <1>1, ClearedIs, PendingIs
  <2> HIDE DEF done
  <2>2. new.verified = TRUE /\ new.password = done.password
    BY <2>1 DEF AccountRow
  <2>3. copy.pending \in Address \cup Subject
    BY <1>1, <1>6
  <2>4. /\ new \in AccountRow /\ new.email = copy.pending /\ new.verified
        /\ (new.password <=> copy.password)
    BY <2>1, <2>2, <2>3 DEF AccountRow
  <2>5. Edited(r) = new
    BY <1>6 DEF Edited, done
  <2>6. Shows(r) = {copy.pending}
    BY <1>6 DEF Shows
  <2> HIDE DEF new, copy, a, r
  <2>7. RowIsProven(new, proven[a] \cup Shows(r), everMade[a])
    BY <1>1, <1>6, <2>4, <2>6, NamesApart DEF RowIsProven
  <2> QED
    BY <1>2, <2>4, <2>5, <2>7 DEF EditsSoundly, copy, a, r
<1>7. CASE r.kind \notin {"send", "verify", "password", "confirm"}
  <2>1. Edited(r) = copy
    BY <1>7 DEF Edited
  <2> HIDE DEF copy, a, r
  <2>2. RowIsProven(copy, proven[a] \cup Shows(r), everMade[a])
    BY <1>1 DEF RowIsProven
  <2> QED
    BY <1>1, <1>2, <2>1, <2>2 DEF EditsSoundly, copy, a, r
<1> QED
  BY <1>3, <1>4, <1>5, <1>6, <1>7

LEMMA SaveStep ==
    ASSUME IdentityInv, NEW c \in IdentityCall, SaveAccount(c)
    PROVE  IdentityInv' /\ LateWriteUndoes
<1> DEFINE r == identityCall[c]
<1>1. /\ On(c, "save") /\ r.step \in {"save", "clear"} /\ UNCHANGED <<joined, everMade, begun>>
      /\ Write(c, r.user, Edited(r), Idle0)
      /\ proven' = [proven EXCEPT ![r.user] = @ \cup Shows(r)]
  BY DEF SaveAccount, On
<1>2. EditsSoundly(r, Edited(r), r.user, proven) /\ Shows(r) \subseteq Address
  BY <1>1, EditedIs
<1>3. r.user \in Account
  BY <1>1, EditingAt
<1>4. /\ proven' \in [Account -> SUBSET Address]
      /\ proven'[r.user] = proven[r.user] \cup Shows(r)
      /\ \A b \in Account : proven[b] \subseteq proven'[b]
  BY <1>1, <1>2, <1>3, ProvenIs
<1>5. ProofsGrow
  BY <1>1, <1>4 DEF ProofsGrow
<1>6. RowIsProven(Edited(r), proven'[r.user], everMade[r.user])
  BY <1>2, <1>4 DEF EditsSoundly
<1> QED
  BY <1>1, <1>2, <1>4, <1>5, <1>6, SaveCopyStep DEF EditsSoundly

-----------------------------------------------------------------------------
(* Accounts are made and deleted.                                            *)

LEMMA NewRowIs ==
    ASSUME NEW e \in Address \cup Subject, NEW source \in {"email", "google", "apple"},
           NEW shown, NEW whose, whose # "never", e \in Subject => whose = e
    PROVE  NewRow(e, source) \in AccountRow /\ RowIsProven(NewRow(e, source), shown, whose)
<1> DEFINE row == NewRow(e, source)
<1>1. row.verified = FALSE /\ row.email = e /\ row.code = NoOne
  BY DEF NewRow
<1>2. row \in AccountRow
  BY DEF NewRow, AccountRow
<1> HIDE DEF row
<1>3. RowIsProven(row, shown, whose)
  BY <1>1 DEF RowIsProven
<1> QED
  BY <1>2, <1>3 DEF row

\* An insert, for a subject or for whoever signs up.
LEMMA MadeIs ==
    ASSUME IdentityInv, NEW a \in Account, NEW e \in Address \cup Subject,
           NEW source \in {"email", "google", "apple"}, NEW whose \in Subject \cup {"signup"},
           e \in Subject => whose = e, MakeAccount(a, NewRow(e, source), whose),
           UNCHANGED <<joined, proven, begun>>
    PROVE  /\ account' \in [Account -> AccountRow \cup {NoOne}]
           /\ everMade' \in [Account -> Subject \cup {NoOne, "signup", "never"}]
           /\ everMade'[a] = whose /\ ProofsGrow /\ RowsAreProven' /\ JoinsAreProven'
           /\ everMade[a] = "never" /\ ~Exists(a)
           /\ \A b \in Account : b # a => account'[b] = account[b]
<1>1. /\ everMade[a] = "never" /\ account' = [account EXCEPT ![a] = NewRow(e, source)]
      /\ everMade' = [everMade EXCEPT ![a] = whose]
  BY DEF MakeAccount
<1>2. IdentityTypeOK
  BY DEF IdentityInv
<1>3. whose # "never"
  BY NamesApart
<1>4. everMade'[a] = whose /\ \A b \in Account : b # a => everMade'[b] = everMade[b]
  BY <1>1, <1>2 DEF IdentityTypeOK
<1>5. NewRow(e, source) \in AccountRow
      /\ RowIsProven(NewRow(e, source), proven'[a], everMade'[a])
  BY <1>3, <1>4, NewRowIs
<1>6. ProofsGrow
  BY <1>1, <1>4 DEF ProofsGrow
<1>7. /\ account' \in [Account -> AccountRow \cup {NoOne}]
      /\ everMade' \in [Account -> Subject \cup {NoOne, "signup", "never"}]
      /\ account'[a] = NewRow(e, source)
      /\ \A b \in Account : b # a => account'[b] = account[b]
  BY <1>1, <1>2, <1>5 DEF IdentityTypeOK
<1>8. ~Exists(a)
  BY <1>1, AccountAt DEF RowIsProven
<1>9. RowsAreProven'
  <2> SUFFICES ASSUME NEW b \in Account, account'[b] # NoOne
               PROVE  RowIsProven(account'[b], proven'[b], everMade'[b])
    BY DEF RowsAreProven
  <2> QED
    BY <1>5, <1>6, <1>7, RowStaysProven DEF IdentityInv, RowsAreProven
<1>10. JoinsAreProven'
  BY <1>6, JoinAt, JoinStaysProven DEF JoinsAreProven
<1> QED
  BY <1>1, <1>4, <1>6, <1>7, <1>8, <1>9, <1>10

\* Everybody under way misses what is written by nobody's request.
LEMMA AllMissIs ==
    ASSUME IdentityTypeOK,
           identityCall' = [d \in IdentityCall |->
               [identityCall[d] EXCEPT !.missed = @ \/ ~On(d, "away")]]
    PROVE  AllMiss /\ identityCall' \in [IdentityCall -> IdentityRequest]
<1>1. \A d \in IdentityCall : identityCall'[d] = [identityCall[d] EXCEPT !.missed = @ \/ ~On(d, "away")]
  OBVIOUS
<1>2. PICK wrote \in BOOLEAN : wrote
  OBVIOUS
<1>3. \A d \in IdentityCall : identityCall'[d] = Late(identityCall[d], wrote)
  BY <1>1, <1>2 DEF Late, On
<1>4. AllMiss
  <2> SUFFICES ASSUME NEW d \in IdentityCall
               PROVE  /\ identityCall'[d] \in IdentityRequest
                      /\ Kin(identityCall[d], identityCall'[d])
                      /\ ~identityCall'[d].missed => identityCall[d].step = "away"
    BY DEF AllMiss, Misses
  <2>1. identityCall[d] \in IdentityRequest
    BY DEF IdentityTypeOK
  <2>2. /\ Late(identityCall[d], wrote) \in IdentityRequest
        /\ Kin(identityCall[d], Late(identityCall[d], wrote))
        /\ ~Late(identityCall[d], wrote).missed /\ wrote => identityCall[d].step = "away"
    BY <2>1, LateIsKin
  <2> QED
    BY <1>2, <1>3, <2>2
<1>5. identityCall' = [d \in IdentityCall |-> identityCall'[d]]
  OBVIOUS
<1> QED
  BY <1>4, <1>5 DEF AllMiss, Misses

LEMMA AllStayGood ==
    ASSUME IdentityInv, ProofsGrow, AllMiss, NEW d \in IdentityCall
    PROVE  CallIsGood(identityCall[d])'
  BY OthersStayGood DEF AllMiss

LEMMA NoWriter == ASSUME AllMiss PROVE LateWriteUndoes
  BY DEF AllMiss, Misses, Kin, Writer, LateWriteUndoes

LEMMA CreateUserStep ==
    ASSUME IdentityInv, NEW a \in Account, NEW e \in Address, CreateUser(a, e)
    PROVE  IdentityInv' /\ LateWriteUndoes
<1>1. MakeAccount(a, NewRow(e, "email"), "signup") /\ UNCHANGED <<joined, proven, begun>>
  BY DEF CreateUser
<1>2. e \notin Subject
  BY NamesApart
<1>3. /\ account' \in [Account -> AccountRow \cup {NoOne}]
      /\ everMade' \in [Account -> Subject \cup {NoOne, "signup", "never"}]
      /\ ProofsGrow /\ RowsAreProven' /\ JoinsAreProven'
  BY <1>1, <1>2, MadeIs
<1>4. AllMiss /\ identityCall' \in [IdentityCall -> IdentityRequest]
  BY AllMissIs DEF CreateUser, IdentityInv
<1>5. IdentityTypeOK'
  BY <1>1, <1>3, <1>4 DEF IdentityInv, IdentityTypeOK
<1>6. IdentityInv'
  BY <1>3, <1>4, <1>5, AllStayGood DEF IdentityInv
<1> QED
  BY <1>4, <1>6, NoWriter

LEMMA DeleteUserStep ==
    ASSUME IdentityInv, NEW a \in Account, DeleteUser(a)
    PROVE  IdentityInv' /\ LateWriteUndoes
<1>1. /\ account' = [account EXCEPT ![a] = NoOne] /\ UNCHANGED <<everMade, proven, begun>>
      /\ joined' = [s \in Subject |->
                    IF joined[s] # NoOne /\ joined[s].owner = a
                    THEN NoOne ELSE joined[s]]
  BY DEF DeleteUser
<1>2. AllMiss /\ identityCall' \in [IdentityCall -> IdentityRequest]
  BY AllMissIs DEF DeleteUser, IdentityInv
<1>3. ProofsGrow
  BY <1>1, ProofsStay
<1>4. IdentityTypeOK'
  BY <1>1, <1>2 DEF IdentityInv, IdentityTypeOK
<1>5. RowsAreProven' /\ JoinsAreProven'
  BY <1>1 DEF IdentityInv, IdentityTypeOK, RowsAreProven, JoinsAreProven
<1>6. IdentityInv'
  BY <1>2, <1>3, <1>4, <1>5, AllStayGood DEF IdentityInv
<1> QED
  BY <1>2, <1>6, NoWriter

LEMMA CreateIsolatedStep ==
    ASSUME IdentityInv, NEW c \in IdentityCall, CreateIsolated(c)
    PROVE  IdentityInv' /\ LateWriteUndoes
<1> DEFINE r == identityCall[c]
<1>1. r \in IdentityRequest /\ Ready(r) /\ r.step = "create"
  BY GoodAt DEF CreateIsolated, On
<1>2. r.kind = "sign-in" /\ r.subject \in Subject /\ r.email \in Address \cup {r.subject}
  BY <1>1 DEF Ready
<1>3. ASSUME NEW a \in Account,
             MakeAccount(a, NewRow(r.email, SocialProvider(r.subject)), r.subject),
             GoOn(c, MovedTo(r, "persist", a), TRUE), UNCHANGED <<joined, proven, begun>>
      PROVE  IdentityInv' /\ LateWriteUndoes
  <2> DEFINE q == MovedTo(r, "persist", a)
  <2>1. r.email \in Address \cup Subject /\ (r.email \in Subject => r.subject = r.email)
    BY <1>2, NamesApart
  <2>2. SocialProvider(r.subject) \in {"email", "google", "apple"}
    BY <1>2, ProviderIs
  <2>3. /\ account' \in [Account -> AccountRow \cup {NoOne}]
        /\ everMade' \in [Account -> Subject \cup {NoOne, "signup", "never"}]
        /\ everMade'[a] = r.subject /\ ProofsGrow /\ RowsAreProven' /\ JoinsAreProven'
        /\ everMade[a] = "never" /\ ~Exists(a)
        /\ \A b \in Account : b # a => account'[b] = account[b]
    BY <1>2, <1>3, <2>1, <2>2, MadeIs
  <2>4. OwnNext(r, q, a)
    BY <1>1, MovedToIs DEF OwnNext
  <2>5. q \in IdentityRequest
    BY <2>4 DEF OwnNext
  <2>6. /\ OthersMiss(c, TRUE) /\ identityCall'[c] = q
        /\ identityCall' \in [IdentityCall -> IdentityRequest]
    BY <1>3, <2>5, GoOnLeaves DEF IdentityInv
  <2>7. IdentityTypeOK'
    BY <1>3, <2>3, <2>6 DEF IdentityInv, IdentityTypeOK
  <2>8. IsOwn(r, a, proven', everMade')
    BY <2>3 DEF IsOwn
  <2>9. Ready(q) /\ CallIsProven(q, proven', everMade') /\ q.copy = NoOne /\ q.step # "delete"
    BY <1>1, <2>4, <2>8, OwnNextIsProven
  <2>10. IdentityInv'
    <3> SUFFICES ASSUME NEW d \in IdentityCall PROVE CallIsGood(identityCall[d])'
      BY <2>3, <2>7 DEF IdentityInv
    <3>1. CASE d = c
      BY <2>5, <2>6, <2>9, <3>1 DEF CallIsGood, Holds, Leaves
    <3>2. CASE d # c
      BY <2>3, <2>6, <3>2, OthersStayGood DEF OthersMiss
    <3> QED
      BY <3>1, <3>2
  <2>11. LateWriteUndoes
    <3> SUFFICES ASSUME NEW b \in Account
                 PROVE  /\ WayIn(b) /\ Exists(b)' => WayIn(b)'
                        /\ Exists(b) /\ Exists(b)' /\ account[b].verified => account'[b].verified
                        /\ ~Exists(b) /\ Exists(b)' => everMade[b] = "never"
      BY DEF LateWriteUndoes
    <3>1. Linked(b)' = Linked(b)
      BY <1>3 DEF Linked
    <3> QED
      BY <2>3, <3>1 DEF WayIn, Exists
  <2> QED
    BY <2>10, <2>11
<1>4. ASSUME Reads(c, Moved(r, "reuse")) PROVE IdentityInv' /\ LateWriteUndoes
  <2>1. CreatesNext(r, Moved(r, "reuse"))
    BY <1>1, <1>2, MovedIs DEF CreatesNext
  <2> QED
    BY <1>1, <1>4, <2>1, CreatesNextIsGood, ReadsStep, StillUndoes DEF Reads
<1>5. ASSUME Reads(c, Isolated(r, "create", r.subject)) PROVE IdentityInv' /\ LateWriteUndoes
  <2>1. CreatesNext(r, Isolated(r, "create", r.subject))
    BY <1>1, <1>2, IsolatedIs DEF CreatesNext
  <2> QED
    BY <1>1, <1>5, <2>1, CreatesNextIsGood, ReadsStep, StillUndoes DEF Reads
<1>6. CASE HolderOf(r.email) = {}
  BY <1>3, <1>6 DEF CreateIsolated, MovedTo
<1>7. CASE HolderOf(r.email) # {} /\ r.email = r.subject
  BY <1>4, <1>7 DEF CreateIsolated, Moved
<1>8. CASE HolderOf(r.email) # {} /\ r.email # r.subject
  <2>1. [r EXCEPT !.email = r.subject] = Isolated(r, "create", r.subject)
    BY <1>1 DEF Isolated, IdentityRequest
  <2>2. Reads(c, [r EXCEPT !.email = r.subject])
    BY <1>8 DEF CreateIsolated
  <2> QED
    BY <1>5, <2>1, <2>2
<1> QED
  BY <1>6, <1>7, <1>8

-----------------------------------------------------------------------------
(* Identities are joined and unlinked.                                       *)

LEMMA JoinStep ==
    ASSUME IdentityInv, NEW c \in IdentityCall, NEW s \in Subject, NEW row \in IdentityRow,
           NEW r \in IdentityRequest, Join(c, s, row, r), JoinIsProven(s, row, proven, everMade),
           Ready(r), CallIsProven(r, proven, everMade), r.copy = NoOne, r.step # "delete"
    PROVE  IdentityInv' /\ LateWriteUndoes
<1>1. /\ joined' = [joined EXCEPT ![s] = row] /\ joined[s] = NoOne
      /\ GoOn(c, r, TRUE) /\ UNCHANGED <<account, everMade, proven, begun>>
  BY DEF Join
<1>2. /\ OthersMiss(c, TRUE) /\ identityCall'[c] = r
      /\ identityCall' \in [IdentityCall -> IdentityRequest]
  BY <1>1, GoOnLeaves DEF IdentityInv
<1>3. ProofsGrow
  BY <1>1, ProofsStay
<1>4. IdentityTypeOK'
  BY <1>1, <1>2 DEF IdentityInv, IdentityTypeOK
<1>5. RowsAreProven' /\ JoinsAreProven'
  BY <1>1 DEF IdentityInv, IdentityTypeOK, RowsAreProven, JoinsAreProven
<1>6. CallIsGood(r)'
  BY <1>1 DEF CallIsGood, Holds, Leaves
<1>7. IdentityInv'
  BY <1>2, <1>3, <1>4, <1>5, <1>6, InvFrom
<1>8. \A t \in Subject : joined[t] # NoOne => joined'[t] = joined[t]
  BY <1>1 DEF IdentityInv, IdentityTypeOK
<1>9. \A a : Linked(a) \subseteq Linked(a)'
  BY <1>8 DEF Linked
<1>10. LateWriteUndoes
  <2> SUFFICES ASSUME NEW b \in Account, WayIn(b) PROVE WayIn(b)'
    BY <1>1 DEF LateWriteUndoes, Exists
  <2> QED
    BY <1>1, <1>9 DEF WayIn, Exists
<1> QED
  BY <1>7, <1>10

LEMMA PersistStep ==
    ASSUME IdentityInv, NEW c \in IdentityCall, PersistLink(c)
    PROVE  IdentityInv' /\ LateWriteUndoes
<1> DEFINE r == identityCall[c]
           row == [owner |-> r.user,
                   by |-> IF r.kind = "link" THEN "owner" ELSE "sign-in",
                   through |-> IF r.email \in Address THEN r.email ELSE NoOne]
<1>1. /\ r \in IdentityRequest /\ Ready(r) /\ r.step = "persist"
      /\ CallIsProven(r, proven, everMade)
  BY GoodAt DEF PersistLink, On
<1>2. r.user \in Account /\ r.subject \in Subject /\ r.kind \in {"sign-in", "link"} /\ r.seen = NoOne
  BY <1>1 DEF Ready
<1>3. CASE Reads(c, Idle0)
  BY <1>3, IdleIsGood, ReadsStep, StillUndoes DEF Reads
<1>4. CASE Join(c, r.subject, row, Idle0)
  <2>1. row \in IdentityRow
    BY <1>2 DEF IdentityRow
  <2>2. JoinIsProven(r.subject, row, proven, everMade)
    BY <1>1, <1>2 DEF JoinIsProven, CallIsProven, JoinsItsOwn, FoundUnder
  <2>3. Idle0 \in IdentityRequest /\ Ready(Idle0) /\ CallIsProven(Idle0, proven, everMade)
        /\ Idle0.copy = NoOne /\ Idle0.step # "delete"
    BY IdleIsGood DEF CallIsGood, Idle0
  <2> QED
    BY <1>2, <1>4, <2>1, <2>2, <2>3, JoinStep
<1> QED
  BY <1>3, <1>4 DEF PersistLink

LEMMA StampStep ==
    ASSUME IdentityInv, NEW c \in IdentityCall, Stamp(c)
    PROVE  IdentityInv' /\ LateWriteUndoes
<1> DEFINE r == identityCall[c]
           next == IF r.kind = "link" THEN Idle0 ELSE Moved(r, "avatar")
<1>1. /\ r \in IdentityRequest /\ Ready(r) /\ r.step = "stamp"
      /\ CallIsProven(r, proven, everMade)
  BY GoodAt DEF Stamp, On
<1>2. /\ r.user \in Account /\ r.subject \in Subject /\ r.kind \in {"sign-in", "link"}
      /\ r.seen \in IdentityRow /\ r.copy = NoOne /\ r.seen # NoOne
  BY <1>1, NoOneAssumption DEF Ready
<1>3. next \in IdentityRequest /\ Ready(next) /\ CallIsProven(next, proven, everMade)
      /\ next.copy = NoOne /\ next.step # "delete"
  <2>1. CASE r.kind = "link"
    BY <2>1, IdleIsGood DEF CallIsGood, Idle0
  <2>2. CASE r.kind # "link"
    <3> DEFINE q == Moved(r, "avatar")
    <3>1. /\ q \in IdentityRequest /\ q.step = "avatar" /\ q.user = r.user
          /\ q.kind = r.kind /\ q.seen = r.seen /\ q.subject = r.subject
          /\ q.copy = r.copy /\ q.email = r.email
      BY <1>1, MovedIs
    <3>2. next = q
      BY <2>2
    <3> HIDE DEF q, next, r
    <3>3. Ready(q)
      BY <1>2, <2>2, <3>1 DEF Ready
    <3>4. CallIsProven(q, proven, everMade)
      BY <1>1, <1>2, <3>1 DEF CallIsProven, JoinsItsOwn
    <3> QED
      BY <1>2, <3>1, <3>2, <3>3, <3>4
  <2> QED
    BY <2>1, <2>2
<1>4. \/ Join(c, r.subject, r.seen, next)
      \/ Reads(c, next)
  BY DEF Stamp, Moved
<1> HIDE DEF next
<1>5. CallIsGood(next)
  BY <1>3 DEF CallIsGood, Holds, Leaves
<1>6. CASE Reads(c, next)
  BY <1>5, <1>6, ReadsStep, StillUndoes DEF Reads
<1>7. CASE Join(c, r.subject, r.seen, next)
  <2>1. JoinIsProven(r.subject, r.seen, proven, everMade)
    BY <1>1, <1>2 DEF CallIsProven
  <2> QED
    BY <1>2, <1>3, <1>7, <2>1, JoinStep
<1> QED
  BY <1>4, <1>6, <1>7

LEMMA UnlinkStep ==
    ASSUME IdentityInv, NEW c \in IdentityCall, Unlink(c)
    PROVE  IdentityInv' /\ LateWriteUndoes
<1> DEFINE r == identityCall[c]
           p == SocialProvider(r.subject)
<1>1. /\ joined' = [s \in Subject |->
                    IF /\ joined[s] # NoOne
                       /\ joined[s].owner = r.user
                       /\ SocialProvider(s) = SocialProvider(r.subject)
                    THEN NoOne ELSE joined[s]]
      /\ GoOn(c, Idle0, TRUE) /\ UNCHANGED <<account, everMade, proven, begun>> /\ r.step = "delete"
  BY DEF Unlink, On
<1>2. Idle0 \in IdentityRequest /\ CallIsGood(Idle0)
  BY IdleIsGood DEF CallIsGood
<1>3. /\ OthersMiss(c, TRUE) /\ identityCall'[c] = Idle0
      /\ identityCall' \in [IdentityCall -> IdentityRequest]
  BY <1>1, <1>2, GoOnLeaves DEF IdentityInv
<1>4. IdentityTypeOK'
  BY <1>1, <1>3 DEF IdentityInv, IdentityTypeOK
<1>5. RowsAreProven' /\ JoinsAreProven'
  BY <1>1 DEF IdentityInv, RowsAreProven, JoinsAreProven
<1>6. CallIsGood(Idle0)'
  BY <1>1, <1>2 DEF CallIsGood, Holds, Leaves, Idle0
<1>7. IdentityInv'
  BY <1>1, <1>3, <1>4, <1>5, <1>6, ProofsStay, InvFrom
<1>8. ASSUME NEW d \in IdentityCall, Writer(d), NEW b \in Account, WayIn(b) PROVE WayIn(b)'
  <2>1. d = c /\ ~r.missed
    BY <1>3, <1>8, OneWriter DEF Writer
  <2>2. LeavesAMethod(r.user, p)
    BY <1>1, <2>1, GoodAt DEF Leaves
  <2>3. CASE b = r.user
    <3>1. Linked(b) \ {p} \subseteq Linked(b)'
      BY <1>1 DEF Linked
    <3> QED
      BY <1>1, <1>8, <2>2, <2>3, <3>1 DEF LeavesAMethod, WayIn, Exists
  <2>4. CASE b # r.user
    <3>1. Linked(b) \subseteq Linked(b)'
      BY <1>1, <2>4 DEF Linked
    <3> QED
      BY <1>1, <1>8, <3>1 DEF WayIn, Exists
  <2> QED
    BY <2>3, <2>4
<1>9. LateWriteUndoes
  BY <1>1, <1>8 DEF LateWriteUndoes, Exists
<1> QED
  BY <1>7, <1>9

-----------------------------------------------------------------------------
LEMMA ReadingSteps ==
    ASSUME IdentityInv, NEW c \in IdentityCall,
           FindKnown(c) \/ Match(c) \/ Reuse(c) \/ AvatarIfMissing(c) \/ Staging(c)
           \/ Clash(c) \/ IdentityThrows(c)
    PROVE  IdentityInv' /\ LateWriteUndoes
<1>1. IdentityInv'
  BY FindKnownStep, MatchStep, ReuseStep, AvatarStep, StagingStep, ClashStep, IdentityThrowsStep
<1>2. UNCHANGED <<account, joined>>
  BY DEF FindKnown, Match, Reuse, AvatarIfMissing, Staging, Clash, IdentityThrows, Reads
<1> QED
  BY <1>1, <1>2, StillUndoes

LEMMA WritingSteps ==
    ASSUME IdentityInv, NEW c \in IdentityCall,
           CreateIsolated(c) \/ AdoptAvatar(c) \/ PersistLink(c) \/ Stamp(c)
           \/ Unlink(c) \/ SaveAccount(c) \/ WrongCode(c) \/ ClearPending(c)
    PROVE  IdentityInv' /\ LateWriteUndoes
  BY CreateIsolatedStep, AdoptStep, PersistStep, StampStep, UnlinkStep, SaveStep, WrongCodeStep, ClearStep

LEMMA ArrivingSteps ==
    ASSUME IdentityInv, NEW c \in IdentityCall,
           \/ \E s \in Subject, v \in BOOLEAN :
                \E e \in Address \cup {NoOne} : SocialAuth(c, s, e, v)
           \/ \E s \in Subject, a \in Account :
                LinkToUser(c, a, s) \/ UnlinkSocialProvider(c, a, s)
           \/ \E a \in Account, kind \in {"profile", "send", "verify", "password", "confirm"} :
                Begin(c, a, kind, NoOne)
           \/ \E a \in Account, e \in Address : Begin(c, a, "request", e)
    PROVE  IdentityInv' /\ LateWriteUndoes
<1>1. ASSUME NEW s \in Subject, NEW v \in BOOLEAN, NEW e \in Address \cup {NoOne}, SocialAuth(c, s, e, v)
      PROVE  IdentityInv' /\ LateWriteUndoes
  BY <1>1, SocialAuthStep, StillUndoes DEF SocialAuth, Arrives
<1>2. ASSUME NEW s \in Subject, NEW a \in Account, LinkToUser(c, a, s)
      PROVE  IdentityInv' /\ LateWriteUndoes
  BY <1>2, LinkStep, StillUndoes DEF LinkToUser, Arrives
<1>3. ASSUME NEW s \in Subject, NEW a \in Account, UnlinkSocialProvider(c, a, s)
      PROVE  IdentityInv' /\ LateWriteUndoes
  BY <1>3, UnlinkAskedStep, StillUndoes DEF UnlinkSocialProvider, Arrives
<1>4. ASSUME NEW a \in Account, NEW kind \in {"profile", "send", "verify", "password", "confirm"},
             Begin(c, a, kind, NoOne)
      PROVE  IdentityInv' /\ LateWriteUndoes
  BY <1>4, BeginStep, StillUndoes DEF Begin, Arrives
<1>5. ASSUME NEW a \in Account, NEW e \in Address, Begin(c, a, "request", e)
      PROVE  IdentityInv' /\ LateWriteUndoes
  BY <1>5, BeginStep, StillUndoes DEF Begin, Arrives
<1> QED
  BY <1>1, <1>2, <1>3, <1>4, <1>5

LEMMA IdentityInvStep ==
    ASSUME IdentityInv, [IdentityNext]_identityVars
    PROVE  IdentityInv' /\ LateWriteUndoes
<1>1. ASSUME NEW a \in Account, DeleteUser(a) \/ \E e \in Address : CreateUser(a, e)
      PROVE  IdentityInv' /\ LateWriteUndoes
  BY <1>1, DeleteUserStep, CreateUserStep
<1>2. CASE UNCHANGED identityVars
  <2>1. UNCHANGED <<account, joined, identityCall, everMade, proven, begun>>
    BY <1>2 DEF identityVars
  <2>2. \A c \in IdentityCall : CallIsGood(identityCall[c])'
    BY <2>1 DEF IdentityInv, CallIsGood, Leaves, LeavesAMethod, Linked
  <2>3. IdentityInv'
    BY <2>1, <2>2 DEF IdentityInv, IdentityTypeOK, RowsAreProven, JoinsAreProven
  <2> QED
    BY <2>1, <2>3, StillUndoes
<1>3. CASE IdentityNext
  BY <1>1, <1>3, ReadingSteps, WritingSteps, ArrivingSteps DEF IdentityNext
<1> QED
  BY <1>2, <1>3

LEMMA IdentityInvShows == IdentityInv => IdentityTypeOK /\ NoPreHijack
  BY DEF IdentityInv, JoinsAreProven, JoinIsProven, NoPreHijack

-------------------------------------------------------------------------------
(* Connections                                                                 *)

\* A request that saves a row it has read holds one.
Equipped(r) ==
    /\ r.step \in {"ask", "store", "mark"} => r.copy \in ConnectionRow
    /\ r.step = "forget" => r.kind = "leave"

\* An authorization that can still be used was not.
StatesAreUnspent ==
    \A s \in OAuthState :
        /\ oauth[s].status \in {"unissued", "open"} => oauth[s].passes = 0
        /\ oauth[s].passes <= 1

\* The map of a process and the requests that lead or await a refresh agree.
Leads(c) ==
    /\ musicCall[c].kind = "token" /\ musicCall[c].provider = "spotify"
    /\ musicCall[c].step \notin {"away", "joined"}
MapInv ==
    /\ \A m \in MusicProcess : refreshing[m] # Absent =>
          Leads(refreshing[m]) /\ musicCall[refreshing[m]].process = m
    /\ \A c \in MusicCall : Leads(c) =>
          musicCall[c].process \in MusicProcess /\ refreshing[musicCall[c].process] = c
    /\ \A c \in MusicCall : At(c, "joined") =>
          musicCall[c].process \in MusicProcess /\ refreshing[musicCall[c].process] # Absent

\* Of a provider that was left there is nothing to go on with, but what a
\* request has in hand that was under way.
InHand == {"exchange", "find", "insert", "migrate", "ask", "store", "mark"}
Carries(r) == r.step \in InHand \/ (r.step # "away" /\ r.copy # Absent)
LeftInv ==
    /\ \A p \in left : connection[p] = Absent /\ p \notin legacy
    /\ \A c \in MusicCall :
          Carries(musicCall[c]) /\ musicCall[c].provider \in left => musicCall[c].old

MusicInv ==
    /\ MusicTypeOK /\ \A c \in MusicCall : Equipped(musicCall[c])
    /\ StatesAreUnspent /\ TokensFitStatus /\ MapInv /\ LeftInv

LEMMA MusicNames ==
    /\ "spotify" \in Provider /\ "apple-music" \in Provider
    /\ Absent \notin MusicCall /\ Absent \notin MusicProcess
    /\ \A offers \in Offers : offers \subseteq Provider
  BY MusicAssumption DEF Provider

-----------------------------------------------------------------------------
(* What a step does to the requests.                                         *)

LeadsAs(r) == r.kind = "token" /\ r.provider = "spotify" /\ r.step \notin {"away", "joined"}

\* No provider is left anew, and what was left stays so.
LeftShrinks ==
    left' \subseteq left /\ \A p \in left' : connection'[p] = Absent /\ p \notin legacy'

HasInHand(r, gone) == Carries(r) /\ r.provider \in gone => r.old

\* One request moves on.
LEMMA MovesOn ==
    ASSUME MusicInv, NEW c \in MusicCall, NEW r \in Request0, Equipped(r),
           musicCall' = [musicCall EXCEPT ![c] = r], refreshing' = refreshing,
           musicCall[c].step # "joined", r.step # "joined",
           LeadsAs(r) <=> Leads(c), Leads(c) => r.process = musicCall[c].process,
           LeftShrinks, HasInHand(r, left')
    PROVE  /\ musicCall' \in [MusicCall -> Request0] /\ refreshing' \in [MusicProcess -> MusicCall \cup {Absent}]
           /\ \A d \in MusicCall : Equipped(musicCall'[d])
           /\ MapInv' /\ LeftInv'
<1>1. /\ musicCall \in [MusicCall -> Request0]
      /\ refreshing \in [MusicProcess -> MusicCall \cup {Absent}]
      /\ \A d \in MusicCall : Equipped(musicCall[d])
  BY DEF MusicInv, MusicTypeOK
<1>2. musicCall'[c] = r /\ \A d \in MusicCall : d # c => musicCall'[d] = musicCall[d]
  BY <1>1
<1>3. musicCall' \in [MusicCall -> Request0] /\ \A d \in MusicCall : Equipped(musicCall'[d])
  BY <1>1, <1>2
<1>4. \A d \in MusicCall : Leads(d)' <=> Leads(d)
  BY <1>2 DEF Leads, LeadsAs
<1>5. \A d \in MusicCall : Leads(d) => musicCall'[d].process = musicCall[d].process
  BY <1>2
<1>6. \A d \in MusicCall : At(d, "joined")' => At(d, "joined") /\ musicCall'[d] = musicCall[d]
  BY <1>2 DEF At
<1>7. MapInv'
  BY <1>1, <1>4, <1>5, <1>6 DEF MusicInv, MapInv
<1>8. LeftInv'
  <2>1. ASSUME NEW d \in MusicCall, Carries(musicCall'[d]), musicCall'[d].provider \in left'
        PROVE  musicCall'[d].old
    BY <1>2, <2>1 DEF HasInHand, LeftShrinks, MusicInv, LeftInv, Carries
  <2> QED
    BY <2>1 DEF LeftShrinks, LeftInv
<1> QED
  BY <1>1, <1>3, <1>7, <1>8

LEMMA AwayIs ==
    /\ Away0 \in Request0 /\ Equipped(Away0) /\ Away0.step = "away" /\ Away0.copy = Absent
    /\ ~Carries(Away0)
<1>1. Away0 \in Request0
  BY DEF Away0, Request0, Provider
<1> QED
  BY <1>1 DEF Away0, Equipped, Carries, InHand

\* One request is over, and those that await it with it.
LEMMA GoesOver ==
    ASSUME MusicInv, NEW c \in MusicCall, musicCall[c].step \notin {"away", "joined"}, Over(c), LeftShrinks
    PROVE  /\ musicCall' \in [MusicCall -> Request0] /\ refreshing' \in [MusicProcess -> MusicCall \cup {Absent}]
           /\ \A d \in MusicCall : Equipped(musicCall'[d])
           /\ MapInv' /\ LeftInv' /\ musicCall'[c] = Away0
<1>1. /\ musicCall \in [MusicCall -> Request0]
      /\ refreshing \in [MusicProcess -> MusicCall \cup {Absent}]
      /\ \A d \in MusicCall : Equipped(musicCall[d])
  BY DEF MusicInv, MusicTypeOK
<1>2. /\ \A d \in MusicCall : musicCall'[d] = IF d \in SettledWith(c) THEN Away0 ELSE musicCall[d]
      /\ \A m \in MusicProcess : refreshing'[m] = IF refreshing[m] = c THEN Absent ELSE refreshing[m]
      /\ musicCall' = [d \in MusicCall |-> musicCall'[d]]
      /\ refreshing' = [m \in MusicProcess |-> refreshing'[m]]
  BY DEF Over
<1>3. /\ c \in SettledWith(c)
      /\ \A d \in MusicCall : d \in SettledWith(c) <=>
            d = c \/ (At(d, "joined") /\ refreshing[musicCall[d].process] = c)
  BY DEF SettledWith
<1>4. \A d \in MusicCall : musicCall'[d] \in Request0 /\ Equipped(musicCall'[d])
  BY <1>1, <1>2, AwayIs
<1>5. musicCall' \in [MusicCall -> Request0] /\ refreshing' \in [MusicProcess -> MusicCall \cup {Absent}]
  BY <1>1, <1>2, <1>4
<1>6. \A d \in MusicCall : Leads(d)' <=> Leads(d) /\ d # c
  BY <1>2, <1>3, AwayIs DEF Leads, At
<1>7. \A d \in MusicCall : Leads(d) /\ d # c => musicCall'[d] = musicCall[d]
  BY <1>2, <1>3 DEF Leads, At
<1>8. \A d \in MusicCall : At(d, "joined")' =>
         At(d, "joined") /\ musicCall'[d] = musicCall[d] /\ refreshing[musicCall[d].process] # c
  BY <1>2, <1>3, AwayIs DEF At
<1>9. MapInv'
  <2>1. ASSUME NEW m \in MusicProcess, refreshing'[m] # Absent
        PROVE  (Leads(refreshing[m]) /\ musicCall[refreshing[m]].process = m)'
    <3>1. refreshing'[m] = refreshing[m] /\ refreshing[m] # c /\ refreshing[m] # Absent
      BY <1>2, <2>1
    <3>2. refreshing[m] \in MusicCall /\ Leads(refreshing[m]) /\ musicCall[refreshing[m]].process = m
      BY <1>1, <3>1 DEF MusicInv, MapInv
    <3>3. \A d \in MusicCall : d = refreshing[m] => Leads(d)' /\ musicCall'[d].process = m
      BY <1>6, <1>7, <3>1, <3>2
    <3> QED
      BY <3>1, <3>2, <3>3 DEF Leads
  <2>2. ASSUME NEW d \in MusicCall, Leads(d)'
        PROVE  (musicCall[d].process \in MusicProcess /\ refreshing[musicCall[d].process] = d)'
    BY <1>2, <1>6, <1>7, <2>2 DEF MusicInv, MapInv
  <2>3. ASSUME NEW d \in MusicCall, At(d, "joined")'
        PROVE  (musicCall[d].process \in MusicProcess /\ refreshing[musicCall[d].process] # Absent)'
    BY <1>2, <1>8, <2>3 DEF MusicInv, MapInv
  <2> QED
    BY <2>1, <2>2, <2>3 DEF MapInv
<1>10. LeftInv'
  <2>1. ASSUME NEW d \in MusicCall, Carries(musicCall'[d]), musicCall'[d].provider \in left'
        PROVE  musicCall'[d].old
    <3>1. musicCall'[d] = musicCall[d]
      BY <1>2, <2>1, AwayIs
    <3> QED
      BY <2>1, <3>1 DEF LeftShrinks, MusicInv, LeftInv
  <2> QED
    BY <2>1 DEF LeftShrinks, LeftInv
<1> QED
  BY <1>2, <1>3, <1>4, <1>5, <1>9, <1>10

-----------------------------------------------------------------------------
(* What a step does to the rows.                                             *)

RowFits(row) == row.status = "connected" <=> row.access # "none" \/ row.refresh

WithId(row, id) == [row EXCEPT !.id = id]

LEMMA WithIdIs ==
    ASSUME NEW row \in ConnectionRow, NEW id \in 0 .. MaxRow, RowFits(row)
    PROVE  WithId(row, id) \in ConnectionRow /\ RowFits(WithId(row, id))
<1>1. WithId(row, id).refresh = row.refresh
  BY DEF WithId, ConnectionRow
<1>2. WithId(row, id) \in ConnectionRow /\ WithId(row, id).access = row.access
      /\ WithId(row, id).status = row.status
  BY DEF WithId, ConnectionRow
<1> QED
  BY <1>1, <1>2 DEF RowFits

LEMMA RowSaved ==
    ASSUME MusicInv, NEW p \in Provider, NEW e \in ConnectionRow, RowFits(e), Save(p, e),
           legacy' \subseteq legacy
    PROVE  /\ connection' \in [Provider -> ConnectionRow \cup {Absent}] /\ made' \in 0 .. MaxRow
           /\ left' \subseteq Provider /\ p \notin left' /\ TokensFitStatus' /\ LeftShrinks
           /\ \A q \in Provider : q # p => connection'[q] = connection[q]
<1>1. MusicTypeOK
  BY DEF MusicInv
<1>2. made' \in 0 .. MaxRow /\ (e.id = 0 => made + 1 \in 0 .. MaxRow)
  BY <1>1, MusicAssumption DEF Save, MusicTypeOK
<1> DEFINE row == IF e.id = 0 THEN WithId(e, made + 1) ELSE e
<1>3. row \in ConnectionRow /\ RowFits(row)
  BY <1>2, WithIdIs
<1>4. connection' = [connection EXCEPT ![p] = row] /\ left' = left \ {p}
  BY DEF Save, WithId
<1> HIDE DEF row
<1>5. /\ connection' \in [Provider -> ConnectionRow \cup {Absent}]
      /\ connection'[p] = row
      /\ \A q \in Provider : q # p => connection'[q] = connection[q]
  BY <1>1, <1>3, <1>4 DEF MusicTypeOK
<1>6. left' \subseteq Provider
  BY <1>1, <1>4 DEF MusicTypeOK
<1>7. TokensFitStatus'
  <2> SUFFICES ASSUME NEW q \in Provider, connection'[q] # Absent PROVE RowFits(connection'[q])
    BY DEF TokensFitStatus, RowFits
  <2> QED
    BY <1>3, <1>5 DEF MusicInv, TokensFitStatus, RowFits
<1>8. LeftShrinks
  BY <1>4, <1>5, <1>6 DEF LeftShrinks, MusicInv, LeftInv
<1> QED
  BY <1>2, <1>4, <1>5, <1>6, <1>7, <1>8

\* What the steps of a request that leaves the rows as they are keep.
LEMMA RowsStay ==
    ASSUME MusicInv, UNCHANGED <<offered, connection, made, platforms, oauth>>, legacy' \subseteq legacy,
           left' \subseteq left,
           musicCall' \in [MusicCall -> Request0], refreshing' \in [MusicProcess -> MusicCall \cup {Absent}],
           \A d \in MusicCall : Equipped(musicCall'[d]), MapInv', LeftInv'
    PROVE  MusicInv'
<1>1. MusicTypeOK'
  BY DEF MusicInv, MusicTypeOK
<1>2. StatesAreUnspent' /\ TokensFitStatus'
  BY DEF MusicInv, StatesAreUnspent, TokensFitStatus
<1> QED
  BY <1>1, <1>2 DEF MusicInv

LEMMA LeftStays == ASSUME MusicInv, UNCHANGED <<connection, left>>, legacy' \subseteq legacy PROVE LeftShrinks
  BY DEF MusicInv, LeftInv, LeftShrinks

LEMMA RequestAt ==
    ASSUME MusicInv, NEW c \in MusicCall
    PROVE  LET r == musicCall[c] IN
           /\ r \in Request0 /\ Equipped(r) /\ r.provider \in Provider
           /\ HasInHand(r, left)
  BY DEF MusicInv, MusicTypeOK, LeftInv, HasInHand, Request0

Stepped(r, step) == [r EXCEPT !.step = step]

LEMMA SteppedIs ==
    ASSUME NEW r \in Request0,
           NEW step \in {"exchange", "find", "insert", "look", "migrate",
                         "clear", "ask", "store", "mark", "user", "keep", "forget"}
    PROVE  /\ Stepped(r, step) \in Request0 /\ Stepped(r, step).step = step
           /\ Stepped(r, step).kind = r.kind /\ Stepped(r, step).provider = r.provider
           /\ Stepped(r, step).process = r.process /\ Stepped(r, step).copy = r.copy
           /\ Stepped(r, step).old <=> r.old
<1>1. Stepped(r, step).old = r.old
  BY DEF Stepped, Request0
<1> QED
  BY <1>1 DEF Stepped, Request0

\* A request under way takes its next step.
LEMMA NextStep ==
    ASSUME MusicInv, NEW c \in MusicCall, musicCall[c].step \notin {"away", "joined"},
           NEW step \in {"exchange", "find", "insert", "look", "migrate",
                         "clear", "ask", "store", "mark", "user", "keep", "forget"},
           musicCall' = [musicCall EXCEPT ![c] = Stepped(musicCall[c], step)], refreshing' = refreshing,
           Equipped(Stepped(musicCall[c], step)), LeftShrinks,
           step \in InHand => Carries(musicCall[c]) \/ musicCall[c].provider \notin left'
    PROVE  /\ musicCall' \in [MusicCall -> Request0] /\ refreshing' \in [MusicProcess -> MusicCall \cup {Absent}]
           /\ \A d \in MusicCall : Equipped(musicCall'[d])
           /\ MapInv' /\ LeftInv'
<1> DEFINE r == musicCall[c]
           q == Stepped(r, step)
<1>1. r \in Request0 /\ HasInHand(r, left)
  BY RequestAt
<1>2. /\ q \in Request0 /\ q.step = step /\ q.kind = r.kind /\ q.provider = r.provider
      /\ q.process = r.process /\ q.copy = r.copy /\ (q.old <=> r.old)
  BY <1>1, SteppedIs
<1> HIDE DEF q
<1>3. LeadsAs(q) <=> Leads(c)
  BY <1>2 DEF LeadsAs, Leads
<1>4. HasInHand(q, left')
  BY <1>1, <1>2 DEF HasInHand, LeftShrinks, Carries
<1>5. Equipped(q) /\ musicCall' = [musicCall EXCEPT ![c] = q]
  BY DEF q
<1> QED
  BY <1>2, <1>3, <1>4, <1>5, MovesOn

-----------------------------------------------------------------------------
(* The steps of a request.                                                   *)

LEMMA ConnectionsStay == ASSUME UNCHANGED connection PROVE OldCallBringsBack
  BY DEF OldCallBringsBack

\* A save by a request: only an old one brings back what was left.
LEMMA SavingIsOld ==
    ASSUME MusicInv, NEW c \in MusicCall, musicCall[c].step \in InHand, musicCall'[c] # musicCall[c],
           \A q \in Provider : q # musicCall[c].provider => connection'[q] = connection[q]
    PROVE  OldCallBringsBack
<1> SUFFICES ASSUME NEW p \in left, connection[p] = Absent, connection'[p] # Absent
             PROVE  \E d \in MusicCall : /\ musicCall[d].old
                                         /\ musicCall[d].provider = p
                                         /\ musicCall'[d] # musicCall[d]
  BY DEF OldCallBringsBack
<1>1. p \in Provider
  BY DEF MusicInv, MusicTypeOK
<1>2. musicCall[c].provider = p
  BY <1>1
<1>3. musicCall[c].old
  BY <1>2 DEF MusicInv, LeftInv, Carries
<1> QED
  BY <1>2, <1>3

Entered(kind, p, m, step) ==
    [Away0 EXCEPT !.kind = kind, !.provider = p, !.process = m, !.step = step]

LEMMA EnteredIs ==
    ASSUME NEW kind \in {"connect", "token", "list", "leave", "profile"}, NEW p \in Provider,
           NEW m \in MusicProcess,
           NEW step \in {"exchange", "find", "joined", "look", "migrate", "user"}
    PROVE  LET r == Entered(kind, p, m, step) IN
           /\ r \in Request0 /\ Equipped(r) /\ r.kind = kind /\ r.provider = p
           /\ r.process = m /\ r.step = step /\ r.copy = Absent
<1>1. LET r == Entered(kind, p, m, step) IN
      /\ r \in Request0 /\ r.kind = kind /\ r.provider = p /\ r.process = m /\ r.step = step
      /\ r.copy = Absent
  BY DEF Entered, Away0, Request0
<1> QED
  BY <1>1 DEF Equipped

LEMMA EnterStep ==
    ASSUME MusicInv, NEW c \in MusicCall, NEW p \in Provider, NEW m \in MusicProcess,
           NEW kind \in {"connect", "token", "list", "leave", "profile"},
           NEW step \in {"exchange", "find", "look", "migrate", "user"},
           Enter(c, kind, p, m, step), refreshing' = refreshing, ~(kind = "token" /\ p = "spotify"),
           LeftShrinks, step \in InHand => p \notin left'
    PROVE  /\ musicCall' \in [MusicCall -> Request0] /\ refreshing' \in [MusicProcess -> MusicCall \cup {Absent}]
           /\ \A d \in MusicCall : Equipped(musicCall'[d])
           /\ MapInv' /\ LeftInv'
<1> DEFINE r == Entered(kind, p, m, step)
<1>1. /\ r \in Request0 /\ Equipped(r) /\ r.kind = kind /\ r.provider = p
      /\ r.process = m /\ r.step = step /\ r.copy = Absent
  BY EnteredIs
<1>2. musicCall[c].step = "away" /\ musicCall' = [musicCall EXCEPT ![c] = r]
  BY DEF Enter, Entered, At
<1> HIDE DEF r
<1>3. ~LeadsAs(r) /\ ~Leads(c)
  BY <1>1, <1>2 DEF LeadsAs, Leads
<1>4. HasInHand(r, left')
  BY <1>1 DEF HasInHand, Carries
<1> QED
  BY <1>1, <1>2, <1>3, <1>4, MovesOn

LEMMA ExchangedStep ==
    ASSUME MusicInv, UNCHANGED offered, NEW c \in MusicCall, Exchanged(c)
    PROVE  MusicInv' /\ OldCallBringsBack
<1>1. /\ musicCall[c].step = "exchange"
      /\ musicCall' = [musicCall EXCEPT ![c] = Stepped(musicCall[c], "find")]
      /\ UNCHANGED <<connection, made, legacy, platforms, oauth, refreshing, left>>
  BY DEF Exchanged, At, Step, Stepped
<1>2. Equipped(Stepped(musicCall[c], "find"))
  BY RequestAt, SteppedIs DEF Equipped
<1>3. LeftShrinks
  BY <1>1, LeftStays
<1>4. /\ musicCall' \in [MusicCall -> Request0] /\ refreshing' \in [MusicProcess -> MusicCall \cup {Absent}]
      /\ \A d \in MusicCall : Equipped(musicCall'[d])
      /\ MapInv' /\ LeftInv'
  BY <1>1, <1>2, <1>3, NextStep DEF InHand, Carries
<1> QED
  BY <1>1, <1>4, RowsStay, ConnectionsStay

\* ... with a row it has read, or a list.
Holding(r, row, step) == [r EXCEPT !.copy = row, !.step = step]
Listing(r, list) == [r EXCEPT !.list = list, !.step = "keep"]

LEMMA HoldingIs ==
    ASSUME NEW r \in Request0, NEW row \in ConnectionRow \cup {Absent}, NEW step \in {"insert", "ask", "mark"}
    PROVE  LET q == Holding(r, row, step) IN
           /\ q \in Request0 /\ q.step = step /\ q.kind = r.kind /\ q.provider = r.provider
           /\ q.process = r.process /\ q.copy = row /\ (q.old <=> r.old)
<1>1. Holding(r, row, step).old = r.old
  BY DEF Holding, Request0
<1> QED
  BY <1>1 DEF Holding, Request0

LEMMA ListingIs ==
    ASSUME NEW r \in Request0, NEW list \in SUBSET Provider
    PROVE  LET q == Listing(r, list) IN
           /\ q \in Request0 /\ q.step = "keep" /\ q.kind = r.kind /\ q.provider = r.provider
           /\ q.process = r.process /\ q.copy = r.copy /\ (q.old <=> r.old)
<1>1. Listing(r, list).old = r.old
  BY DEF Listing, Request0
<1> QED
  BY <1>1 DEF Listing, Request0

LEMMA HoldingStep ==
    ASSUME MusicInv, UNCHANGED offered, NEW c \in MusicCall, NEW step \in {"insert", "ask", "mark"},
           musicCall[c].step \in {"find", "look"},
           NEW row \in {connection[musicCall[c].provider], musicCall[c].copy},
           musicCall' = [musicCall EXCEPT ![c] = Holding(musicCall[c], row, step)],
           step \in {"ask", "mark"} => row # Absent,
           step = "insert" => musicCall[c].step = "find",
           UNCHANGED <<connection, made, legacy, platforms, oauth, refreshing, left>>
    PROVE  MusicInv' /\ OldCallBringsBack
<1> DEFINE r == musicCall[c]
           q == Holding(r, row, step)
<1>1. r \in Request0 /\ r.provider \in Provider /\ HasInHand(r, left)
  BY RequestAt
<1>2. row \in ConnectionRow \cup {Absent}
  BY <1>1 DEF MusicInv, MusicTypeOK, Request0
<1>3. /\ q \in Request0 /\ q.step = step /\ q.kind = r.kind /\ q.provider = r.provider
      /\ q.process = r.process /\ q.copy = row /\ (q.old <=> r.old)
  BY <1>1, <1>2, HoldingIs
<1> HIDE DEF q
<1>4. LeadsAs(q) <=> Leads(c)
  BY <1>3 DEF LeadsAs, Leads
<1>5. HasInHand(q, left')
  <2>1. step \in {"ask", "mark"} => r.provider \notin left \/ Carries(r)
    BY DEF MusicInv, LeftInv, Carries
  <2>2. step = "insert" => Carries(r)
    BY DEF Carries, InHand
  <2> QED
    BY <1>1, <1>3, <2>1, <2>2 DEF HasInHand
<1>6. Equipped(q) /\ musicCall' = [musicCall EXCEPT ![c] = q]
  BY <1>2, <1>3 DEF q, Equipped
<1>7. LeftShrinks
  BY LeftStays
<1>8. /\ musicCall' \in [MusicCall -> Request0] /\ refreshing' \in [MusicProcess -> MusicCall \cup {Absent}]
      /\ \A d \in MusicCall : Equipped(musicCall'[d])
      /\ MapInv' /\ LeftInv'
  BY <1>3, <1>4, <1>5, <1>6, <1>7, MovesOn
<1> QED
  BY <1>8, RowsStay, ConnectionsStay

LEMMA FindExistingStep ==
    ASSUME MusicInv, UNCHANGED offered, NEW c \in MusicCall, FindExisting(c)
    PROVE  MusicInv' /\ OldCallBringsBack
  BY HoldingStep DEF FindExisting, At, Holding

LEMMA ReadUserStep ==
    ASSUME MusicInv, UNCHANGED offered, NEW c \in MusicCall, ReadUser(c)
    PROVE  MusicInv' /\ OldCallBringsBack
<1> DEFINE r == musicCall[c]
           q == Listing(r, platforms)
<1>1. r \in Request0 /\ HasInHand(r, left)
  BY RequestAt
<1>2. platforms \in SUBSET Provider
  BY DEF MusicInv, MusicTypeOK
<1>3. /\ q \in Request0 /\ q.step = "keep" /\ q.kind = r.kind /\ q.provider = r.provider
      /\ q.process = r.process /\ q.copy = r.copy /\ (q.old <=> r.old)
  BY <1>1, <1>2, ListingIs
<1>4. /\ r.step = "user" /\ musicCall' = [musicCall EXCEPT ![c] = q]
      /\ UNCHANGED <<connection, made, legacy, platforms, oauth, refreshing, left>>
  BY DEF ReadUser, At, Listing
<1> HIDE DEF q
<1>5. LeadsAs(q) <=> Leads(c)
  BY <1>3, <1>4 DEF LeadsAs, Leads
<1>6. HasInHand(q, left') /\ Equipped(q)
  BY <1>1, <1>3, <1>4 DEF HasInHand, Carries, InHand, Equipped
<1>7. LeftShrinks
  BY <1>4, LeftStays
<1>8. /\ musicCall' \in [MusicCall -> Request0] /\ refreshing' \in [MusicProcess -> MusicCall \cup {Absent}]
      /\ \A d \in MusicCall : Equipped(musicCall'[d])
      /\ MapInv' /\ LeftInv'
  BY <1>3, <1>4, <1>5, <1>6, <1>7, MovesOn
<1> QED
  BY <1>4, <1>8, RowsStay, ConnectionsStay

LEMMA SaveUserStep ==
    ASSUME MusicInv, UNCHANGED offered, NEW c \in MusicCall, SaveUser(c)
    PROVE  MusicInv' /\ OldCallBringsBack
<1> DEFINE r == musicCall[c]
<1>1. r \in Request0 /\ r.provider \in Provider /\ r.list \subseteq Provider
  BY RequestAt DEF Request0
<1>2. /\ r.step = "keep" /\ UNCHANGED <<connection, made, legacy, oauth, left>>
  BY DEF SaveUser, At
<1>3. platforms' \subseteq Provider
  BY <1>1 DEF SaveUser, MusicInv, MusicTypeOK
<1>4. LeftShrinks
  BY <1>2, LeftStays
<1>5. /\ musicCall' \in [MusicCall -> Request0] /\ refreshing' \in [MusicProcess -> MusicCall \cup {Absent}]
      /\ \A d \in MusicCall : Equipped(musicCall'[d])
      /\ MapInv' /\ LeftInv'
  <2>1. CASE r.kind = "leave"
    <3>1. /\ musicCall' = [musicCall EXCEPT ![c] = Stepped(r, "forget")] /\ refreshing' = refreshing
      BY <2>1 DEF SaveUser, Step, Stepped
    <3>2. Equipped(Stepped(r, "forget"))
      BY <1>1, <2>1, SteppedIs DEF Equipped
    <3> QED
      BY <1>2, <1>4, <3>1, <3>2, NextStep DEF InHand
  <2>2. CASE r.kind # "leave"
    <3>1. Over(c)
      BY <2>2 DEF SaveUser
    <3> QED
      BY <1>2, <1>4, <3>1, GoesOver
  <2> QED
    BY <2>1, <2>2
<1>6. MusicTypeOK'
  BY <1>2, <1>3, <1>5 DEF MusicInv, MusicTypeOK
<1>7. StatesAreUnspent' /\ TokensFitStatus'
  BY <1>2 DEF MusicInv, StatesAreUnspent, TokensFitStatus
<1> QED
  BY <1>2, <1>5, <1>6, <1>7, ConnectionsStay DEF MusicInv

LEMMA OverStep ==
    ASSUME MusicInv, UNCHANGED offered, NEW c \in MusicCall, musicCall[c].step \notin {"away", "joined"},
           Over(c), UNCHANGED <<connection, made, platforms, oauth, left>>, legacy' \subseteq legacy
    PROVE  MusicInv' /\ OldCallBringsBack
<1>1. LeftShrinks
  BY LeftStays
<1>2. /\ musicCall' \in [MusicCall -> Request0] /\ refreshing' \in [MusicProcess -> MusicCall \cup {Absent}]
      /\ \A d \in MusicCall : Equipped(musicCall'[d])
      /\ MapInv' /\ LeftInv'
  BY <1>1, GoesOver
<1> QED
  BY <1>2, RowsStay, ConnectionsStay

\* A step that writes nothing but, perhaps, the legacy tokens.
LEMMA QuietStep ==
    ASSUME MusicInv, UNCHANGED offered, NEW c \in MusicCall, musicCall[c].step \notin {"away", "joined"},
           NEW step \in {"look", "migrate", "store", "mark"},
           musicCall' = [musicCall EXCEPT ![c] = Stepped(musicCall[c], step)],
           step \in {"store", "mark"} => musicCall[c].step = "ask",
           step = "migrate" => musicCall[c].provider \in legacy,
           UNCHANGED <<connection, made, platforms, oauth, refreshing, left>>, legacy' \subseteq legacy
    PROVE  MusicInv' /\ OldCallBringsBack
<1>1. LeftShrinks
  BY LeftStays
<1>2. Equipped(Stepped(musicCall[c], step))
  BY RequestAt, SteppedIs DEF Equipped
<1>3. step \in InHand => Carries(musicCall[c]) \/ musicCall[c].provider \notin left'
  BY DEF MusicInv, LeftInv, InHand, Carries
<1>4. /\ musicCall' \in [MusicCall -> Request0] /\ refreshing' \in [MusicProcess -> MusicCall \cup {Absent}]
      /\ \A d \in MusicCall : Equipped(musicCall'[d])
      /\ MapInv' /\ LeftInv'
  BY <1>1, <1>2, <1>3, NextStep
<1> QED
  BY <1>4, RowsStay, ConnectionsStay

LEMMA LookStep ==
    ASSUME MusicInv, UNCHANGED offered, NEW c \in MusicCall, Look(c)
    PROVE  MusicInv' /\ OldCallBringsBack
<1> DEFINE r == musicCall[c]
           p == r.provider
           row == IF connection[p] = Absent THEN r.copy ELSE connection[p]
<1>1. r.step = "look" /\ UNCHANGED <<connection, made, legacy, platforms, oauth, left>>
  BY DEF Look, At
<1>2. CASE row = Absent /\ p \in legacy /\ Step(c, "migrate") /\ UNCHANGED refreshing
  BY <1>1, <1>2, QuietStep DEF Step, Stepped
<1>3. CASE Over(c)
  BY <1>1, <1>3, OverStep
<1>4. CASE /\ row # Absent
           /\ musicCall' = [musicCall EXCEPT ![c].copy = row,
                  ![c].step = IF p = "spotify" /\ row.refresh THEN "ask" ELSE "mark"]
           /\ UNCHANGED refreshing
  <2>1. PICK step \in {"ask", "mark"} : step = IF p = "spotify" /\ row.refresh THEN "ask" ELSE "mark"
    OBVIOUS
  <2>2. musicCall' = [musicCall EXCEPT ![c] = Holding(r, row, step)]
    BY <1>4, <2>1 DEF Holding
  <2> QED
    BY <1>1, <1>4, <2>2, HoldingStep
<1> QED
  BY <1>2, <1>3, <1>4 DEF Look

LEMMA ClearLegacyStep ==
    ASSUME MusicInv, UNCHANGED offered, NEW c \in MusicCall, ClearLegacy(c)
    PROVE  MusicInv' /\ OldCallBringsBack
<1>1. /\ musicCall[c].step = "clear" /\ legacy' \subseteq legacy
      /\ UNCHANGED <<connection, made, platforms, oauth, left>>
  BY DEF ClearLegacy, At
<1>2. CASE Step(c, "look") /\ UNCHANGED refreshing
  BY <1>1, <1>2, QuietStep DEF Step, Stepped
<1>3. CASE Over(c)
  BY <1>1, <1>3, OverStep
<1> QED
  BY <1>2, <1>3 DEF ClearLegacy

LEMMA RefreshedStep ==
    ASSUME MusicInv, UNCHANGED offered, NEW c \in MusicCall, Refreshed(c)
    PROVE  MusicInv' /\ OldCallBringsBack
<1>1. musicCall[c].step = "ask" /\ UNCHANGED <<connection, made, legacy, platforms, oauth, left>>
  BY DEF Refreshed, At
<1>2. CASE Step(c, "store") /\ UNCHANGED refreshing
  BY <1>1, <1>2, QuietStep DEF Step, Stepped
<1>3. CASE Step(c, "mark") /\ UNCHANGED refreshing
  BY <1>1, <1>3, QuietStep DEF Step, Stepped
<1>4. CASE Over(c)
  BY <1>1, <1>4, OverStep
<1> QED
  BY <1>2, <1>3, <1>4 DEF Refreshed

LEMMA MusicThrowsStep ==
    ASSUME MusicInv, UNCHANGED offered, NEW c \in MusicCall, MusicThrows(c)
    PROVE  MusicInv' /\ OldCallBringsBack
  BY OverStep DEF MusicThrows

-----------------------------------------------------------------------------
(* A step that saves a row.                                                  *)

LEMMA SavingStep ==
    ASSUME MusicInv, UNCHANGED <<offered, legacy, platforms, oauth>>, NEW c \in MusicCall,
           musicCall[c].step \in InHand,
           NEW e \in ConnectionRow, RowFits(e), Save(musicCall[c].provider, e),
           \/ /\ Over(c)
           \/ \E step \in {"clear", "user"} :
                /\ musicCall' = [musicCall EXCEPT ![c] = Stepped(musicCall[c], step)]
                /\ refreshing' = refreshing
    PROVE  MusicInv' /\ OldCallBringsBack
<1> DEFINE r == musicCall[c]
           p == r.provider
<1>1. r \in Request0 /\ p \in Provider /\ Equipped(r)
  BY RequestAt
<1>2. /\ connection' \in [Provider -> ConnectionRow \cup {Absent}] /\ made' \in 0 .. MaxRow
      /\ left' \subseteq Provider /\ p \notin left' /\ TokensFitStatus' /\ LeftShrinks
      /\ \A q \in Provider : q # p => connection'[q] = connection[q]
  BY <1>1, RowSaved
<1>3. r.step \notin {"away", "joined"}
  BY DEF InHand
<1>4. /\ musicCall' \in [MusicCall -> Request0] /\ refreshing' \in [MusicProcess -> MusicCall \cup {Absent}]
      /\ \A d \in MusicCall : Equipped(musicCall'[d])
      /\ MapInv' /\ LeftInv' /\ musicCall'[c] # musicCall[c]
  <2>1. CASE Over(c)
    BY <1>2, <1>3, <2>1, GoesOver, AwayIs
  <2>2. ASSUME NEW step \in {"clear", "user"},
               musicCall' = [musicCall EXCEPT ![c] = Stepped(r, step)], refreshing' = refreshing
        PROVE  /\ musicCall' \in [MusicCall -> Request0] /\ refreshing' \in [MusicProcess -> MusicCall \cup {Absent}]
               /\ \A d \in MusicCall : Equipped(musicCall'[d])
               /\ MapInv' /\ LeftInv' /\ musicCall'[c] # musicCall[c]
    <3>1. Stepped(r, step).step = step /\ Equipped(Stepped(r, step))
      BY <1>1, SteppedIs DEF Equipped
    <3>2. musicCall'[c] = Stepped(r, step)
      BY <2>2 DEF MusicInv, MusicTypeOK
    <3>3. musicCall'[c] # musicCall[c]
      BY <3>1, <3>2 DEF InHand
    <3> QED
      BY <1>2, <1>3, <2>2, <3>1, <3>3, NextStep DEF InHand
  <2> QED
    BY <2>1, <2>2
<1>5. MusicTypeOK'
  BY <1>2, <1>4 DEF MusicInv, MusicTypeOK
<1>6. StatesAreUnspent'
  BY DEF MusicInv, StatesAreUnspent
<1>7. OldCallBringsBack
  BY <1>2, <1>4, SavingIsOld
<1> QED
  BY <1>2, <1>4, <1>5, <1>6, <1>7 DEF MusicInv

LEMMA StoreConnectionStep ==
    ASSUME MusicInv, UNCHANGED offered, NEW c \in MusicCall, StoreConnection(c)
    PROVE  MusicInv' /\ OldCallBringsBack
<1> DEFINE r == musicCall[c]
           copy == r.copy
<1>1. r \in Request0 /\ r.step = "insert" /\ UNCHANGED <<legacy, platforms, oauth, refreshing>>
      /\ musicCall' = [musicCall EXCEPT ![c] = Stepped(r, "user")]
  BY RequestAt DEF StoreConnection, At, Step, Stepped
<1>2. copy \in ConnectionRow \cup {Absent}
  BY <1>1 DEF Request0
<1>3. PICK granted \in BOOLEAN :
         Save(r.provider, [id |-> IF copy = Absent THEN 0 ELSE copy.id, status |-> "connected",
                  access |-> "fresh",
                  refresh |-> r.provider = "spotify" /\ (granted \/ (copy # Absent /\ copy.refresh))])
  BY DEF StoreConnection
<1>4. PICK refresh \in BOOLEAN : refresh = (r.provider = "spotify" /\ (granted \/ (copy # Absent /\ copy.refresh)))
  OBVIOUS
<1> DEFINE id == IF copy = Absent THEN 0 ELSE copy.id
           e == [id |-> id, status |-> "connected", access |-> "fresh", refresh |-> refresh]
<1>5. 0 \in 0 .. MaxRow
  BY MusicAssumption
<1>6. id \in 0 .. MaxRow
  BY <1>2, <1>5 DEF ConnectionRow
<1>7. Save(r.provider, e)
  BY <1>3, <1>4
<1> HIDE DEF id
<1>8. e \in ConnectionRow /\ RowFits(e)
  BY <1>6 DEF ConnectionRow, RowFits
<1> QED
  BY <1>1, <1>7, <1>8, SavingStep DEF InHand

Migrated(r, row) == [r EXCEPT !.step = "clear", !.copy = row]

LEMMA MigratedIs ==
    ASSUME NEW r \in Request0, NEW row \in ConnectionRow \cup {Absent}
    PROVE  LET q == Migrated(r, row) IN
           /\ q \in Request0 /\ q.step = "clear" /\ q.kind = r.kind /\ q.provider = r.provider
           /\ q.process = r.process /\ Equipped(q)
<1>1. /\ Migrated(r, row) \in Request0 /\ Migrated(r, row).step = "clear"
      /\ Migrated(r, row).kind = r.kind /\ Migrated(r, row).provider = r.provider
      /\ Migrated(r, row).process = r.process
  BY DEF Migrated, Request0
<1> QED
  BY <1>1 DEF Equipped

LEMMA MigrateStep ==
    ASSUME MusicInv, UNCHANGED offered, NEW c \in MusicCall, Migrate(c)
    PROVE  MusicInv' /\ OldCallBringsBack
<1> DEFINE r == musicCall[c]
           p == r.provider
           e == [id |-> 0, status |-> "connected",
                 access |-> IF p = "spotify" THEN "none" ELSE "fresh",
                 refresh |-> p = "spotify"]
           row == IF p = "spotify" THEN WithId(e, made + 1) ELSE r.copy
           q == Migrated(r, row)
<1>1. r.step = "migrate" /\ UNCHANGED <<legacy, platforms, oauth, refreshing>> /\ Save(p, e)
  BY DEF Migrate, At
<1>2. 0 \in 0 .. MaxRow /\ made + 1 \in 0 .. MaxRow
  BY <1>1, MusicAssumption DEF Save, MusicInv, MusicTypeOK
<1>3. e \in ConnectionRow
  BY <1>2 DEF ConnectionRow
<1>4. RowFits(e)
  BY DEF RowFits
<1>5. r \in Request0 /\ p \in Provider
  BY RequestAt
<1>6. musicCall' = [musicCall EXCEPT ![c] = q]
  BY DEF Migrate, Migrated, WithId
<1> HIDE DEF e
<1>7. row \in ConnectionRow \cup {Absent}
  BY <1>2, <1>3, <1>4, <1>5, WithIdIs DEF Request0
<1> HIDE DEF row
<1>8. /\ q \in Request0 /\ q.step = "clear" /\ q.kind = r.kind /\ q.provider = p
      /\ q.process = r.process /\ Equipped(q)
  BY <1>5, <1>7, MigratedIs
<1> HIDE DEF q
<1>9. /\ connection' \in [Provider -> ConnectionRow \cup {Absent}] /\ made' \in 0 .. MaxRow
      /\ left' \subseteq Provider /\ p \notin left' /\ TokensFitStatus' /\ LeftShrinks
      /\ \A x \in Provider : x # p => connection'[x] = connection[x]
  BY <1>1, <1>3, <1>4, <1>5, RowSaved
<1>10. (LeadsAs(q) <=> Leads(c)) /\ HasInHand(q, left')
  BY <1>1, <1>8, <1>9 DEF LeadsAs, Leads, HasInHand
<1>11. /\ musicCall' \in [MusicCall -> Request0] /\ refreshing' \in [MusicProcess -> MusicCall \cup {Absent}]
       /\ \A d \in MusicCall : Equipped(musicCall'[d])
       /\ MapInv' /\ LeftInv'
  BY <1>1, <1>6, <1>8, <1>9, <1>10, MovesOn
<1>12. MusicTypeOK'
  BY <1>1, <1>9, <1>11 DEF MusicInv, MusicTypeOK
<1>13. StatesAreUnspent'
  BY <1>1 DEF MusicInv, StatesAreUnspent
<1>14. musicCall'[c] # musicCall[c]
  BY <1>1, <1>6, <1>8 DEF MusicInv, MusicTypeOK
<1>15. OldCallBringsBack
  BY <1>1, <1>9, <1>14, SavingIsOld DEF InHand
<1> QED
  BY <1>9, <1>11, <1>12, <1>13, <1>15 DEF MusicInv

RefreshedRow(row) == [row EXCEPT !.status = "connected", !.access = "fresh", !.refresh = TRUE]
RefusedRow(row) == [row EXCEPT !.status = "reauth_required", !.access = "none", !.refresh = FALSE]

LEMMA RefreshedRowIs ==
    ASSUME NEW row \in ConnectionRow PROVE RefreshedRow(row) \in ConnectionRow /\ RowFits(RefreshedRow(row))
<1>1. RefreshedRow(row) \in ConnectionRow /\ RefreshedRow(row).status = "connected"
      /\ RefreshedRow(row).access = "fresh"
  BY DEF RefreshedRow, ConnectionRow
<1> QED
  BY <1>1 DEF RowFits

LEMMA RefusedRowIs ==
    ASSUME NEW row \in ConnectionRow PROVE RefusedRow(row) \in ConnectionRow /\ RowFits(RefusedRow(row))
<1>1. RefusedRow(row).refresh = FALSE
  BY DEF RefusedRow, ConnectionRow
<1>2. RefusedRow(row) \in ConnectionRow /\ RefusedRow(row).status = "reauth_required"
      /\ RefusedRow(row).access = "none"
  BY DEF RefusedRow, ConnectionRow
<1> QED
  BY <1>1, <1>2 DEF RowFits

LEMMA StoreRefreshedStep ==
    ASSUME MusicInv, UNCHANGED offered, NEW c \in MusicCall, StoreRefreshed(c)
    PROVE  MusicInv' /\ OldCallBringsBack
<1> DEFINE r == musicCall[c]
<1>1. r.step = "store" /\ UNCHANGED <<legacy, platforms, oauth>> /\ Over(c)
      /\ Save(r.provider, RefreshedRow(r.copy))
  BY DEF StoreRefreshed, At, RefreshedRow
<1>2. r.copy \in ConnectionRow
  BY <1>1, RequestAt DEF Equipped
<1> QED
  BY <1>1, <1>2, RefreshedRowIs, SavingStep DEF InHand

LEMMA MarkReauthStep ==
    ASSUME MusicInv, UNCHANGED offered, NEW c \in MusicCall, MarkReauth(c)
    PROVE  MusicInv' /\ OldCallBringsBack
<1> DEFINE r == musicCall[c]
<1>1. r.step = "mark" /\ UNCHANGED <<legacy, platforms, oauth, refreshing>>
      /\ Save(r.provider, RefusedRow(r.copy))
      /\ musicCall' = [musicCall EXCEPT ![c] = Stepped(r, "user")]
  BY DEF MarkReauth, At, RefusedRow, Step, Stepped
<1>2. r.copy \in ConnectionRow
  BY <1>1, RequestAt DEF Equipped
<1> QED
  BY <1>1, <1>2, RefusedRowIs, SavingStep DEF InHand

-----------------------------------------------------------------------------
(* A request arrives, or a provider is left.                                 *)

LEMMA AskTokenStep ==
    ASSUME MusicInv, UNCHANGED offered, NEW c \in MusicCall, NEW m \in MusicProcess, NEW p \in Provider,
           AskToken(c, m, p)
    PROVE  MusicInv' /\ OldCallBringsBack
<1>1. UNCHANGED <<connection, made, legacy, platforms, oauth, left>>
  BY DEF AskToken
<1>2. LeftShrinks
  BY <1>1, LeftStays
<1>3. CASE p = "apple-music" /\ Enter(c, "token", p, m, "look") /\ UNCHANGED refreshing
  <2>1. /\ musicCall' \in [MusicCall -> Request0] /\ refreshing' \in [MusicProcess -> MusicCall \cup {Absent}]
        /\ \A d \in MusicCall : Equipped(musicCall'[d])
        /\ MapInv' /\ LeftInv'
    BY <1>2, <1>3, EnterStep DEF InHand
  <2> QED
    BY <1>1, <2>1, RowsStay, ConnectionsStay
<1>4. ASSUME NEW step \in {"joined", "look"}, p = "spotify", Enter(c, "token", p, m, step),
             \/ step = "joined" /\ refreshing[m] # Absent /\ UNCHANGED refreshing
             \/ step = "look" /\ refreshing[m] = Absent /\ refreshing' = [refreshing EXCEPT ![m] = c]
      PROVE  MusicInv' /\ OldCallBringsBack
  <2> DEFINE r == Entered("token", p, m, step)
  <2>1. /\ r \in Request0 /\ Equipped(r) /\ r.kind = "token" /\ r.provider = "spotify"
        /\ r.process = m /\ r.step = step /\ r.copy = Absent
    BY <1>4, EnteredIs
  <2>2. /\ musicCall[c].step = "away" /\ musicCall' = [musicCall EXCEPT ![c] = r]
    BY <1>4 DEF Enter, Entered, At
  <2> HIDE DEF r
  <2>3. /\ musicCall \in [MusicCall -> Request0] /\ refreshing \in [MusicProcess -> MusicCall \cup {Absent}]
        /\ \A d \in MusicCall : Equipped(musicCall[d])
    BY DEF MusicInv, MusicTypeOK
  <2>4. musicCall'[c] = r /\ \A d \in MusicCall : d # c => musicCall'[d] = musicCall[d]
    BY <2>2, <2>3
  <2>5. musicCall' \in [MusicCall -> Request0] /\ \A d \in MusicCall : Equipped(musicCall'[d])
    BY <2>1, <2>2, <2>3, <2>4
  <2>6. refreshing' \in [MusicProcess -> MusicCall \cup {Absent}]
        /\ (step = "look" => refreshing'[m] = c)
        /\ (step = "joined" => refreshing' = refreshing)
        /\ \A n \in MusicProcess : n # m => refreshing'[n] = refreshing[n]
    BY <1>4, <2>3
  <2>7. ~Leads(c) /\ (Leads(c)' <=> step = "look")
        /\ \A d \in MusicCall : d # c => (Leads(d)' <=> Leads(d))
    BY <2>1, <2>2, <2>4 DEF Leads
  <2>8. MapInv'
    <3>1. ASSUME NEW n \in MusicProcess, refreshing'[n] # Absent
          PROVE  (Leads(refreshing[n]) /\ musicCall[refreshing[n]].process = n)'
      <4>1. CASE n = m /\ step = "look"
        <5>1. refreshing'[n] = c
          BY <2>6, <4>1
        <5> QED
          BY <2>1, <2>4, <4>1, <5>1 DEF Leads
      <4>2. CASE n # m \/ step = "joined"
        <5>1. refreshing'[n] = refreshing[n]
          BY <2>6, <4>2
        <5>2. refreshing[n] \in MusicCall /\ Leads(refreshing[n]) /\ musicCall[refreshing[n]].process = n
          BY <2>3, <3>1, <5>1 DEF MusicInv, MapInv
        <5>3. refreshing[n] # c
          BY <2>7, <5>2
        <5> QED
          BY <2>4, <5>1, <5>2, <5>3 DEF Leads
      <4> QED
        BY <4>1, <4>2
    <3>2. ASSUME NEW d \in MusicCall, Leads(d)'
          PROVE  (musicCall[d].process \in MusicProcess /\ refreshing[musicCall[d].process] = d)'
      <4>1. CASE d = c
        BY <2>1, <2>4, <2>6, <2>7, <3>2, <4>1
      <4>2. CASE d # c
        <5>1. Leads(d) /\ musicCall[d].process \in MusicProcess /\ refreshing[musicCall[d].process] = d
          BY <2>7, <3>2, <4>2 DEF MusicInv, MapInv
        <5>2. step = "look" => musicCall[d].process # m
          BY <1>4, <5>1, MusicNames
        <5> QED
          BY <2>4, <2>6, <4>2, <5>1, <5>2
      <4> QED
        BY <4>1, <4>2
    <3>3. ASSUME NEW d \in MusicCall, At(d, "joined")'
          PROVE  (musicCall[d].process \in MusicProcess /\ refreshing[musicCall[d].process] # Absent)'
      <4>1. CASE d = c
        BY <1>4, <2>1, <2>4, <2>6, <3>3, <4>1 DEF At
      <4>2. CASE d # c
        <5>1. musicCall[d].process \in MusicProcess /\ refreshing[musicCall[d].process] # Absent
          BY <2>4, <3>3, <4>2 DEF MusicInv, MapInv, At
        <5> QED
          BY <2>4, <2>6, <4>2, <5>1, MusicNames
      <4> QED
        BY <4>1, <4>2
    <3> QED
      BY <3>1, <3>2, <3>3 DEF MapInv
  <2>9. LeftInv'
    <3>1. ASSUME NEW d \in MusicCall, Carries(musicCall'[d]), musicCall'[d].provider \in left'
          PROVE  musicCall'[d].old
      BY <1>1, <2>1, <2>4, <3>1 DEF Carries, InHand, MusicInv, LeftInv
    <3> QED
      BY <1>2, <3>1 DEF LeftShrinks, LeftInv
  <2> QED
    BY <1>1, <2>5, <2>6, <2>8, <2>9, RowsStay, ConnectionsStay
<1> QED
  BY <1>3, <1>4 DEF AskToken

LEMMA ListConnectionsStep ==
    ASSUME MusicInv, UNCHANGED offered, NEW c \in MusicCall, NEW m \in MusicProcess, NEW p \in Provider,
           ListConnections(c, m, p)
    PROVE  MusicInv' /\ OldCallBringsBack
<1>1. /\ p \in legacy /\ Enter(c, "list", p, m, "migrate")
      /\ UNCHANGED <<connection, made, legacy, platforms, oauth, refreshing, left>>
  BY DEF ListConnections
<1>2. LeftShrinks /\ p \notin left'
  BY <1>1, LeftStays DEF MusicInv, LeftInv
<1>3. /\ musicCall' \in [MusicCall -> Request0] /\ refreshing' \in [MusicProcess -> MusicCall \cup {Absent}]
      /\ \A d \in MusicCall : Equipped(musicCall'[d])
      /\ MapInv' /\ LeftInv'
  BY <1>1, <1>2, EnterStep
<1> QED
  BY <1>1, <1>3, RowsStay, ConnectionsStay

LEMMA DisconnectPlatformStep ==
    ASSUME MusicInv, UNCHANGED offered, NEW c \in MusicCall, NEW m \in MusicProcess, NEW p \in Provider,
           DisconnectPlatform(c, m, p)
    PROVE  MusicInv' /\ OldCallBringsBack
<1>1. /\ Enter(c, "profile", p, m, "user")
      /\ UNCHANGED <<connection, made, legacy, platforms, oauth, refreshing, left>>
  BY DEF DisconnectPlatform
<1>2. LeftShrinks
  BY <1>1, LeftStays
<1>3. /\ musicCall' \in [MusicCall -> Request0] /\ refreshing' \in [MusicProcess -> MusicCall \cup {Absent}]
      /\ \A d \in MusicCall : Equipped(musicCall'[d])
      /\ MapInv' /\ LeftInv'
  BY <1>1, <1>2, EnterStep DEF InHand
<1> QED
  BY <1>1, <1>3, RowsStay, ConnectionsStay

LEMMA RefusedStep ==
    ASSUME MusicInv, UNCHANGED offered, NEW c \in MusicCall, NEW m \in MusicProcess, NEW p \in Provider,
           Refused(c, m, p)
    PROVE  MusicInv' /\ OldCallBringsBack
<1> DEFINE r == [Away0 EXCEPT !.kind = "refused", !.provider = p,
                    !.process = m, !.step = "mark", !.copy = connection[p]]
<1>1. /\ connection[p] # Absent /\ musicCall[c].step = "away" /\ musicCall' = [musicCall EXCEPT ![c] = r]
      /\ UNCHANGED <<connection, made, legacy, platforms, oauth, refreshing, left>>
  BY DEF Refused, At
<1>2. connection[p] \in ConnectionRow
  BY <1>1 DEF MusicInv, MusicTypeOK
<1>3. /\ r \in Request0 /\ r.kind = "refused" /\ r.provider = p /\ r.process = m /\ r.step = "mark"
      /\ r.copy = connection[p]
  BY <1>2 DEF Away0, Request0
<1> HIDE DEF r
<1>4. Equipped(r)
  BY <1>2, <1>3 DEF Equipped
<1>5. ~LeadsAs(r) /\ ~Leads(c)
  BY <1>1, <1>3 DEF LeadsAs, Leads
<1>6. LeftShrinks /\ p \notin left'
  BY <1>1, LeftStays DEF MusicInv, LeftInv
<1>7. HasInHand(r, left')
  BY <1>3, <1>6 DEF HasInHand
<1>8. /\ musicCall' \in [MusicCall -> Request0] /\ refreshing' \in [MusicProcess -> MusicCall \cup {Absent}]
      /\ \A d \in MusicCall : Equipped(musicCall'[d])
      /\ MapInv' /\ LeftInv'
  BY <1>1, <1>3, <1>4, <1>5, <1>6, <1>7, MovesOn
<1> QED
  BY <1>1, <1>8, RowsStay, ConnectionsStay

LEMMA DisconnectStep ==
    ASSUME MusicInv, UNCHANGED offered, NEW c \in MusicCall, NEW m \in MusicProcess, NEW p \in Provider,
           Disconnect(c, m, p)
    PROVE  MusicInv' /\ OldCallBringsBack
<1>1. /\ Enter(c, "leave", p, m, "user") /\ connection' = [connection EXCEPT ![p] = Absent]
      /\ UNCHANGED <<made, legacy, platforms, oauth, refreshing, left>>
  BY DEF Disconnect
<1>2. /\ connection' \in [Provider -> ConnectionRow \cup {Absent}]
      /\ \A q \in Provider : connection'[q] # Absent => connection'[q] = connection[q]
  BY <1>1 DEF MusicInv, MusicTypeOK
<1>3. LeftShrinks
  BY <1>1, <1>2 DEF LeftShrinks, MusicInv, MusicTypeOK, LeftInv
<1>4. /\ musicCall' \in [MusicCall -> Request0] /\ refreshing' \in [MusicProcess -> MusicCall \cup {Absent}]
      /\ \A d \in MusicCall : Equipped(musicCall'[d])
      /\ MapInv' /\ LeftInv'
  BY <1>1, <1>3, EnterStep DEF InHand
<1>5. MusicTypeOK'
  BY <1>1, <1>2, <1>4 DEF MusicInv, MusicTypeOK
<1>6. TokensFitStatus' /\ StatesAreUnspent'
  BY <1>1, <1>2 DEF MusicInv, TokensFitStatus, StatesAreUnspent
<1>7. OldCallBringsBack
  BY <1>2 DEF OldCallBringsBack, MusicInv, MusicTypeOK
<1> QED
  BY <1>4, <1>5, <1>6, <1>7 DEF MusicInv

Aged(r, p) == [r EXCEPT !.old = @ \/ r.provider = p]

LEMMA AgedIs ==
    ASSUME NEW r \in Request0, NEW p
    PROVE  LET q == Aged(r, p) IN
           /\ q \in Request0 /\ q.step = r.step /\ q.kind = r.kind /\ q.provider = r.provider
           /\ q.process = r.process /\ q.copy = r.copy
           /\ q.old <=> r.old \/ r.provider = p
<1>1. r.old \in BOOLEAN
  BY DEF Request0
<1>2. Aged(r, p).old \in BOOLEAN /\ (Aged(r, p).old <=> (r.old \/ r.provider = p))
  BY <1>1 DEF Aged, Request0
<1>3. Aged(r, p) = [kind |-> r.kind, step |-> r.step, provider |-> r.provider, process |-> r.process,
                    copy |-> r.copy, list |-> r.list, old |-> Aged(r, p).old]
  BY DEF Aged, Request0
<1>4. Aged(r, p) \in Request0
  BY <1>2, <1>3 DEF Request0
<1> QED
  BY <1>2, <1>3, <1>4

LEMMA ForgetStep ==
    ASSUME MusicInv, UNCHANGED offered, NEW c \in MusicCall, Forget(c)
    PROVE  MusicInv' /\ OldCallBringsBack
<1> DEFINE p == musicCall[c].provider
<1>1. /\ musicCall[c].step = "forget" /\ UNCHANGED <<connection, made, platforms, oauth, refreshing>>
      /\ legacy' = legacy \ {p}
      /\ left' = IF connection[p] = Absent THEN left \cup {p} ELSE left
      /\ musicCall' = [d \in MusicCall |->
          IF d = c THEN Away0
          ELSE IF At(d, "away") THEN musicCall[d]
               ELSE [musicCall[d] EXCEPT !.old = @ \/ musicCall[d].provider = p]]
  BY DEF Forget, At
<1>2. /\ p \in Provider /\ musicCall[c].kind = "leave"
  BY <1>1, RequestAt DEF Equipped
<1>3. /\ musicCall \in [MusicCall -> Request0] /\ refreshing \in [MusicProcess -> MusicCall \cup {Absent}]
      /\ \A d \in MusicCall : Equipped(musicCall[d])
  BY DEF MusicInv, MusicTypeOK
<1>4. /\ musicCall'[c] = Away0
      /\ \A d \in MusicCall : d # c =>
            musicCall'[d] = IF musicCall[d].step = "away" THEN musicCall[d] ELSE Aged(musicCall[d], p)
      /\ musicCall' = [d \in MusicCall |-> musicCall'[d]]
  BY <1>1 DEF Aged, At
<1>5. ASSUME NEW d \in MusicCall, d # c
      PROVE  /\ musicCall'[d] \in Request0 /\ musicCall'[d].step = musicCall[d].step
             /\ musicCall'[d].kind = musicCall[d].kind /\ musicCall'[d].provider = musicCall[d].provider
             /\ musicCall'[d].process = musicCall[d].process /\ musicCall'[d].copy = musicCall[d].copy
             /\ musicCall[d].old => musicCall'[d].old
             /\ musicCall[d].step # "away" /\ musicCall[d].provider = p => musicCall'[d].old
  <2>1. CASE musicCall[d].step = "away"
    BY <1>3, <1>4, <1>5, <2>1
  <2>2. CASE musicCall[d].step # "away"
    BY <1>3, <1>4, <1>5, <2>2, AgedIs
  <2> QED
    BY <2>1, <2>2
<1>6. \A d \in MusicCall : musicCall'[d] \in Request0 /\ Equipped(musicCall'[d])
  BY <1>3, <1>4, <1>5, AwayIs DEF Equipped
<1>7. musicCall' \in [MusicCall -> Request0]
  BY <1>4, <1>6
<1>8. ~Leads(c) /\ ~Leads(c)' /\ (\A d \in MusicCall : d # c => (Leads(d)' <=> Leads(d)))
  BY <1>2, <1>4, <1>5, AwayIs DEF Leads
<1>9. MapInv'
  <2>1. \A d \in MusicCall : Leads(d) => Leads(d)' /\ musicCall'[d].process = musicCall[d].process
    BY <1>5, <1>8
  <2>2. \A d \in MusicCall : Leads(d)' => Leads(d) /\ musicCall'[d].process = musicCall[d].process
    BY <1>5, <1>8
  <2>3. \A d \in MusicCall : At(d, "joined")' => At(d, "joined") /\ musicCall'[d].process = musicCall[d].process
    BY <1>4, <1>5, AwayIs DEF At
  <2> QED
    BY <1>1, <1>3, <2>1, <2>2, <2>3 DEF MusicInv, MapInv
<1>10. LeftInv'
  <2>1. \A q \in left' : connection'[q] = Absent /\ q \notin legacy'
    BY <1>1 DEF MusicInv, LeftInv
  <2>2. ASSUME NEW d \in MusicCall, Carries(musicCall'[d]), musicCall'[d].provider \in left'
        PROVE  musicCall'[d].old
    <3>1. d # c
      BY <1>4, <2>2, AwayIs
    <3>2. CASE musicCall[d].provider = p
      BY <1>5, <2>2, <3>1, <3>2 DEF Carries, InHand
    <3>3. CASE musicCall[d].provider # p
      <4>1. musicCall[d].provider \in left /\ Carries(musicCall[d])
        BY <1>1, <1>5, <2>2, <3>1, <3>3 DEF Carries
      <4> QED
        BY <1>5, <3>1, <4>1 DEF MusicInv, LeftInv
    <3> QED
      BY <3>2, <3>3
  <2> QED
    BY <2>1, <2>2 DEF LeftInv
<1>11. MusicTypeOK'
  BY <1>1, <1>2, <1>7 DEF MusicInv, MusicTypeOK
<1>12. StatesAreUnspent' /\ TokensFitStatus'
  BY <1>1 DEF MusicInv, StatesAreUnspent, TokensFitStatus
<1> QED
  BY <1>1, <1>6, <1>9, <1>10, <1>11, <1>12, ConnectionsStay DEF MusicInv

-----------------------------------------------------------------------------
(* Authorizations, and tokens that run out.                                  *)

LEMMA AuthAt ==
    ASSUME MusicInv, NEW s \in OAuthState
    PROVE  /\ oauth[s] \in AuthState /\ oauth[s].provider \in Provider /\ oauth[s].passes \in Nat
           /\ oauth[s].status \in {"unissued", "open"} => oauth[s].passes = 0
           /\ oauth[s].passes <= 1
  BY DEF MusicInv, MusicTypeOK, AuthState, StatesAreUnspent

\* Only the authorizations change.
LEMMA AuthStep ==
    ASSUME MusicInv, UNCHANGED <<offered, connection, made, legacy, platforms, musicCall, refreshing, left>>,
           oauth' \in [OAuthState -> AuthState], StatesAreUnspent'
    PROVE  MusicInv' /\ OldCallBringsBack
<1>1. MusicTypeOK'
  BY DEF MusicInv, MusicTypeOK
<1>2. TokensFitStatus' /\ MapInv' /\ LeftInv'
  BY DEF MusicInv, TokensFitStatus, MapInv, Leads, At, LeftInv
<1>3. \A c \in MusicCall : Equipped(musicCall'[c])
  BY DEF MusicInv
<1> QED
  BY <1>1, <1>2, <1>3, ConnectionsStay DEF MusicInv

LEMMA CreateStateStep ==
    ASSUME MusicInv, UNCHANGED offered, NEW s \in OAuthState, NEW p \in Provider, CreateOAuthState(s, p)
    PROVE  MusicInv' /\ OldCallBringsBack
<1>1. /\ oauth[s].status = "unissued"
      /\ oauth' = [t \in OAuthState |->
          IF t = s THEN [oauth[s] EXCEPT !.status = "open", !.provider = p]
          ELSE IF oauth[t].status = "expired"
               THEN [oauth[t] EXCEPT !.status = "deleted"] ELSE oauth[t]]
  BY DEF CreateOAuthState
<1>2. ASSUME NEW t \in OAuthState
      PROVE  /\ oauth'[t] \in AuthState
             /\ oauth'[t].status \in {"unissued", "open"} => oauth'[t].passes = 0
             /\ oauth'[t].passes <= 1
  <2>1. CASE t = s
    <3>1. oauth'[t] = [oauth[s] EXCEPT !.status = "open", !.provider = p]
      BY <1>1, <2>1
    <3>2. oauth'[t] \in AuthState /\ oauth'[t].passes = oauth[s].passes
      BY <3>1, AuthAt DEF AuthState
    <3> QED
      BY <1>1, <3>2, AuthAt
  <2>2. CASE t # s /\ oauth[t].status = "expired"
    <3>1. oauth'[t] = [oauth[t] EXCEPT !.status = "deleted"]
      BY <1>1, <2>2
    <3>2. oauth'[t] \in AuthState /\ oauth'[t].passes = oauth[t].passes /\ oauth'[t].status = "deleted"
      BY <3>1, AuthAt DEF AuthState
    <3> QED
      BY <3>2, AuthAt
  <2>3. CASE t # s /\ oauth[t].status # "expired"
    <3>1. oauth'[t] = oauth[t]
      BY <1>1, <2>3
    <3> QED
      BY <3>1, AuthAt
  <2> QED
    BY <2>1, <2>2, <2>3
<1>3. oauth' = [t \in OAuthState |-> oauth'[t]]
  BY <1>1
<1>4. oauth' \in [OAuthState -> AuthState] /\ StatesAreUnspent'
  BY <1>2, <1>3 DEF StatesAreUnspent
<1> QED
  BY <1>4, AuthStep DEF CreateOAuthState

LEMMA StateExpiresStep ==
    ASSUME MusicInv, UNCHANGED offered, NEW s \in OAuthState, StateExpires(s)
    PROVE  MusicInv' /\ OldCallBringsBack
<1> DEFINE state == [oauth[s] EXCEPT !.status = "expired"]
<1>1. state \in AuthState /\ state.passes = oauth[s].passes /\ state.status = "expired"
  BY AuthAt DEF AuthState
<1>2. oauth' = [oauth EXCEPT ![s] = state]
  BY DEF StateExpires
<1> HIDE DEF state
<1>3. oauth' \in [OAuthState -> AuthState]
  BY <1>1, <1>2 DEF MusicInv, MusicTypeOK
<1>4. \A t \in OAuthState : oauth'[t] = IF t = s THEN state ELSE oauth[t]
  BY <1>2 DEF MusicInv, MusicTypeOK
<1>5. StatesAreUnspent'
  BY <1>1, <1>4, AuthAt DEF StatesAreUnspent
<1> QED
  BY <1>3, <1>5, AuthStep DEF StateExpires

LEMMA CallbackStep ==
    ASSUME MusicInv, UNCHANGED offered, NEW c \in MusicCall, NEW m \in MusicProcess, NEW s \in OAuthState,
           Callback(c, m, s)
    PROVE  MusicInv' /\ OldCallBringsBack
<1> DEFINE p == oauth[s].provider
           state == [oauth[s] EXCEPT !.status = "consumed", !.passes = 1]
<1>1. /\ oauth[s].status = "open" /\ left' = left \ {p}
      /\ oauth' = [oauth EXCEPT ![s].status = "consumed", ![s].passes = @ + 1]
      /\ Enter(c, "connect", p, m, IF p = "spotify" THEN "exchange" ELSE "find")
      /\ UNCHANGED <<connection, made, legacy, platforms, refreshing>>
  BY DEF Callback
<1>2. oauth[s].passes = 0 /\ p \in Provider
  BY <1>1, AuthAt
<1>3. state \in AuthState /\ state.passes = 1 /\ state.status = "consumed"
  BY <1>2, AuthAt DEF AuthState
<1>4. oauth \in [OAuthState -> AuthState]
  BY DEF MusicInv, MusicTypeOK
<1>5. oauth' = [oauth EXCEPT ![s] = state]
  <2>1. [oauth[s] EXCEPT !.status = "consumed", !.passes = @ + 1] = state
    BY <1>2, <1>4, AuthAt DEF AuthState
  <2>2. oauth' = [oauth EXCEPT ![s] = [oauth[s] EXCEPT !.status = "consumed", !.passes = @ + 1]]
    BY <1>1, <1>4 DEF AuthState
  <2> QED
    BY <2>1, <2>2
<1> HIDE DEF state
<1>6. oauth' \in [OAuthState -> AuthState]
  BY <1>3, <1>4, <1>5
<1>7. \A t \in OAuthState : oauth'[t] = IF t = s THEN state ELSE oauth[t]
  BY <1>4, <1>5
<1>8. StatesAreUnspent'
  BY <1>3, <1>7, AuthAt DEF StatesAreUnspent
<1>9. LeftShrinks /\ p \notin left' /\ left' \subseteq Provider
  BY <1>1 DEF LeftShrinks, MusicInv, MusicTypeOK, LeftInv
<1>10. PICK step \in {"exchange", "find"} : Enter(c, "connect", p, m, step)
  BY <1>1
<1>11. /\ musicCall' \in [MusicCall -> Request0] /\ refreshing' \in [MusicProcess -> MusicCall \cup {Absent}]
      /\ \A d \in MusicCall : Equipped(musicCall'[d])
      /\ MapInv' /\ LeftInv'
  BY <1>1, <1>2, <1>9, <1>10, EnterStep
<1>12. MusicTypeOK'
  BY <1>1, <1>6, <1>9, <1>11 DEF MusicInv, MusicTypeOK
<1>13. TokensFitStatus'
  BY <1>1 DEF MusicInv, TokensFitStatus
<1> QED
  BY <1>1, <1>8, <1>11, <1>12, <1>13, ConnectionsStay DEF MusicInv

LEMMA AccessExpiresStep ==
    ASSUME MusicInv, UNCHANGED offered, AccessExpires
    PROVE  MusicInv' /\ OldCallBringsBack
<1> DEFINE old == connection["spotify"]
           row == [old EXCEPT !.access = "stale"]
<1>1. /\ old # Absent /\ old.access = "fresh" /\ connection' = [connection EXCEPT !["spotify"] = row]
      /\ UNCHANGED <<made, legacy, platforms, oauth, musicCall, refreshing, left>>
  BY DEF AccessExpires
<1>2. old \in ConnectionRow /\ RowFits(old)
  BY <1>1, MusicNames DEF MusicInv, MusicTypeOK, TokensFitStatus, RowFits
<1>3. row \in ConnectionRow /\ row.access = "stale" /\ row.status = old.status
  BY <1>2 DEF ConnectionRow
<1> HIDE DEF row
<1>4. RowFits(row)
  BY <1>1, <1>2, <1>3 DEF RowFits
<1>5. /\ connection' \in [Provider -> ConnectionRow \cup {Absent}]
      /\ \A q \in Provider : connection'[q] = IF q = "spotify" THEN row ELSE connection[q]
  BY <1>1, <1>3, MusicNames DEF MusicInv, MusicTypeOK
<1>6. MusicTypeOK'
  BY <1>1, <1>5 DEF MusicInv, MusicTypeOK
<1>7. TokensFitStatus'
  <2> SUFFICES ASSUME NEW q \in Provider, connection'[q] # Absent PROVE RowFits(connection'[q])
    BY DEF TokensFitStatus, RowFits
  <2> QED
    BY <1>4, <1>5 DEF MusicInv, TokensFitStatus, RowFits
<1>8. \A q \in Provider : connection[q] = Absent => connection'[q] = Absent
  BY <1>1, <1>5
<1>9. StatesAreUnspent' /\ MapInv' /\ LeftInv'
  BY <1>1, <1>8 DEF MusicInv, MusicTypeOK, StatesAreUnspent, MapInv, Leads, At, LeftInv
<1>10. OldCallBringsBack
  BY <1>8 DEF OldCallBringsBack, MusicInv, MusicTypeOK
<1>11. \A c \in MusicCall : Equipped(musicCall'[c])
  BY <1>1 DEF MusicInv
<1> QED
  BY <1>6, <1>7, <1>9, <1>10, <1>11 DEF MusicInv

-----------------------------------------------------------------------------
LEMMA MusicInvInit == MusicInit => MusicInv
<1> SUFFICES ASSUME MusicInit PROVE MusicInv
  OBVIOUS
<1>1. 0 \in 0 .. MaxRow
  BY MusicAssumption
<1> DEFINE unissued == [status |-> "unissued", provider |-> "spotify", passes |-> 0]
<1>2. unissued \in AuthState /\ unissued.passes = 0
  BY MusicNames DEF AuthState
<1>3. offered \in Offers /\ legacy \subseteq Provider /\ platforms \subseteq Provider
  BY MusicNames DEF MusicInit
<1>4. oauth = [s \in OAuthState |-> unissued]
  BY DEF MusicInit
<1> HIDE DEF unissued
<1>5. MusicTypeOK
  BY <1>1, <1>2, <1>3, <1>4, AwayIs DEF MusicInit, MusicTypeOK
<1>6. StatesAreUnspent
  BY <1>2, <1>4 DEF StatesAreUnspent
<1>7. TokensFitStatus /\ \A c \in MusicCall : Equipped(musicCall[c])
  BY AwayIs DEF MusicInit, TokensFitStatus
<1>8. MapInv /\ LeftInv
  BY AwayIs DEF MusicInit, MapInv, Leads, At, LeftInv
<1> QED
  BY <1>5, <1>6, <1>7, <1>8 DEF MusicInv

LEMMA EnteringSteps ==
    ASSUME MusicInv, UNCHANGED offered, NEW c \in MusicCall, NEW m \in MusicProcess, NEW p \in offered,
           \/ AskToken(c, m, p) \/ ListConnections(c, m, p)
           \/ Refused(c, m, p) \/ Disconnect(c, m, p) \/ DisconnectPlatform(c, m, p)
    PROVE  MusicInv' /\ OldCallBringsBack
<1>1. p \in Provider
  BY MusicNames DEF MusicInv, MusicTypeOK
<1> QED
  BY <1>1, AskTokenStep, ListConnectionsStep, RefusedStep, DisconnectStep, DisconnectPlatformStep

LEMMA CallSteps ==
    ASSUME MusicInv, UNCHANGED offered, NEW c \in MusicCall,
           \/ Exchanged(c) \/ FindExisting(c) \/ StoreConnection(c)
           \/ ReadUser(c) \/ SaveUser(c) \/ Look(c) \/ Migrate(c)
           \/ ClearLegacy(c) \/ Refreshed(c) \/ StoreRefreshed(c)
           \/ MarkReauth(c) \/ Forget(c) \/ MusicThrows(c)
    PROVE  MusicInv' /\ OldCallBringsBack
  BY ExchangedStep, FindExistingStep, StoreConnectionStep, ReadUserStep, SaveUserStep, LookStep,
     MigrateStep, ClearLegacyStep, RefreshedStep, StoreRefreshedStep, MarkReauthStep, ForgetStep,
     MusicThrowsStep

LEMMA MusicInvStep ==
    ASSUME MusicInv, [ConnectionsNext]_musicVars
    PROVE  MusicInv' /\ OldCallBringsBack
<1>1. CASE UNCHANGED musicVars
  <2>1. UNCHANGED <<offered, connection, made, legacy, platforms, oauth, musicCall, refreshing, left>>
    BY <1>1 DEF musicVars
  <2> QED
    BY <2>1, AuthStep DEF MusicInv, MusicTypeOK, StatesAreUnspent
<1>2. CASE ConnectionsNext
  <2>1. MusicNext /\ UNCHANGED offered
    BY <1>2 DEF ConnectionsNext
  <2>2. ASSUME NEW s \in OAuthState, NEW p \in offered, CreateOAuthState(s, p)
        PROVE  MusicInv' /\ OldCallBringsBack
    <3>1. p \in Provider
      BY MusicNames DEF MusicInv, MusicTypeOK
    <3> QED
      BY <2>1, <2>2, <3>1, CreateStateStep
  <2> QED
    BY <2>1, <2>2, StateExpiresStep, AccessExpiresStep, CallbackStep, EnteringSteps, CallSteps DEF MusicNext
<1> QED
  BY <1>1, <1>2

LEMMA MusicInvShows == MusicInv => MusicTypeOK /\ AuthorizationsAreSingle
<1> SUFFICES ASSUME MusicInv PROVE AuthorizationsAreSingle
  BY DEF MusicInv
<1>1. StateSpentOnce /\ TokensFitStatus
  BY DEF MusicInv, StatesAreUnspent, StateSpentOnce
<1>2. OneRefreshPerProcess
  BY DEF MusicInv, MapInv, Leads, OneRefreshPerProcess
<1>3. JoinedIsAwaited
  BY DEF MusicInv, MapInv, Leads, At, JoinedIsAwaited
<1> QED
  BY <1>1, <1>2, <1>3 DEF AuthorizationsAreSingle

-------------------------------------------------------------------------------
(* Look-ups                                                                    *)

\* The fetch that is under way is the pending one.
FetchInv == fetchers = IF pending = Unset THEN {} ELSE {pending}

LoaderRow ==
    [step : {"free", "token", "await", "call"}, key : LookupKey \cup {Unset}, again : BOOLEAN]

\* The map and the loaders agree; who has no key does not work.
EntryInv ==
    /\ \A k \in LookupKey : entry[k] # Unset => loader[entry[k]].key = k
    /\ \A l \in LookupCall : loader[l].key # Unset => entry[loader[l].key] = l
    /\ \A l \in LookupCall : loader[l].step = "free" <=> loader[l].key = Unset

\* The background refresh and what it waits for.
TimerInv ==
    /\ refresher \in {"new", "warming"} => timer = "off"
    /\ refresher \in {"warming", "fetching", "joined"} => pending # Unset

LookupInv == LookupTypeOK /\ FetchInv /\ EntryInv /\ AwaitedFetchRuns /\ TimerInv

LEMMA LookupNames ==
    /\ Unset \notin LookupCall /\ Unset \notin LookupKey /\ Unset # Background
    /\ AppleKey \subseteq LookupKey /\ PlaylistKey \subseteq LookupKey
  BY LookupAssumption DEF Background

LEMMA LookupTypes ==
    LookupTypeOK <=>
        /\ token \in {"none", "usable", "expired"}
        /\ fetchers \subseteq LookupCall \cup {Background}
        /\ pending \in LookupCall \cup {Background, Unset}
        /\ timer \in {"off", "refresh", "retry"}
        /\ refresher \in {"new", "warming", "idle", "fetching", "joined"}
        /\ up \in BOOLEAN
        /\ loader \in [LookupCall -> LoaderRow]
        /\ entry \in [LookupKey -> LookupCall \cup {Unset}]
        /\ cached \subseteq LookupKey
        /\ visitor \in [Visitor -> LookupKey \cup {Unset}]
  BY DEF LookupTypeOK, LoaderRow

LEMMA LoaderAt ==
    ASSUME LookupInv, NEW l \in LookupCall
    PROVE  /\ loader[l] \in LoaderRow /\ loader[l].key \in LookupKey \cup {Unset}
           /\ loader[l].step = "free" <=> loader[l].key = Unset
           /\ loader[l].key # Unset => entry[loader[l].key] = l
  BY LookupTypes DEF LookupInv, EntryInv, LoaderRow

LEMMA FreeIs == Free \in LoaderRow /\ Free.step = "free" /\ Free.key = Unset
  BY DEF Free, LoaderRow

\* A loader that goes on with its key.
Going(r, step) == [r EXCEPT !.step = step]
GoingAgain(r, step) == [r EXCEPT !.step = step, !.again = TRUE]

LEMMA GoingIs ==
    ASSUME NEW r \in LoaderRow, NEW step \in {"token", "await", "call"}
    PROVE  /\ Going(r, step) \in LoaderRow /\ Going(r, step).step = step /\ Going(r, step).key = r.key
           /\ GoingAgain(r, step) \in LoaderRow /\ GoingAgain(r, step).step = step
           /\ GoingAgain(r, step).key = r.key
  BY DEF Going, GoingAgain, LoaderRow

\* What a step leaves of the loaders that are not over.
LEMMA LoaderGoesOn ==
    ASSUME LookupInv, NEW l \in LookupCall, loader[l].step # "free", NEW r \in LoaderRow,
           r.key = loader[l].key, r.step # "free", loader' = [loader EXCEPT ![l] = r], entry' = entry
    PROVE  loader' \in [LookupCall -> LoaderRow] /\ EntryInv'
<1>1. loader \in [LookupCall -> LoaderRow]
  BY LookupTypes DEF LookupInv
<1>2. \A m \in LookupCall : loader'[m].key = loader[m].key /\ (loader'[m].step = "free" <=> loader[m].step = "free")
  BY <1>1
<1>3. entry \in [LookupKey -> LookupCall \cup {Unset}]
  BY LookupTypes DEF LookupInv
<1>4. EntryInv'
  BY <1>2, <1>3 DEF LookupInv, EntryInv
<1> QED
  BY <1>1, <1>4

LEMMA SettledLeaves ==
    ASSUME LookupInv, NEW ls \in SUBSET LookupCall, NEW answered, Settled(ls, answered)
    PROVE  /\ loader' \in [LookupCall -> LoaderRow] /\ entry' \in [LookupKey -> LookupCall \cup {Unset}]
           /\ visitor' \in [Visitor -> LookupKey \cup {Unset}] /\ EntryInv'
           /\ \A l \in LookupCall : loader'[l].step = "await" => loader[l].step = "await" /\ l \notin ls /\ ~answered
<1>1. /\ loader \in [LookupCall -> LoaderRow] /\ entry \in [LookupKey -> LookupCall \cup {Unset}]
      /\ visitor \in [Visitor -> LookupKey \cup {Unset}]
  BY LookupTypes DEF LookupInv
<1>2. /\ \A l \in LookupCall : loader'[l] =
            IF l \in ls THEN Free
            ELSE IF loader[l].step = "await" /\ answered THEN Going(loader[l], "call")
            ELSE loader[l]
      /\ loader' = [l \in LookupCall |-> loader'[l]]
      /\ \A k \in LookupKey : entry'[k] = IF entry[k] \in ls THEN Unset ELSE entry[k]
  BY DEF Settled, Waiting, Going
<1>3. ASSUME NEW l \in LookupCall
      PROVE  /\ loader'[l] \in LoaderRow
             /\ l \in ls => loader'[l] = Free
             /\ l \notin ls => /\ loader'[l].key = loader[l].key
                               /\ loader'[l].step = "free" <=> loader[l].step = "free"
             /\ loader'[l].step = "await" => loader[l].step = "await" /\ l \notin ls /\ ~answered
  <2>1. CASE l \in ls
    BY <1>2, <2>1, FreeIs
  <2>2. CASE l \notin ls /\ loader[l].step = "await" /\ answered
    BY <1>1, <1>2, <2>2, GoingIs
  <2>3. CASE l \notin ls /\ ~(loader[l].step = "await" /\ answered)
    <3>1. loader'[l] = loader[l]
      BY <1>2, <2>3
    <3> QED
      BY <1>1, <2>3, <3>1
  <2> QED
    BY <2>1, <2>2, <2>3
<1>4. /\ loader' \in [LookupCall -> LoaderRow] /\ entry' \in [LookupKey -> LookupCall \cup {Unset}]
      /\ visitor' \in [Visitor -> LookupKey \cup {Unset}]
  <2>1. loader' \in [LookupCall -> LoaderRow]
    BY <1>2, <1>3
  <2>2. entry' \in [LookupKey -> LookupCall \cup {Unset}]
    BY <1>1 DEF Settled
  <2>3. visitor' \in [Visitor -> LookupKey \cup {Unset}]
    BY <1>1 DEF Settled
  <2> QED
    BY <2>1, <2>2, <2>3
<1>5. ASSUME NEW k \in LookupKey, entry'[k] # Unset PROVE loader'[entry'[k]].key = k
  <2>1. entry'[k] = entry[k] /\ entry[k] \in LookupCall \ ls
    BY <1>1, <1>2, <1>5
  <2> QED
    BY <1>3, <2>1, LookupNames DEF LookupInv, EntryInv
<1>6. ASSUME NEW l \in LookupCall, loader'[l].key # Unset PROVE entry'[loader'[l].key] = l
  <2>1. l \notin ls /\ loader'[l].key = loader[l].key
    BY <1>3, <1>6, FreeIs
  <2>2. loader[l].key \in LookupKey /\ entry[loader[l].key] = l
    BY <1>6, <2>1, LoaderAt
  <2> QED
    BY <1>2, <2>1, <2>2
<1>7. \A l \in LookupCall : loader'[l].step = "free" <=> loader'[l].key = Unset
  BY <1>3, FreeIs, LoaderAt
<1>8. EntryInv'
  BY <1>5, <1>6, <1>7 DEF EntryInv
<1> QED
  BY <1>3, <1>4, <1>8

LEMMA GetTokenStep == ASSUME LookupInv, NEW l \in LookupCall, GetToken(l) PROVE LookupInv' /\ RefreshIsKept
<1>1. PICK step \in {"call", "await"} :
         /\ loader[l].step = "token" /\ loader' = [loader EXCEPT ![l] = Going(loader[l], step)]
         /\ UNCHANGED <<token, timer, refresher, up, entry, cached, visitor>>
         /\ \/ UNCHANGED <<fetchers, pending>> /\ (step = "await" => pending # Unset)
            \/ pending = Unset /\ fetchers' = fetchers \cup {l} /\ pending' = l
  BY DEF GetToken, Going
<1>2. /\ Going(loader[l], step) \in LoaderRow /\ Going(loader[l], step).step = step
      /\ Going(loader[l], step).key = loader[l].key
  BY GoingIs, LoaderAt
<1>3. loader' \in [LookupCall -> LoaderRow] /\ EntryInv'
  BY <1>1, <1>2, LoaderGoesOn
<1>4. LookupTypeOK
  BY DEF LookupInv
<1>5. FetchInv' /\ pending' \in LookupCall \cup {Background, Unset}
      /\ fetchers' \subseteq LookupCall \cup {Background} /\ (pending # Unset => pending' # Unset)
  BY <1>1, <1>4, LookupNames, LookupTypes DEF LookupInv, FetchInv
<1>6. LookupTypeOK'
  BY <1>1, <1>3, <1>4, <1>5, LookupTypes DEF LookupTypeOK, LoaderRow
<1>7. AwaitedFetchRuns'
  <2>1. \A m \in LookupCall : m # l => loader'[m] = loader[m]
    BY <1>1, <1>4, LookupTypes
  <2>2. loader'[l] = Going(loader[l], step)
    BY <1>1, <1>4, LookupTypes
  <2>3. CASE pending # Unset
    BY <1>5, <2>3 DEF AwaitedFetchRuns
  <2>4. CASE pending = Unset /\ pending' # Unset
    BY <2>4 DEF AwaitedFetchRuns
  <2>5. CASE pending = Unset /\ pending' = Unset
    <3>1. step = "call" /\ Waiting = {}
      BY <1>1, <2>5, LookupNames DEF LookupInv, AwaitedFetchRuns
    <3>2. Waiting' = {}
      BY <1>2, <2>1, <2>2, <3>1 DEF Waiting
    <3> QED
      BY <3>2 DEF AwaitedFetchRuns
  <2> QED
    BY <2>3, <2>4, <2>5
<1>8. TimerInv'
  BY <1>1, <1>5 DEF LookupInv, TimerInv
<1>9. RefreshIsKept
  BY <1>1 DEF RefreshIsKept
<1> QED
  BY <1>3, <1>5, <1>6, <1>7, <1>8, <1>9 DEF LookupInv

LEMMA TokenFetchedStep ==
    ASSUME LookupInv, NEW o \in LookupCall \cup {Background}, TokenFetched(o)
    PROVE  LookupInv' /\ RefreshIsKept
<1>1. PICK got \in BOOLEAN :
         /\ token' = IF got THEN "usable" ELSE token
         /\ Settled(IF got THEN {} ELSE Waiting, got)
         /\ \/ /\ refresher \in {"fetching", "joined"}
               /\ timer' = IF got THEN "refresh" ELSE "retry"
               /\ refresher' = "idle"
            \/ /\ refresher = "warming"
               /\ timer' = IF got THEN "refresh" ELSE "off"
               /\ refresher' = "idle"
            \/ /\ refresher \in {"new", "idle"}
               /\ UNCHANGED <<timer, refresher>>
  BY DEF TokenFetched
<1>2. o \in fetchers /\ fetchers' = fetchers \ {o} /\ pending' = Unset /\ UNCHANGED <<up, cached>>
  BY DEF TokenFetched
<1> DEFINE ls == IF got THEN {} ELSE Waiting
<1>3. ls \in SUBSET LookupCall /\ \A l \in LookupCall : loader[l].step = "await" => l \in ls \/ got
  BY DEF Waiting
<1>4. Settled(ls, got)
  BY <1>1
<1> HIDE DEF ls
<1>5. /\ loader' \in [LookupCall -> LoaderRow] /\ entry' \in [LookupKey -> LookupCall \cup {Unset}]
      /\ visitor' \in [Visitor -> LookupKey \cup {Unset}] /\ EntryInv'
      /\ \A l \in LookupCall : loader'[l].step = "await" => loader[l].step = "await" /\ l \notin ls /\ ~got
  BY <1>3, <1>4, SettledLeaves
<1>6. fetchers' = {}
  BY <1>2 DEF LookupInv, FetchInv
<1>7. FetchInv'
  BY <1>2, <1>6 DEF FetchInv
<1>8. AwaitedFetchRuns'
  BY <1>3, <1>5 DEF AwaitedFetchRuns, Waiting
<1>9. TimerInv'
  BY <1>1 DEF LookupInv, TimerInv
<1>10. RefreshIsKept
  BY <1>1, <1>2 DEF LookupInv, TimerInv, RefreshIsKept
<1>11. LookupTypeOK'
  <2>1. LookupTypeOK
    BY DEF LookupInv
  <2>2. token' \in {"none", "usable", "expired"} /\ timer' \in {"off", "refresh", "retry"}
        /\ refresher' \in {"new", "warming", "idle", "fetching", "joined"}
    BY <1>1, <2>1 DEF LookupTypeOK
  <2> QED
    BY <1>2, <1>5, <1>6, <2>1, <2>2 DEF LookupTypeOK, LoaderRow
<1> QED
  BY <1>5, <1>7, <1>8, <1>9, <1>10, <1>11 DEF LookupInv

\* A step that has nothing to do with loaders and fetches.
LEMMA TimerStep ==
    ASSUME LookupInv, UNCHANGED <<fetchers, pending, loader, entry>>,
           token' \in {"none", "usable", "expired"}, timer' \in {"off", "refresh", "retry"},
           up' \in BOOLEAN, cached' \subseteq LookupKey, visitor' \in [Visitor -> LookupKey \cup {Unset}],
           refresher' = refresher, timer' = "off" \/ timer # "off"
    PROVE  LookupInv'
<1>1. LookupTypeOK'
  BY DEF LookupInv, LookupTypeOK
<1>2. FetchInv' /\ EntryInv' /\ AwaitedFetchRuns' /\ TimerInv'
  BY DEF LookupInv, FetchInv, EntryInv, AwaitedFetchRuns, Waiting, TimerInv
<1> QED
  BY <1>1, <1>2 DEF LookupInv

LEMMA AskingStep ==
    ASSUME LookupInv, NEW was \in {"warming", "joined"}, NEW began \in {"warming", "fetching"},
           AskInBackground(was, began), UNCHANGED <<up, loader, entry, cached, visitor>>,
           token' \in {"none", "usable", "expired"}, timer' = "off"
    PROVE  LookupInv'
<1>1. LookupTypeOK /\ FetchInv
  BY DEF LookupInv
<1>2. /\ pending' \in LookupCall \cup {Background} /\ pending' # Unset
      /\ fetchers' = {pending'} /\ refresher' \in {"warming", "joined", "fetching"}
      /\ fetchers' \subseteq LookupCall \cup {Background}
  <2>1. CASE pending = Unset
    BY <1>1, <2>1, LookupNames DEF AskInBackground, FetchInv
  <2>2. CASE pending # Unset
    BY <1>1, <2>2, LookupTypes DEF AskInBackground, FetchInv
  <2> QED
    BY <2>1, <2>2
<1>3. LookupTypeOK'
  BY <1>1, <1>2 DEF LookupTypeOK
<1>4. FetchInv' /\ AwaitedFetchRuns' /\ TimerInv'
  BY <1>2 DEF FetchInv, AwaitedFetchRuns, TimerInv
<1>5. EntryInv'
  BY DEF LookupInv, EntryInv
<1> QED
  BY <1>3, <1>4, <1>5 DEF LookupInv

LEMMA PreWarmStep == ASSUME LookupInv, PreWarm PROVE LookupInv' /\ RefreshIsKept
<1>1. refresher = "new" /\ AskInBackground("warming", "warming")
      /\ UNCHANGED <<token, timer, up, loader, entry, cached, visitor>>
  BY DEF PreWarm
<1>2. timer = "off" /\ token \in {"none", "usable", "expired"}
  BY <1>1 DEF LookupInv, TimerInv, LookupTypeOK
<1>3. LookupInv'
  BY <1>1, <1>2, AskingStep
<1> QED
  BY <1>1, <1>2, <1>3 DEF RefreshIsKept

LEMMA RefreshDueStep == ASSUME LookupInv, RefreshDue PROVE LookupInv' /\ RefreshIsKept
<1>1. timer' = "off" /\ token' = "none" /\ AskInBackground("joined", "fetching")
      /\ UNCHANGED <<up, loader, entry, cached, visitor>>
  BY DEF RefreshDue
<1>2. LookupInv'
  BY <1>1, AskingStep
<1> QED
  BY <1>1, <1>2 DEF RefreshIsKept, AskInBackground

LEMMA TimerSteps ==
    ASSUME LookupInv, RetryDue \/ Destroy \/ TokenExpires
    PROVE  LookupInv' /\ RefreshIsKept
<1>1. LookupTypeOK
  BY DEF LookupInv
<1>2. CASE RetryDue
  BY <1>1, <1>2, TimerStep DEF RetryDue, LookupTypeOK, RefreshIsKept
<1>3. CASE Destroy
  BY <1>1, <1>3, TimerStep DEF Destroy, LookupTypeOK, RefreshIsKept
<1>4. CASE TokenExpires
  BY <1>1, <1>4, TimerStep DEF TokenExpires, LookupTypeOK, RefreshIsKept
<1> QED
  BY <1>2, <1>3, <1>4

LEMMA VisitorSteps ==
    ASSUME LookupInv, (\E v \in Visitor : DeadlinePasses(v)) \/ (\E k \in LookupKey : CacheExpires(k))
    PROVE  LookupInv' /\ RefreshIsKept
<1>1. LookupTypeOK
  BY DEF LookupInv
<1>2. ASSUME NEW v \in Visitor, DeadlinePasses(v) PROVE LookupInv' /\ RefreshIsKept
  <2>1. visitor' \in [Visitor -> LookupKey \cup {Unset}]
    BY <1>1, <1>2 DEF DeadlinePasses, LookupTypeOK
  <2> QED
    BY <1>1, <1>2, <2>1, TimerStep DEF DeadlinePasses, LookupTypeOK, RefreshIsKept
<1>3. ASSUME NEW k \in LookupKey, CacheExpires(k) PROVE LookupInv' /\ RefreshIsKept
  <2>1. cached' \subseteq LookupKey
    BY <1>1, <1>3 DEF CacheExpires, LookupTypeOK
  <2> QED
    BY <1>1, <1>3, <2>1, TimerStep DEF CacheExpires, LookupTypeOK, RefreshIsKept
<1> QED
  BY <1>2, <1>3

LEMMA FirstStepIs == \A k : FirstStep(k) \in {"token", "await", "call"} /\ FirstStep(k) # "await"
  BY DEF FirstStep

Started(k) == [Free EXCEPT !.step = FirstStep(k), !.key = k]

LEMMA StartedIs ==
    ASSUME NEW k \in LookupKey
    PROVE  Started(k) \in LoaderRow /\ Started(k).step = FirstStep(k) /\ Started(k).key = k
  BY FirstStepIs DEF Started, Free, LoaderRow

LEMMA AskStep == ASSUME LookupInv, NEW v \in Visitor, NEW k \in LookupKey, Ask(v, k) PROVE LookupInv' /\ RefreshIsKept
<1>1. UNCHANGED <<token, fetchers, pending, timer, refresher, up, cached>>
  BY DEF Ask
<1>2. /\ loader \in [LookupCall -> LoaderRow] /\ entry \in [LookupKey -> LookupCall \cup {Unset}]
      /\ visitor' \in [Visitor -> LookupKey \cup {Unset}] /\ LookupTypeOK
  BY LookupTypes DEF LookupInv, Ask
<1>3. RefreshIsKept
  BY <1>1 DEF RefreshIsKept
<1>4. CASE UNCHANGED <<loader, entry>>
  <2>1. token \in {"none", "usable", "expired"} /\ timer \in {"off", "refresh", "retry"}
        /\ up \in BOOLEAN /\ cached \subseteq LookupKey
    BY <1>2, LookupTypes
  <2> QED
    BY <1>1, <1>2, <1>3, <1>4, <2>1, TimerStep
<1>5. ASSUME NEW l \in LookupCall, entry[k] = Unset, loader[l].step = "free",
             loader' = [loader EXCEPT ![l] = Started(k)], entry' = [entry EXCEPT ![k] = l]
      PROVE  LookupInv'
  <2>1. Started(k) \in LoaderRow /\ Started(k).step = FirstStep(k) /\ Started(k).key = k
    BY StartedIs
  <2>2. /\ loader' \in [LookupCall -> LoaderRow] /\ loader'[l] = Started(k)
        /\ \A m \in LookupCall : m # l => loader'[m] = loader[m]
    BY <1>2, <1>5, <2>1
  <2>3. /\ entry' \in [LookupKey -> LookupCall \cup {Unset}] /\ entry'[k] = l
        /\ \A j \in LookupKey : j # k => entry'[j] = entry[j]
    BY <1>2, <1>5
  <2>4. loader[l].key = Unset
    BY <1>5, LoaderAt
  <2>5. EntryInv'
    <3>1. ASSUME NEW j \in LookupKey, entry'[j] # Unset PROVE loader'[entry'[j]].key = j
      <4>1. CASE j = k
        BY <2>1, <2>2, <2>3, <4>1
      <4>2. CASE j # k
        <5>1. entry'[j] = entry[j] /\ entry[j] \in LookupCall /\ loader[entry[j]].key = j
          BY <1>2, <2>3, <3>1, <4>2 DEF LookupInv, EntryInv
        <5>2. entry[j] # l
          BY <2>4, <5>1, LookupNames
        <5> QED
          BY <2>2, <5>1, <5>2
      <4> QED
        BY <4>1, <4>2
    <3>2. ASSUME NEW m \in LookupCall, loader'[m].key # Unset PROVE entry'[loader'[m].key] = m
      <4>1. CASE m = l
        BY <2>1, <2>2, <2>3, <4>1
      <4>2. CASE m # l
        <5>1. loader'[m].key = loader[m].key /\ loader[m].key \in LookupKey /\ entry[loader[m].key] = m
          BY <2>2, <3>2, <4>2, LoaderAt
        <5>2. loader[m].key # k
          BY <1>5, <5>1, LookupNames
        <5> QED
          BY <2>3, <5>1, <5>2
      <4> QED
        BY <4>1, <4>2
    <3>3. \A m \in LookupCall : loader'[m].step = "free" <=> loader'[m].key = Unset
      BY <2>1, <2>2, FirstStepIs, LookupNames, LoaderAt
    <3> QED
      BY <3>1, <3>2, <3>3 DEF EntryInv
  <2>6. AwaitedFetchRuns'
    BY <1>1, <2>1, <2>2, FirstStepIs DEF LookupInv, AwaitedFetchRuns, Waiting
  <2>7. LookupTypeOK'
    BY <1>1, <1>2, <2>2, <2>3 DEF LookupTypeOK, LoaderRow
  <2>8. FetchInv' /\ TimerInv'
    BY <1>1 DEF LookupInv, FetchInv, TimerInv
  <2> QED
    BY <2>5, <2>6, <2>7, <2>8 DEF LookupInv
<1> QED
  BY <1>3, <1>4, <1>5 DEF Ask, Started

\* The answer for a loader: it is over, and what is cached may grow.
LEMMA OverByAnswer ==
    ASSUME LookupInv, NEW l \in LookupCall, Settled({l}, FALSE), cached' \subseteq LookupKey,
           UNCHANGED <<token, fetchers, pending, timer, refresher, up>>
    PROVE  LookupInv' /\ RefreshIsKept
<1>1. {l} \in SUBSET LookupCall
  OBVIOUS
<1>2. /\ loader' \in [LookupCall -> LoaderRow] /\ entry' \in [LookupKey -> LookupCall \cup {Unset}]
      /\ visitor' \in [Visitor -> LookupKey \cup {Unset}] /\ EntryInv'
      /\ \A m \in LookupCall : loader'[m].step = "await" => loader[m].step = "await"
  BY <1>1, SettledLeaves
<1>3. LookupTypeOK'
  BY <1>2 DEF LookupInv, LookupTypeOK, LoaderRow
<1>4. FetchInv' /\ TimerInv' /\ RefreshIsKept
  BY DEF LookupInv, FetchInv, TimerInv, RefreshIsKept
<1>5. AwaitedFetchRuns'
  BY <1>2 DEF LookupInv, AwaitedFetchRuns, Waiting
<1> QED
  BY <1>2, <1>3, <1>4, <1>5 DEF LookupInv

LEMMA AnsweredStep == ASSUME LookupInv, NEW l \in LookupCall, Answered(l) PROVE LookupInv' /\ RefreshIsKept
<1> DEFINE k == loader[l].key
<1>1. loader[l].step = "call" /\ UNCHANGED <<fetchers, pending, timer, refresher, up>>
  BY DEF Answered
<1>2. k \in LookupKey /\ cached \subseteq LookupKey /\ loader[l] \in LoaderRow
  BY <1>1, LoaderAt DEF LookupInv, LookupTypeOK
<1>3. CASE cached' \subseteq LookupKey /\ Settled({l}, FALSE) /\ UNCHANGED token
  BY <1>1, <1>3, OverByAnswer
<1>4. CASE /\ token' = IF k \in AppleKey THEN token ELSE "none"
           /\ loader' = [loader EXCEPT ![l] = GoingAgain(loader[l], FirstStep(k))]
           /\ UNCHANGED <<entry, cached, visitor>>
  <2> DEFINE r == GoingAgain(loader[l], FirstStep(k))
  <2>1. r \in LoaderRow /\ r.step = FirstStep(k) /\ r.key = k /\ FirstStep(k) \notin {"await", "free"}
    BY <1>2, GoingIs, FirstStepIs
  <2>2. loader' \in [LookupCall -> LoaderRow] /\ EntryInv'
    BY <1>1, <1>4, <2>1, LoaderGoesOn
  <2>3. LookupTypeOK'
    BY <1>1, <1>4, <2>2 DEF LookupInv, LookupTypeOK, LoaderRow
  <2>4. FetchInv' /\ TimerInv' /\ RefreshIsKept
    BY <1>1 DEF LookupInv, FetchInv, TimerInv, RefreshIsKept
  <2>5. \A m \in LookupCall : loader'[m].step = "await" => loader[m].step = "await"
    BY <1>4, <2>1 DEF LookupInv, LookupTypeOK
  <2>6. AwaitedFetchRuns'
    BY <1>1, <2>5 DEF LookupInv, AwaitedFetchRuns, Waiting
  <2> QED
    BY <2>2, <2>3, <2>4, <2>6 DEF LookupInv
<1>5. cached \cup {k} \subseteq LookupKey
  BY <1>2
<1> QED
  BY <1>2, <1>3, <1>4, <1>5 DEF Answered, GoingAgain

LEMMA AnsweredToUserStep ==
    ASSUME LookupInv, NEW l \in LookupCall, AnsweredToUser(l) PROVE LookupInv' /\ RefreshIsKept
<1>1. cached' \subseteq LookupKey
  BY LookupNames DEF AnsweredToUser, LookupInv, LookupTypeOK
<1> QED
  BY <1>1, OverByAnswer DEF AnsweredToUser

LEMMA LookupInvInit == LookupInit => LookupInv
<1> SUFFICES ASSUME LookupInit PROVE LookupInv
  OBVIOUS
<1>1. LookupTypeOK
  BY FreeIs DEF LookupInit, LookupTypeOK, LoaderRow
<1>2. FetchInv /\ EntryInv /\ AwaitedFetchRuns /\ TimerInv
  BY FreeIs DEF LookupInit, FetchInv, EntryInv, AwaitedFetchRuns, Waiting, TimerInv
<1> QED
  BY <1>1, <1>2 DEF LookupInv

LEMMA LookupInvStep == ASSUME LookupInv, [LookupNext]_lookupVars PROVE LookupInv' /\ RefreshIsKept
<1>1. CASE UNCHANGED lookupVars
  <2>1. UNCHANGED <<token, fetchers, pending, timer, refresher, up, loader, entry, cached, visitor>>
    BY <1>1 DEF lookupVars
  <2> QED
    BY <2>1, TimerStep DEF LookupInv, LookupTypeOK, TimerInv, RefreshIsKept
<1>2. CASE LookupNext
  BY <1>2, GetTokenStep, AnsweredStep, AnsweredToUserStep, TokenFetchedStep, PreWarmStep, RefreshDueStep,
     TimerSteps, VisitorSteps, AskStep DEF LookupNext
<1> QED
  BY <1>1, <1>2

LEMMA LookupInvShows == LookupInv => LookupTypeOK /\ LookupsAreShared
<1> SUFFICES ASSUME LookupInv PROVE LookupsAreShared
  BY DEF LookupInv
<1>1. OneTokenFetch
  <2>1. CASE pending = Unset
    BY <2>1, FS_EmptySet DEF LookupInv, FetchInv, OneTokenFetch
  <2>2. CASE pending # Unset
    <3>1. fetchers = {pending} /\ Cardinality({pending}) = 1
      BY <2>2, FS_Singleton DEF LookupInv, FetchInv
    <3> QED
      BY <2>2, <3>1 DEF OneTokenFetch
  <2> QED
    BY <2>1, <2>2
<1>2. OneLoaderPerKey
  BY DEF LookupInv, EntryInv, OneLoaderPerKey
<1> QED
  BY <1>1, <1>2 DEF LookupInv, LookupsAreShared

-------------------------------------------------------------------------------
(* All services                                                                *)

\* The invariant of the service that a behaviour is about.
ServicesInv ==
    /\ In("admin", AdminInv) /\ In("spotlights", SpotInv) /\ In("campaigns", CampaignInv)
    /\ In("identities", IdentityInv) /\ In("connections", MusicInv) /\ In("lookups", LookupInv)

Undoing ==
    /\ In("admin", OldCallUndoes)
    /\ In("identities", LateWriteUndoes)
    /\ In("connections", OldCallBringsBack)
    /\ In("lookups", RefreshIsKept)

LEMMA ServicesInvInit == ServicesInit => ServicesInv
  BY AdminInvInit, SpotInvInit, CampaignInvInit, IdentityInvInit, MusicInvInit, LookupInvInit
     DEF ServicesInit, ServicesInv, In

LEMMA ServicesStep ==
    ASSUME [ServicesNext]_servicesVars
    PROVE  /\ service' = service
           /\ service = "admin" => [AdminNext]_adminVars
           /\ service = "spotlights" => [SpotNext]_spotVars
           /\ service = "campaigns" => [CampaignNext]_campaignVars
           /\ service = "identities" => [IdentityNext]_identityVars
           /\ service = "connections" => [ConnectionsNext]_musicVars
           /\ service = "lookups" => [LookupNext]_lookupVars
  BY DEF ServicesNext, servicesVars

LEMMA ServicesInvStep == ServicesInv /\ [ServicesNext]_servicesVars => ServicesInv' /\ Undoing
<1> SUFFICES ASSUME ServicesInv, [ServicesNext]_servicesVars PROVE ServicesInv' /\ Undoing
  OBVIOUS
<1>1. CASE service = "admin"
  <2>1. AdminInv' /\ OldCallUndoes
    BY <1>1, ServicesStep, AdminInvStep, OldCallStep DEF ServicesInv, In
  <2> QED
    BY <1>1, <2>1, ServicesStep DEF ServicesInv, Undoing, In
<1>2. CASE service = "spotlights"
  <2>1. SpotInv'
    BY <1>2, ServicesStep, SpotInvStep DEF ServicesInv, In
  <2> QED
    BY <1>2, <2>1, ServicesStep DEF ServicesInv, Undoing, In
<1>3. CASE service = "campaigns"
  <2>1. CampaignInv'
    BY <1>3, ServicesStep, CampaignInvStep DEF ServicesInv, In
  <2> QED
    BY <1>3, <2>1, ServicesStep DEF ServicesInv, Undoing, In
<1>4. CASE service = "identities"
  <2>1. IdentityInv' /\ LateWriteUndoes
    BY <1>4, ServicesStep, IdentityInvStep DEF ServicesInv, In
  <2> QED
    BY <1>4, <2>1, ServicesStep DEF ServicesInv, Undoing, In
<1>5. CASE service = "connections"
  <2>1. MusicInv' /\ OldCallBringsBack
    BY <1>5, ServicesStep, MusicInvStep DEF ServicesInv, In
  <2> QED
    BY <1>5, <2>1, ServicesStep DEF ServicesInv, Undoing, In
<1>6. CASE service = "lookups"
  <2>1. LookupInv' /\ RefreshIsKept
    BY <1>6, ServicesStep, LookupInvStep DEF ServicesInv, In
  <2> QED
    BY <1>6, <2>1, ServicesStep DEF ServicesInv, Undoing, In
<1>7. CASE service \notin {"admin", "spotlights", "campaigns", "identities", "connections", "lookups"}
  BY <1>7, ServicesStep DEF ServicesInv, Undoing, In
<1> QED
  BY <1>1, <1>2, <1>3, <1>4, <1>5, <1>6, <1>7

LEMMA ServicesInvShows ==
    ServicesInv =>
        /\ ServiceTypeOK /\ SuperAdminStays /\ ChallengesAreSingle /\ CampaignsAreTrue
        /\ SubjectsAreTheirOwn /\ ConnectionsHold /\ LookupsHold
<1> SUFFICES ASSUME ServicesInv
             PROVE  /\ ServiceTypeOK /\ SuperAdminStays /\ ChallengesAreSingle /\ CampaignsAreTrue
                    /\ SubjectsAreTheirOwn /\ ConnectionsHold /\ LookupsHold
  OBVIOUS
<1>1. SuperAdminStays /\ ChallengesAreSingle /\ In("admin", AdminTypeOK)
  BY AdminInvShows DEF ServicesInv, SuperAdminStays, ChallengesAreSingle, In
<1>2. CampaignsAreTrue /\ In("spotlights", SpotTypeOK) /\ In("campaigns", CampaignTypeOK)
  BY CampaignInvShows DEF ServicesInv, CampaignsAreTrue, In, SpotInv
<1>3. SubjectsAreTheirOwn /\ In("identities", IdentityTypeOK)
  BY IdentityInvShows DEF ServicesInv, SubjectsAreTheirOwn, In
<1>4. ConnectionsHold /\ In("connections", MusicTypeOK)
  BY MusicInvShows DEF ServicesInv, ConnectionsHold, In
<1>5. LookupsHold /\ In("lookups", LookupTypeOK)
  BY LookupInvShows DEF ServicesInv, LookupsHold, In
<1> QED
  BY <1>1, <1>2, <1>3, <1>4, <1>5 DEF ServiceTypeOK

LEMMA ServicesInvariant == ServicesSpec => []ServicesInv
<1>1. ServicesInit => ServicesInv
  BY ServicesInvInit
<1>2. ServicesInv /\ [ServicesNext]_servicesVars => ServicesInv'
  BY ServicesInvStep
<1> QED
  BY <1>1, <1>2, PTL DEF ServicesSpec

\* The rows and requests of every service hold values of their types.
THEOREM ServiceTypes == ServicesSpec => []ServiceTypeOK
  BY ServicesInvariant, ServicesInvShows, PTL

\* An active super administrator remains, as long as two counted operations do
\* not overlap: every demotion, suspension and removal counts the others first
\* (admin-iam.service.ts).
THEOREM ASuperAdminRemains == ServicesSpec => []SuperAdminStays
  BY ServicesInvariant, ServicesInvShows, PTL

\* A challenge of the second factor opens one session, however many requests
\* answer it at once (admin-mfa-ticket-store.service.ts).
THEOREM ChallengesAreSpent == ServicesSpec => []ChallengesAreSingle
  BY ServicesInvariant, ServicesInvShows, PTL

\* A campaign counts as delivered on the provider's evidence only, and a device
\* gets the notifications of one account, unless two registrations of it
\* overlap (admin-notifications.service.ts); what users see of spotlights is
\* complete and at its time (spotlight.service.ts).
THEOREM CampaignsHaveEvidence == ServicesSpec => []CampaignsAreTrue
  BY ServicesInvariant, ServicesInvShows, PTL

\* Nobody gets the sign-ins of a person by claiming their address first: with any
\* number of requests, accounts and addresses, and whatever the addresses match
\* as patterns, a sign-in joins a subject to the account made for it or to one
\* that has proven an address which the subject's email finds, deletions and late
\* saves included (social-identity.service.ts, users.service.ts).
THEOREM NobodyIsHijacked == ServicesSpec => []SubjectsAreTheirOwn
  BY ServicesInvariant, ServicesInvShows, PTL

\* As long as no address matches another as a pattern, a sign-in joins a subject
\* to the account that has proven the very email the subject came with
\* (findByEmail of users.service.ts, resolveUser).
THEOREM PlainAddressesLinkExactly ==
    ASSUME \A e \in Address : Likes[e] \subseteq {e}
    PROVE  ServicesSpec => [](service = "identities" => LinkedByItsAddress)
<1>1. ServicesInv => (service = "identities" => LinkedByItsAddress)
  <2> SUFFICES ASSUME ServicesInv, service = "identities", NEW s \in Subject, joined[s] # NoOne,
                      joined[s].by = "sign-in", everMade[joined[s].owner] # s
               PROVE  joined[s].through \in proven[joined[s].owner]
    BY DEF LinkedByItsAddress
  <2>1. FoundUnder(joined[s].through, proven[joined[s].owner])
    BY IdentityInvShows DEF ServicesInv, In, NoPreHijack
  <2> QED
    BY <2>1 DEF FoundUnder
<1> QED
  BY <1>1, ServicesInvariant, PTL

\* An authorization connects one account, a process refreshes a token once at a
\* time, whoever waits for it is woken, and tokens fit the status of their row
\* (music-connections.service.ts).
THEOREM ConnectionsAreSound == ServicesSpec => []ConnectionsHold
  BY ServicesInvariant, ServicesInvShows, PTL

\* One fetch of the client token and one look-up of a key are under way at a
\* time, and nobody waits for work that nobody does (music.service.ts).
THEOREM LookupsAreJoined == ServicesSpec => []LookupsHold
  BY ServicesInvariant, ServicesInvShows, PTL

\* A decision about an administrator, a way into an account or its deletion, and
\* the disconnection of a provider are undone by requests only that had read
\* before; and the background refresh of the client token goes on.
THEOREM OnlyLateRequestsUndo == ServicesSpec => OnlyTheLateUndo
<1>1. ServicesInv /\ [ServicesNext]_servicesVars =>
        [/\ In("admin", OldCallUndoes)
         /\ In("identities", LateWriteUndoes)
         /\ In("connections", OldCallBringsBack)
         /\ In("lookups", RefreshIsKept)]_servicesVars
  BY ServicesInvStep DEF Undoing
<1> QED
  BY <1>1, ServicesInvariant, PTL DEF ServicesSpec, OnlyTheLateUndo

===============================================================================
