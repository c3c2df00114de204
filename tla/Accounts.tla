------------------------------- MODULE Accounts -------------------------------
(***************************************************************************)
(* The account of one e-mail address (auth.service.ts): its registration   *)
(* by a mailed code, its refresh sessions, and password resets by a mailed *)
(* code.  Addresses share no row, so one stands for all.                   *)
(*                                                                         *)
(* Transactions run at READ COMMITTED.  A request is a sequence of steps,  *)
(* one per await that other requests may make use of: hashing, the reads   *)
(* it decides on, its writes, the mail.  `now' is taken when a request     *)
(* begins and is old when the request writes.                              *)
(***************************************************************************)
EXTENDS Naturals, Sequences, FiniteSets

CONSTANTS
    Calls,        \* API requests in flight
    Codes,        \* mailed codes; a row is called by the code it was created with
    Tokens,       \* refresh token ids
    MaxAttempts,  \* REGISTRATION_MAX_ATTEMPTS, PASSWORD_RESET_MAX_ATTEMPTS
    CodeTtl,      \* lifetime of a code, in ticks
    Cooldown,     \* resend cooldown, in ticks
    PendingTtl,   \* PENDING_REGISTRATION_TTL_HOURS, in ticks
    MaxTime,      \* bound: the clock stops there
    Faults,       \* which faults may happen, see FaultKinds
    NULL

FaultKinds ==
    {"mail",     \* sending a mail fails
     "abort",    \* a request ends at an await, for a crash or a database error
     "overlap"}  \* logins, refreshes and resets meet one another

ASSUME AccountConstants ==
    /\ MaxAttempts \in Nat \ {0}
    /\ CodeTtl \in Nat \ {0} /\ Cooldown \in Nat \ {0} /\ PendingTtl \in Nat \ {0}
    /\ MaxTime \in Nat
    /\ Faults \subseteq FaultKinds
    /\ NULL \notin Codes /\ NULL \notin Tokens

VARIABLES
    now,       \* the clock
    drawn,     \* codes generated so far
    pending,   \* the PendingRegistration row of the address, or NULL
    password,  \* User.passwordHash as the code that set it, NULL without a user
    resets,    \* PasswordResetRequest rows, oldest first
    token,     \* RefreshToken rows
    call       \* API requests in flight

vars == <<now, drawn, pending, password, resets, token, call>>

Times == 0..(MaxTime + CodeTtl + PendingTtl)
PendingRows == [id : Codes, code : Codes, attempts : 0..MaxAttempts,
                sent : Times, expires : Times, until : Times]
ResetRows == [code : Codes, attempts : 0..MaxAttempts, created : Times,
              expires : Times, used : BOOLEAN]
\* parent and password remember how a session came about: the token it was
\* refreshed from and the password it was opened with.
TokenRows == [state : {"unused", "live", "deleted"}, parent : Tokens \cup {NULL},
              password : Codes \cup {NULL}]
Steps == {"idle", "register", "create", "resend", "replace", "mail", "miss", "claim",
          "login", "refresh", "forgot", "issue", "resetMail", "resetMiss", "reset", "revoke"}
\* count: the attempts, last mail or number of requests that the call has read.
CallRows == [step : Steps, at : Times, code : Codes \cup {NULL}, id : Codes \cup {NULL},
             count : Nat, token : Tokens \cup {NULL}, sessions : SUBSET Tokens]

\* Column types, the foreign key of sessions and reset requests, and the unique
\* index on open requests.
TypeOK ==
    /\ now \in 0..MaxTime
    /\ drawn \subseteq Codes
    /\ pending \in PendingRows \cup {NULL}
    /\ password \in Codes \cup {NULL}
    /\ resets \in Seq(ResetRows)
    /\ token \in [Tokens -> TokenRows]
    /\ call \in [Calls -> CallRows]
    /\ password = NULL => resets = <<>> /\ \A t \in Tokens : token[t].state = "unused"
    /\ \A i, j \in 1..Len(resets) : ~resets[i].used /\ ~resets[j].used => i = j

IdleCall == [step |-> "idle", at |-> 0, code |-> NULL, id |-> NULL, count |-> 0,
             token |-> NULL, sessions |-> {}]

Init ==
    /\ now = 0
    /\ drawn = {}
    /\ pending = NULL
    /\ password = NULL
    /\ resets = <<>>
    /\ token = [t \in Tokens |-> [state |-> "unused", parent |-> NULL, password |-> NULL]]
    /\ call = [c \in Calls |-> IdleCall]

-----------------------------------------------------------------------------
(* Shared pieces.                                                          *)

At(c, step) == call[c].step = step
Go(c, row) == call' = [call EXCEPT ![c] = row]
GoTo(c, step) == Go(c, [call[c] EXCEPT !.step = step])
EndCall(c) == Go(c, IdleCall)
Begin(c, step) == At(c, "idle") /\ Go(c, [IdleCall EXCEPT !.step = step, !.at = now])

\* A fresh six-digit code.
Draw(k) == k \in Codes \ drawn /\ drawn' = drawn \cup {k}

CoolingDown(sent, at) == sent + Cooldown > at

NewToken(t, parent, pass) == [state |-> "live", parent |-> parent, password |-> pass]
Live == {t \in Tokens : token[t].state = "live"}

\* The newest row, as every password-reset query orders them.
Newest == Len(resets)
IndexOf(code) == CHOOSE i \in 1..Len(resets) : resets[i].code = code

-----------------------------------------------------------------------------
(* register                                                                *)

RegisterBegin(c) ==
    /\ password = NULL
    /\ Begin(c, "register")
    /\ UNCHANGED <<now, drawn, pending, password, resets, token>>

\* The transaction's reads: the user, then the pending row.  A row that has not
\* outlived its total lifetime is answered for and left alone.
RegisterRead(c) ==
    /\ At(c, "register")
    /\ IF password # NULL \/ (pending # NULL /\ pending.until > call[c].at)
       THEN EndCall(c)
       ELSE Go(c, [call[c] EXCEPT !.step = "create", !.id = IF pending = NULL THEN NULL ELSE pending.id])
    /\ UNCHANGED <<now, drawn, pending, password, resets, token>>

\* Its writes: an expired row goes, a new one comes, unless another request
\* has created one (unique e-mail).
RegisterCreate(c, k) ==
    LET at == call[c].at IN
    /\ At(c, "create")
    /\ pending # NULL => pending.id = call[c].id
    /\ Draw(k)
    /\ pending' = [id |-> k, code |-> k, attempts |-> 0, sent |-> at,
                   expires |-> at + CodeTtl, until |-> at + PendingTtl]
    /\ Go(c, [call[c] EXCEPT !.step = "mail", !.code = k, !.id = k])
    /\ UNCHANGED <<now, password, resets, token>>

RegisterConflict(c) ==
    /\ At(c, "create")
    /\ pending # NULL /\ pending.id # call[c].id
    /\ EndCall(c)
    /\ UNCHANGED <<now, drawn, pending, password, resets, token>>

-----------------------------------------------------------------------------
(* The mail of a registration code, from register or resend.               *)

MailSent(c) ==
    /\ call[c].step \in {"mail", "resetMail"}
    /\ EndCall(c)
    /\ UNCHANGED <<now, drawn, pending, password, resets, token>>

VoidAnyCode(row, c) == row.id = call[c].id
\* The row still carries the code that could not be mailed.
VoidsCode(row, c) == row.id = call[c].id /\ row.code = call[c].code

\* invalidatePendingRegistrationCode
MailFailed(c) ==
    /\ "mail" \in Faults
    /\ At(c, "mail")
    /\ pending' = IF pending # NULL /\ VoidsCode(pending, c)
                  THEN [pending EXCEPT !.expires = now, !.attempts = MaxAttempts] ELSE pending
    /\ EndCall(c)
    /\ UNCHANGED <<now, drawn, password, resets, token>>

-----------------------------------------------------------------------------
(* resendRegistrationCode                                                  *)

ResendBegin(c) ==
    /\ password = NULL
    /\ Begin(c, "resend")
    /\ UNCHANGED <<now, drawn, pending, password, resets, token>>

\* An expired row is deleted; the cooldown is measured from the row's last mail.
ResendRead(c) ==
    LET at == call[c].at
        refused == password # NULL \/ pending = NULL
    IN
    /\ At(c, "resend")
    /\ pending' = IF ~refused /\ pending.until <= at THEN NULL ELSE pending
    /\ IF refused \/ pending.until <= at \/ CoolingDown(pending.sent, at)
       THEN EndCall(c)
       ELSE Go(c, [call[c] EXCEPT !.step = "replace", !.id = pending.id, !.count = pending.sent])
    /\ UNCHANGED <<now, drawn, password, resets, token>>

SameRow(c) == pending # NULL /\ pending.id = call[c].id
\* No other request has replaced the code since it was read.
SameMail(c) == SameRow(c) /\ pending.sent = call[c].count

ResendReplace(c, k) ==
    LET at == call[c].at IN
    /\ At(c, "replace")
    /\ SameMail(c) /\ pending.until > at
    /\ Draw(k)
    /\ pending' = [pending EXCEPT !.code = k, !.attempts = 0, !.sent = at, !.expires = at + CodeTtl]
    /\ Go(c, [call[c] EXCEPT !.step = "mail", !.code = k, !.count = 0])
    /\ UNCHANGED <<now, password, resets, token>>

ResendTooLate(c) ==
    /\ At(c, "replace")
    /\ ~(SameMail(c) /\ pending.until > call[c].at)
    /\ EndCall(c)
    /\ UNCHANGED <<now, drawn, pending, password, resets, token>>

-----------------------------------------------------------------------------
(* verifyRegistration                                                      *)

\* Reads the row, drops it when it has outlived its total lifetime, refuses an
\* expired or exhausted code, and compares the code.
VerifyRead(c) ==
    /\ At(c, "idle")
    /\ pending # NULL
    /\ IF pending.until <= now
       THEN pending' = NULL /\ UNCHANGED call
       ELSE /\ pending.expires > now /\ pending.attempts < MaxAttempts
            /\ \E step \in {"miss", "claim"} :
                 Go(c, [IdleCall EXCEPT !.step = step, !.at = now, !.id = pending.id,
                                        !.code = pending.code, !.count = pending.attempts])
            /\ UNCHANGED pending
    /\ UNCHANGED <<now, drawn, password, resets, token>>

MissesUncounted(row, c) == TRUE
\* Nobody has counted another miss since the row was read.
Misses(row, c) == row.attempts = call[c].count

\* recordFailedRegistrationAttempt
VerifyMiss(c) ==
    LET at == call[c].at
        count == call[c].count + 1
    IN
    /\ At(c, "miss")
    /\ pending' = IF /\ SameRow(c) /\ pending.code = call[c].code
                     /\ pending.expires > at /\ pending.until > at
                     /\ Misses(pending, c)
                  THEN [pending EXCEPT !.attempts = count,
                                       !.expires = IF count >= MaxAttempts THEN at ELSE @]
                  ELSE pending
    /\ EndCall(c)
    /\ UNCHANGED <<now, drawn, password, resets, token>>

ClaimsAnyCode(c) == SameRow(c) /\ pending.attempts < MaxAttempts
ClaimsCode(c) ==
    /\ SameRow(c)
    /\ pending.code = call[c].code
    /\ pending.expires > call[c].at /\ pending.until > call[c].at
    /\ pending.attempts < MaxAttempts

\* The transaction that turns the pending row into a user with a session.
VerifyClaim(c, t) ==
    /\ At(c, "claim")
    /\ password = NULL /\ ClaimsCode(c)
    /\ token[t].state = "unused"
    /\ pending' = NULL
    /\ password' = pending.id
    /\ token' = [token EXCEPT ![t] = NewToken(t, NULL, pending.id)]
    /\ EndCall(c)
    /\ UNCHANGED <<now, drawn, resets>>

VerifyRefused(c) ==
    /\ At(c, "claim")
    /\ password # NULL \/ ~ClaimsCode(c)
    /\ EndCall(c)
    /\ UNCHANGED <<now, drawn, pending, password, resets, token>>

-----------------------------------------------------------------------------
(* login, refresh and logout                                               *)

Unhindered(steps) == "overlap" \in Faults \/ \A c \in Calls : call[c].step \notin steps

\* The password is right: the session will be opened with it.
LoginBegin(c) ==
    /\ At(c, "idle")
    /\ password # NULL
    /\ Unhindered({"reset", "revoke"})
    /\ Go(c, [IdleCall EXCEPT !.step = "login", !.id = password])
    /\ UNCHANGED <<now, drawn, pending, password, resets, token>>

LoginIssue(c, t) ==
    /\ At(c, "login")
    /\ token[t].state = "unused"
    /\ token' = [token EXCEPT ![t] = NewToken(t, NULL, call[c].id)]
    /\ EndCall(c)
    /\ UNCHANGED <<now, drawn, pending, password, resets>>

RefreshBegin(c, t) ==
    /\ At(c, "idle")
    /\ t \in Live
    /\ Unhindered({"reset", "revoke"})
    /\ Go(c, [IdleCall EXCEPT !.step = "refresh", !.token = t])
    /\ UNCHANGED <<now, drawn, pending, password, resets, token>>

RotatesAnyway(c) == token[call[c].token].state # "unused"
\* deleted.count = 1
Rotates(c) == call[c].token \in Live

RefreshRotate(c, t) ==
    LET old == call[c].token IN
    /\ At(c, "refresh")
    /\ Rotates(c)
    /\ token[t].state = "unused"
    /\ token' = [token EXCEPT ![old].state = "deleted",
                              ![t] = NewToken(t, old, token[old].password)]
    /\ EndCall(c)
    /\ UNCHANGED <<now, drawn, pending, password, resets>>

RefreshUsed(c) ==
    /\ At(c, "refresh")
    /\ ~Rotates(c)
    /\ EndCall(c)
    /\ UNCHANGED <<now, drawn, pending, password, resets, token>>

\* The row is found and deleted; gone already, it is not looked for again.
Logout(t) ==
    /\ t \in Live
    /\ token' = [token EXCEPT ![t].state = "deleted"]
    /\ UNCHANGED <<now, drawn, pending, password, resets, call>>

-----------------------------------------------------------------------------
(* forgotPassword                                                          *)

ForgotBegin(c) ==
    /\ password # NULL
    /\ Begin(c, "forgot")
    /\ UNCHANGED <<now, drawn, pending, password, resets, token>>

\* The newest request decides on the cooldown.
ForgotRead(c) ==
    /\ At(c, "forgot")
    /\ IF resets # <<>> /\ CoolingDown(resets[Newest].created, call[c].at)
       THEN EndCall(c)
       ELSE Go(c, [call[c] EXCEPT !.step = "issue", !.count = Newest])
    /\ UNCHANGED <<now, drawn, pending, password, resets, token>>

ClosedNone(rows) == rows
\* Open requests are marked used before the new one is created.
Closed(rows) == [i \in DOMAIN rows |-> [rows[i] EXCEPT !.used = TRUE]]

ForgotIssue(c, k) ==
    /\ At(c, "issue")
    /\ Draw(k)
    /\ resets' = Append(Closed(resets), [code |-> k, attempts |-> 0, created |-> now,
                                         expires |-> call[c].at + CodeTtl, used |-> FALSE])
    /\ Go(c, [IdleCall EXCEPT !.step = "resetMail", !.code = k])
    /\ UNCHANGED <<now, pending, password, token>>

\* A request created since the read is open, and the update that closes open
\* requests did not see it: the unique index refuses a second one.
ForgotConflict(c) ==
    /\ At(c, "issue")
    /\ \E i \in 1..Len(resets) : i > call[c].count /\ ~resets[i].used
    /\ EndCall(c)
    /\ UNCHANGED <<now, drawn, pending, password, resets, token>>

ResetMailFailed(c) ==
    /\ "mail" \in Faults
    /\ At(c, "resetMail")
    /\ resets' = [resets EXCEPT ![IndexOf(call[c].code)].used = TRUE]
    /\ EndCall(c)
    /\ UNCHANGED <<now, drawn, pending, password, token>>

-----------------------------------------------------------------------------
(* resetPassword                                                           *)

ResetRead(c) ==
    /\ At(c, "idle")
    /\ resets # <<>>
    /\ LET row == resets[Newest] IN
       /\ ~row.used /\ row.expires > now /\ row.attempts < MaxAttempts
       /\ \E step \in {"resetMiss", "reset"} :
            /\ step = "reset" => Unhindered({"login", "refresh"})
            /\ Go(c, [IdleCall EXCEPT !.step = step, !.at = now, !.code = row.code, !.count = row.attempts])
    /\ UNCHANGED <<now, drawn, pending, password, resets, token>>

\* recordFailedResetAttempt
ResetMiss(c) ==
    LET i == IndexOf(call[c].code)
        row == resets[i]
        count == call[c].count + 1
    IN
    /\ At(c, "resetMiss")
    /\ resets' = IF ~row.used /\ row.expires > call[c].at /\ Misses(row, c)
                 THEN [resets EXCEPT ![i].attempts = count, ![i].used = count >= MaxAttempts]
                 ELSE resets
    /\ EndCall(c)
    /\ UNCHANGED <<now, drawn, pending, password, token>>

\* The sessions that the transaction's last statement sees.  A refresh or a login
\* that commits after it leaves one that this statement does not delete.
ResetSessions(c) ==
    /\ At(c, "reset")
    /\ Go(c, [call[c] EXCEPT !.step = "revoke", !.sessions = Live])
    /\ UNCHANGED <<now, drawn, pending, password, resets, token>>

OpenAnyway(row, at) == row.expires > at
OpenRequest(row, at) == ~row.used /\ row.expires > at /\ row.attempts < MaxAttempts

RevokedNone(sessions) == token
Revoked(sessions) == [t \in Tokens |-> IF t \in sessions THEN [token[t] EXCEPT !.state = "deleted"]
                                       ELSE token[t]]

\* The request is claimed, the password set, and everything else closed.
ResetCommit(c) ==
    /\ At(c, "revoke")
    /\ OpenRequest(resets[IndexOf(call[c].code)], call[c].at)
    /\ password' = call[c].code
    /\ resets' = Closed(resets)
    /\ token' = Revoked(call[c].sessions)
    /\ EndCall(c)
    /\ UNCHANGED <<now, drawn, pending>>

ResetRefused(c) ==
    /\ At(c, "revoke")
    /\ ~OpenRequest(resets[IndexOf(call[c].code)], call[c].at)
    /\ EndCall(c)
    /\ UNCHANGED <<now, drawn, pending, password, resets, token>>

-----------------------------------------------------------------------------
(* Failures and time.                                                      *)

Abort(c) ==
    /\ "abort" \in Faults
    /\ ~At(c, "idle")
    /\ EndCall(c)
    /\ UNCHANGED <<now, drawn, pending, password, resets, token>>

Tick ==
    /\ now < MaxTime
    /\ now' = now + 1
    /\ UNCHANGED <<drawn, pending, password, resets, token, call>>

Next ==
    \/ \E c \in Calls :
        \/ RegisterBegin(c) \/ RegisterRead(c) \/ RegisterConflict(c)
        \/ MailSent(c) \/ MailFailed(c)
        \/ ResendBegin(c) \/ ResendRead(c) \/ ResendTooLate(c)
        \/ VerifyRead(c) \/ VerifyMiss(c) \/ VerifyRefused(c)
        \/ LoginBegin(c) \/ RefreshUsed(c)
        \/ ForgotBegin(c) \/ ForgotRead(c) \/ ForgotConflict(c) \/ ResetMailFailed(c)
        \/ ResetRead(c) \/ ResetMiss(c) \/ ResetSessions(c) \/ ResetCommit(c) \/ ResetRefused(c)
        \/ Abort(c)
        \/ \E k \in Codes : RegisterCreate(c, k) \/ ResendReplace(c, k) \/ ForgotIssue(c, k)
        \/ \E t \in Tokens : \/ VerifyClaim(c, t) \/ LoginIssue(c, t)
                             \/ RefreshBegin(c, t) \/ RefreshRotate(c, t)
    \/ \E t \in Tokens : Logout(t)
    \/ Tick

Spec == Init /\ [][Next]_vars

-----------------------------------------------------------------------------
(* Properties.                                                             *)

\* A refresh token is rotated into at most one successor, however many requests
\* present it at once (refresh: `deleted.count !== 1').
RotatedOnce ==
    \A t, u \in Tokens :
        token[t].parent # NULL /\ token[t].parent = token[u].parent => t = u

\* A session was opened with the password the account has: resetPassword revokes
\* every session of the password it replaces.
SessionsFollowPassword == \A t \in Live : token[t].password = password

\* verifyRegistration creates a user from the code mailed last, which is neither
\* exhausted nor replaced: of the codes that resends and misses left behind,
\* a request that has read one earlier may not use it.
AccountByCurrentCode ==
    [][password = NULL /\ password' # NULL =>
        \E c \in Calls : /\ call[c].step = "claim" /\ call'[c].step = "idle"
                         /\ pending.id = password' /\ pending.code = call[c].code
                         /\ pending.attempts < MaxAttempts]_vars

\* resetPassword changes the password once per mailed code: the code was open
\* and is closed, and so is every other one.
PasswordByOpenCode ==
    [][password # NULL /\ password' # password =>
        /\ \E i \in 1..Len(resets) : resets[i].code = password' /\ ~resets[i].used
        /\ \A i \in 1..Len(resets') : resets'[i].used]_vars

\* A replacement code is sent no sooner than the cooldown after the mail before
\* it (resendRegistrationCode), also when several requests ask at once.
CooldownKept ==
    [][pending # NULL /\ pending' # NULL
        /\ pending'.id = pending.id /\ pending'.code # pending.code =>
            ~CoolingDown(pending.sent, pending'.sent)]_vars

\* A code that was exhausted or voided never comes back to life
\* (recordFailedRegistrationAttempt, recordFailedResetAttempt).
ExhaustedForGood ==
    [][/\ pending # NULL /\ pending' # NULL /\ pending'.code = pending.code =>
            pending'.attempts >= pending.attempts
       /\ \A i \in 1..Len(resets) : resets[i].used => resets'[i].used]_vars

\* A request whose mail fails voids the code it has written and no newer one
\* (invalidatePendingRegistrationCode).
NewerCodeSurvives ==
    [][pending # NULL /\ pending' # NULL /\ pending'.code = pending.code
        /\ pending'.attempts > pending.attempts + 1 =>
            \E c \in Calls : call[c].step = "mail" /\ call[c].code = pending.code]_vars

=============================================================================
