---------------------------- MODULE AccountsProofs ----------------------------
(***************************************************************************)
(* A code works once, as long as it is the current one and not exhausted;  *)
(* cooldowns are kept; a refresh token has one successor; and a reset      *)
(* leaves no session of the password it replaces, unless one is being      *)
(* opened meanwhile.                                                       *)
(*                                                                         *)
(* The argument: the rows of the tables are sound by themselves (Pending,  *)
(* Resets, Sessions), and what a request still relies on after an await,   *)
(* later steps of others keep true (RowSound): a user stays, a reset row   *)
(* stays, the clock goes on.  What does not stay, the writes ask for again.*)
(***************************************************************************)
EXTENDS Accounts, SequenceTheorems, TLAPS

\* The pending row and the clock.  A row's names were drawn.
Pending ==
    /\ now \in 0..MaxTime
    /\ drawn \subseteq Codes
    /\ pending \in PendingRows \cup {NULL}
    /\ pending # NULL => pending.id \in drawn /\ pending.code \in drawn

OneOpen(rows) == \A i, j \in 1..Len(rows) : ~rows[i].used /\ ~rows[j].used => i = j

\* The user and its reset requests.
Resets ==
    /\ password \in Codes \cup {NULL}
    /\ resets \in Seq(ResetRows)
    /\ password = NULL => resets = <<>>
    /\ OneOpen(resets)

\* The sessions: what was refreshed is gone.
Sessions ==
    /\ token \in [Tokens -> TokenRows]
    /\ password = NULL => \A t \in Tokens : token[t].state = "unused"
    /\ \A t \in Tokens : token[t].parent # NULL => token[token[t].parent].state = "deleted"
    /\ RotatedOnce

Mailed(code, rows) == \E i \in 1..Len(rows) : rows[i].code = code

\* What a request relies on, given the clock, the password and the reset rows.
RowSound(row, n, p, rows) ==
    /\ row \in CallRows
    /\ row.at \in Nat /\ row.at <= n
    /\ row.step \in {"miss", "resetMiss"} => row.count < MaxAttempts
    /\ row.step = "replace" => row.count + Cooldown <= row.at
    /\ row.step \in {"login", "forgot", "issue"} => p # NULL
    /\ row.step = "login" => row.id # NULL
    /\ row.step = "refresh" => row.token \in Tokens
    /\ row.step \in {"resetMail", "resetMiss", "reset", "revoke"} => Mailed(row.code, rows)

Requests ==
    /\ call \in [Calls -> CallRows]
    /\ \A c \in Calls : RowSound(call[c], now, password, resets)

IInv == Pending /\ Resets /\ Sessions /\ Requests

-----------------------------------------------------------------------------
(* Requests: who moves gives a sound row, and the others keep theirs.      *)

\* Nothing that a request relies on goes away.
Grows ==
    /\ now \in Nat /\ now' \in Nat /\ now <= now'
    /\ password # NULL => password' # NULL
    /\ \A code \in Codes \cup {NULL} : Mailed(code, resets) => Mailed(code, resets')

LEMMA RowKept ==
    ASSUME Grows, NEW row, RowSound(row, now, password, resets)
    PROVE  RowSound(row, now', password', resets')
  <1>1. row.at \in Nat /\ row.at <= now' /\ row.code \in Codes \cup {NULL}
    BY DEF RowSound, Grows, CallRows
  <1> QED BY <1>1 DEF RowSound, Grows

LEMMA RequestsGo ==
    ASSUME IInv, Grows, NEW c \in Calls, NEW row, Go(c, row), RowSound(row, now', password', resets')
    PROVE  Requests'
  <1>1. /\ call' \in [Calls -> CallRows]
        /\ \A d \in Calls : call'[d] = IF d = c THEN row ELSE call[d]
    BY DEF Go, IInv, Requests, RowSound
  <1>2. \A d \in Calls : RowSound(call[d], now', password', resets')
    BY RowKept DEF IInv, Requests
  <1>3. \A d \in Calls : RowSound(call'[d], now', password', resets')
    BY <1>1, <1>2
  <1> QED BY <1>1, <1>3 DEF Requests

LEMMA RequestsStay ==
    ASSUME IInv, Grows, UNCHANGED call
    PROVE  Requests'
  <1>1. \A d \in Calls : RowSound(call[d], now', password', resets')
    BY RowKept DEF IInv, Requests
  <1> QED BY <1>1 DEF IInv, Requests

LEMMA GrowsStill ==
    ASSUME IInv, UNCHANGED <<now, password, resets>>
    PROVE  Grows
  BY DEF IInv, Pending, Grows, Mailed

LEMMA IdleSound ==
    ASSUME NEW n \in Nat, NEW p, NEW rows
    PROVE  RowSound(IdleCall, n, p, rows)
  <1>1. 0 \in Times
    BY AccountConstants DEF Times
  <1>2. IdleCall \in CallRows
    BY <1>1 DEF IdleCall, CallRows, Steps
  <1>3. IdleCall.step = "idle" /\ IdleCall.at = 0
    BY DEF IdleCall
  <1> QED BY <1>2, <1>3 DEF RowSound

LEMMA RequestsEnd ==
    ASSUME IInv, Grows, NEW c \in Calls, EndCall(c)
    PROVE  Requests'
  BY IdleSound, RequestsGo DEF EndCall, Grows

\* A row of the table, read by a request.
LEMMA CallTypes ==
    ASSUME IInv, NEW c \in Calls
    PROVE  /\ call[c] \in CallRows /\ RowSound(call[c], now, password, resets)
           /\ call[c].at \in 0..MaxTime /\ call[c].count \in Nat
           /\ call[c].code \in Codes \cup {NULL} /\ call[c].id \in Codes \cup {NULL}
           /\ call[c].token \in Tokens \cup {NULL} /\ call[c].sessions \in SUBSET Tokens
           /\ now \in Nat /\ now \in 0..MaxTime
  <1>1. call[c] \in CallRows /\ RowSound(call[c], now, password, resets)
    BY DEF IInv, Requests, RowSound
  <1>2. now \in 0..MaxTime /\ call[c].at \in Nat /\ call[c].at <= now
    BY <1>1 DEF IInv, Pending, RowSound
  <1> QED BY <1>1, <1>2, AccountConstants DEF CallRows

\* The reset row that a request has read or written.
LEMMA Indexed ==
    ASSUME IInv, NEW c \in Calls, call[c].step \in {"resetMail", "resetMiss", "reset", "revoke"}
    PROVE  /\ IndexOf(call[c].code) \in 1..Len(resets)
           /\ resets[IndexOf(call[c].code)] \in ResetRows
           /\ resets[IndexOf(call[c].code)].code = call[c].code
           /\ Len(resets) \in Nat /\ password # NULL
           /\ call[c].code \in Codes
  <1>1. \E i \in 1..Len(resets) : resets[i].code = call[c].code
    BY DEF IInv, Requests, RowSound, Mailed
  <1>2. IndexOf(call[c].code) \in 1..Len(resets) /\ resets[IndexOf(call[c].code)].code = call[c].code
    BY <1>1 DEF IndexOf
  <1>3. resets \in Seq(ResetRows) /\ Len(resets) \in Nat
    BY DEF IInv, Resets
  <1>4. resets[IndexOf(call[c].code)] \in ResetRows
    BY <1>2, <1>3
  <1>5. password # NULL
    <2>1. SUFFICES ASSUME password = NULL PROVE FALSE
      OBVIOUS
    <2>2. resets = <<>>
      BY <2>1 DEF IInv, Resets
    <2> QED BY <1>2, <2>2
  <1> QED BY <1>2, <1>3, <1>4, <1>5 DEF ResetRows

-----------------------------------------------------------------------------
(* The rows of reset requests under what is done to them.                  *)

LEMMA ClosedRows ==
    ASSUME NEW rows \in Seq(ResetRows)
    PROVE  /\ Closed(rows) \in Seq(ResetRows)
           /\ Len(Closed(rows)) = Len(rows) /\ Len(rows) \in Nat
           /\ \A i \in 1..Len(rows) : Closed(rows)[i] = [rows[i] EXCEPT !.used = TRUE]
           /\ \A i \in 1..Len(rows) : Closed(rows)[i] \in ResetRows /\ Closed(rows)[i].used
                                     /\ Closed(rows)[i].code = rows[i].code
  <1>1. DOMAIN rows = 1..Len(rows) /\ Len(rows) \in Nat
    OBVIOUS
  <1>2. Closed(rows) = [i \in 1..Len(rows) |-> [rows[i] EXCEPT !.used = TRUE]]
    BY <1>1 DEF Closed
  <1>3. \A i \in 1..Len(rows) : rows[i] \in ResetRows
    OBVIOUS
  <1>4. \A i \in 1..Len(rows) : [rows[i] EXCEPT !.used = TRUE] \in ResetRows
    BY <1>3 DEF ResetRows
  <1>5. Closed(rows) \in Seq(ResetRows)
    BY <1>1, <1>2, <1>4
  <1>6. \A i \in 1..Len(rows) : Closed(rows)[i] \in ResetRows /\ Closed(rows)[i].used
                                /\ Closed(rows)[i].code = rows[i].code
    BY <1>2, <1>4, <1>3 DEF ResetRows
  <1>7. Len(Closed(rows)) = Len(rows)
    BY <1>1, <1>2, <1>5
  <1> QED BY <1>1, <1>2, <1>5, <1>6, <1>7

\* Rows are added and never taken away, and keep their code.
Keeps(rows, after) ==
    /\ Len(after) \in Nat /\ Len(rows) <= Len(after)
    /\ \A i \in 1..Len(rows) : after[i].code = rows[i].code /\ (rows[i].used => after[i].used)

LEMMA GrowsRows ==
    ASSUME IInv, Keeps(resets, resets'), now' = now, password # NULL => password' # NULL
    PROVE  Grows
  <1>1. Len(resets) \in Nat /\ now \in Nat
    BY DEF IInv, Resets, Pending
  <1>2. \A i \in 1..Len(resets) : i \in 1..Len(resets')
    BY <1>1 DEF Keeps
  <1>3. \A code \in Codes \cup {NULL} : Mailed(code, resets) => Mailed(code, resets')
    BY <1>2 DEF Keeps, Mailed
  <1> QED BY <1>1, <1>3 DEF Grows

LEMMA ForgotIssueRows ==
    ASSUME IInv, NEW c \in Calls, NEW k \in Codes, ForgotIssue(c, k)
    PROVE  /\ Resets' /\ Keeps(resets, resets')
           /\ Mailed(k, resets')
  <1> DEFINE row == [code |-> k, attempts |-> 0, created |-> now,
                     expires |-> call[c].at + CodeTtl, used |-> FALSE]
             closed == Closed(resets)
  <1>1. resets' = Append(closed, row) /\ password' = password /\ password # NULL
    BY DEF ForgotIssue, IInv, Requests, RowSound, At
  <1>2. row \in ResetRows
    <2>1. now \in Times /\ call[c].at + CodeTtl \in Times /\ 0 \in 0..MaxAttempts
      BY CallTypes, AccountConstants DEF Times
    <2> QED BY <2>1 DEF ResetRows
  <1>3. closed \in Seq(ResetRows) /\ Len(closed) = Len(resets) /\ Len(resets) \in Nat
        /\ \A i \in 1..Len(resets) : closed[i].used /\ closed[i].code = resets[i].code
    BY ClosedRows DEF IInv, Resets
  <1> HIDE DEF closed, row
  <1>4. /\ resets' \in Seq(ResetRows) /\ Len(resets') = Len(resets) + 1
        /\ resets'[Len(resets) + 1] = row
        /\ \A i \in 1..Len(resets) : resets'[i] = closed[i]
    BY <1>1, <1>2, <1>3, AppendProperties
  <1>5. Keeps(resets, resets')
    BY <1>3, <1>4 DEF Keeps
  <1>6. OneOpen(resets')
    <2>1. \A i \in 1..Len(resets') : ~resets'[i].used => i = Len(resets) + 1
      BY <1>3, <1>4
    <2> QED BY <2>1 DEF OneOpen
  <1>7. Mailed(k, resets')
    BY <1>3, <1>4 DEF Mailed, row
  <1>8. password' \in Codes \cup {NULL} /\ password' # NULL
    BY <1>1 DEF IInv, Resets
  <1> QED BY <1>4, <1>5, <1>6, <1>7, <1>8 DEF Resets

\* One row is replaced by another with its code that is no more open than it was.
LEMMA RowReplaced ==
    ASSUME IInv, UNCHANGED password, NEW i \in 1..Len(resets), NEW row \in ResetRows,
           resets' = [resets EXCEPT ![i] = row],
           row.code = resets[i].code, resets[i].used => row.used
    PROVE  Resets' /\ Keeps(resets, resets')
  <1>1. resets \in Seq(ResetRows) /\ Len(resets) \in Nat
    BY DEF IInv, Resets
  <1>2. /\ resets' \in Seq(ResetRows) /\ Len(resets') = Len(resets)
        /\ \A j \in 1..Len(resets) : resets'[j] = IF j = i THEN row ELSE resets[j]
    BY <1>1, ExceptSeq
  <1>3. Keeps(resets, resets')
    BY <1>1, <1>2 DEF Keeps
  <1>4. OneOpen(resets')
    <2>1. \A j \in 1..Len(resets) : ~resets'[j].used => ~resets[j].used
      BY <1>2
    <2> QED BY <1>2, <2>1 DEF OneOpen, IInv, Resets
  <1>5. password' # NULL
    <2>1. SUFFICES ASSUME password = NULL PROVE FALSE
      OBVIOUS
    <2>2. resets = <<>>
      BY <2>1 DEF IInv, Resets
    <2> QED BY <2>2
  <1> QED BY <1>2, <1>3, <1>4, <1>5 DEF Resets, IInv

LEMMA RowsUnchanged ==
    ASSUME IInv, UNCHANGED <<password, resets>>
    PROVE  Resets' /\ Keeps(resets, resets')
  BY DEF IInv, Resets, OneOpen, Keeps

LEMMA ResetMailFailedRows ==
    ASSUME IInv, NEW c \in Calls, ResetMailFailed(c)
    PROVE  Resets' /\ Keeps(resets, resets')
  <1> DEFINE i == IndexOf(call[c].code)
             row == [resets[i] EXCEPT !.used = TRUE]
  <1>1. i \in 1..Len(resets) /\ resets[i] \in ResetRows
    BY Indexed DEF ResetMailFailed, At
  <1>2. row \in ResetRows /\ row.used /\ row.code = resets[i].code
    BY <1>1 DEF ResetRows
  <1>3. resets' = [resets EXCEPT ![i] = row] /\ password' = password
    BY DEF ResetMailFailed
  <1> HIDE DEF i, row
  <1> QED BY <1>1, <1>2, <1>3, RowReplaced

LEMMA ResetMissRows ==
    ASSUME IInv, NEW c \in Calls, ResetMiss(c)
    PROVE  Resets' /\ Keeps(resets, resets')
  <1> DEFINE i == IndexOf(call[c].code)
             count == call[c].count + 1
             row == [[resets[i] EXCEPT !.attempts = count] EXCEPT !.used = count >= MaxAttempts]
  <1>1. i \in 1..Len(resets) /\ resets[i] \in ResetRows
    BY Indexed DEF ResetMiss, At
  <1>2. password' = password
    BY DEF ResetMiss
  <1>3. CASE resets' = resets
    BY <1>2, <1>3, RowsUnchanged
  <1>4. CASE /\ ~resets[i].used
             /\ resets' = [resets EXCEPT ![i].attempts = count, ![i].used = count >= MaxAttempts]
    <2>1. count \in 0..MaxAttempts
      <3>1. call[c].count \in Nat /\ call[c].count < MaxAttempts
        BY CallTypes DEF RowSound, ResetMiss, At
      <3> QED BY <3>1, AccountConstants
    <2>2. row \in ResetRows /\ row.code = resets[i].code
      <3>1. \A r \in ResetRows, n \in 0..MaxAttempts, b \in BOOLEAN :
              /\ [[r EXCEPT !.attempts = n] EXCEPT !.used = b] \in ResetRows
              /\ [[r EXCEPT !.attempts = n] EXCEPT !.used = b].code = r.code
        BY DEF ResetRows
      <3>2. (count >= MaxAttempts) \in BOOLEAN
        OBVIOUS
      <3> QED BY <1>1, <2>1, <3>1, <3>2
    <2>3. resets' = [resets EXCEPT ![i] = row]
      <3>1. resets' = [[resets EXCEPT ![i].attempts = count] EXCEPT ![i].used = count >= MaxAttempts]
        BY <1>4
      <3>2. [resets EXCEPT ![i].attempts = count][i] = [resets[i] EXCEPT !.attempts = count]
        BY <1>1 DEF IInv, Resets
      <3> QED BY <1>1, <3>1, <3>2 DEF IInv, Resets
    <2> HIDE DEF i, row
    <2> QED BY <1>1, <1>2, <1>4, <2>2, <2>3, RowReplaced
  <1> QED BY <1>3, <1>4 DEF ResetMiss

LEMMA ResetCommitRows ==
    ASSUME IInv, NEW c \in Calls, ResetCommit(c)
    PROVE  Resets' /\ Keeps(resets, resets') /\ password # NULL /\ password' # NULL
  <1>1. password' = call[c].code /\ resets' = Closed(resets)
        /\ call[c].code \in Codes /\ password # NULL
    BY Indexed DEF ResetCommit, At
  <1>2. password' # NULL
    BY <1>1, AccountConstants
  <1>3. /\ resets' \in Seq(ResetRows) /\ Len(resets') = Len(resets) /\ Len(resets) \in Nat
        /\ \A i \in 1..Len(resets) : resets'[i].used /\ resets'[i].code = resets[i].code
    BY <1>1, ClosedRows DEF IInv, Resets
  <1>4. Keeps(resets, resets') /\ OneOpen(resets')
    BY <1>3 DEF Keeps, OneOpen
  <1> QED BY <1>1, <1>2, <1>3, <1>4 DEF Resets

-----------------------------------------------------------------------------
(* Sessions.                                                               *)

\* A session is opened with a token of its own: verifyRegistration and login.
LEMMA SessionOpened ==
    ASSUME IInv, NEW t \in Tokens, token[t].state = "unused", NEW p \in Codes \cup {NULL},
           token' = [token EXCEPT ![t] = NewToken(t, NULL, p)], password' # NULL
    PROVE  Sessions'
  <1> DEFINE row == NewToken(t, NULL, p)
  <1>1. row \in TokenRows /\ row.state = "live" /\ row.parent = NULL
    BY DEF NewToken, TokenRows
  <1> HIDE DEF row
  <1>2. /\ token' \in [Tokens -> TokenRows]
        /\ \A u \in Tokens : token'[u] = IF u = t THEN row ELSE token[u]
    BY <1>1 DEF IInv, Sessions, row
  <1>3. \A u \in Tokens : token'[u].parent # NULL =>
            /\ token'[u].parent = token[u].parent /\ token[u].parent # NULL
            /\ token[u].parent \in Tokens /\ token[u].parent # t
            /\ token'[token'[u].parent].state = "deleted"
    <2> SUFFICES ASSUME NEW u \in Tokens, token'[u].parent # NULL
                 PROVE  /\ token'[u].parent = token[u].parent /\ token[u].parent # NULL
                        /\ token[u].parent \in Tokens /\ token[u].parent # t
                        /\ token'[token'[u].parent].state = "deleted"
      OBVIOUS
    <2>1. u # t /\ token'[u] = token[u]
      BY <1>1, <1>2
    <2>2. token[u].parent \in Tokens
      BY <2>1 DEF IInv, Sessions, TokenRows
    <2>3. token[token[u].parent].state = "deleted"
      BY <2>1 DEF IInv, Sessions
    <2> QED BY <1>2, <2>1, <2>2, <2>3
  <1>4. RotatedOnce'
    BY <1>3 DEF RotatedOnce, IInv, Sessions
  <1> QED BY <1>2, <1>3, <1>4 DEF Sessions

\* Sessions are deleted: logout and resetPassword.
LEMMA SessionsDeleted ==
    ASSUME IInv, NEW S, token' = [t \in Tokens |-> IF t \in S THEN [token[t] EXCEPT !.state = "deleted"]
                                                   ELSE token[t]],
           password # NULL, password' # NULL
    PROVE  Sessions'
  <1>1. \A t \in Tokens : token[t] \in TokenRows
    BY DEF IInv, Sessions
  <1>2. \A t \in Tokens : /\ token'[t] \in TokenRows /\ token'[t].parent = token[t].parent
                          /\ token[t].state = "deleted" => token'[t].state = "deleted"
    BY <1>1 DEF TokenRows
  <1>3. token' \in [Tokens -> TokenRows]
    BY <1>2
  <1>4. \A t \in Tokens : token'[t].parent # NULL => token'[token'[t].parent].state = "deleted"
    <2>1. \A t \in Tokens : token[t].parent # NULL =>
              token[t].parent \in Tokens /\ token[token[t].parent].state = "deleted"
      BY <1>1 DEF IInv, Sessions, TokenRows
    <2> QED BY <1>2, <2>1
  <1>5. RotatedOnce'
    BY <1>2 DEF RotatedOnce, IInv, Sessions
  <1> QED BY <1>3, <1>4, <1>5 DEF Sessions

\* A user has logged in before anything is refreshed or logged out.
LEMMA LiveHasUser ==
    ASSUME IInv, NEW t \in Live
    PROVE  t \in Tokens /\ password # NULL
  BY DEF IInv, Sessions, Live

LEMMA LogoutSessions ==
    ASSUME IInv, NEW t \in Tokens, Logout(t)
    PROVE  Sessions'
  <1>1. token \in [Tokens -> TokenRows]
    BY DEF IInv, Sessions
  <1>2. token' = [u \in Tokens |-> IF u \in {t} THEN [token[u] EXCEPT !.state = "deleted"]
                                   ELSE token[u]]
    BY <1>1 DEF Logout
  <1> QED BY <1>2, LiveHasUser, SessionsDeleted DEF Logout

LEMMA RefreshRotateSessions ==
    ASSUME IInv, NEW c \in Calls, NEW t \in Tokens, RefreshRotate(c, t)
    PROVE  Sessions'
  <1> DEFINE old == call[c].token
             row == NewToken(t, old, token[old].password)
             gone == [token[old] EXCEPT !.state = "deleted"]
  <1>1. old \in Tokens /\ token[old].state = "live" /\ token[t].state = "unused" /\ t # old
        /\ password # NULL /\ password' # NULL
    BY LiveHasUser DEF RefreshRotate, Rotates, Live
  <1>2. token[old] \in TokenRows
    BY <1>1 DEF IInv, Sessions
  <1>3. row \in TokenRows /\ row.parent = old /\ gone \in TokenRows
        /\ gone.parent = token[old].parent /\ gone.state = "deleted"
    BY <1>1, <1>2 DEF NewToken, TokenRows
  <1>4. token' = [[token EXCEPT ![old] = gone] EXCEPT ![t] = row]
    BY DEF RefreshRotate
  <1> HIDE DEF old, row, gone
  <1>5. /\ token' \in [Tokens -> TokenRows]
        /\ \A u \in Tokens : token'[u] = IF u = t THEN row ELSE IF u = old THEN gone ELSE token[u]
    BY <1>1, <1>3, <1>4 DEF IInv, Sessions
  <1>6. \A u \in Tokens : token[u].parent # NULL =>
            token[u].parent \in Tokens /\ token[u].parent # old /\ token[u].parent # t
            /\ token[token[u].parent].state = "deleted"
    <2>1. \A u \in Tokens : token[u] \in TokenRows
      BY DEF IInv, Sessions
    <2> QED BY <1>1, <2>1 DEF IInv, Sessions, TokenRows
  <1>7. \A u \in Tokens : token'[u].parent = IF u = t THEN old ELSE token[u].parent
    BY <1>1, <1>3, <1>5
  <1>8. \A u \in Tokens : token'[u].parent # NULL => token'[token'[u].parent].state = "deleted"
    BY <1>1, <1>3, <1>5, <1>6, <1>7
  <1>9. RotatedOnce'
    BY <1>1, <1>6, <1>7, AccountConstants DEF RotatedOnce, IInv, Sessions
  <1> QED BY <1>1, <1>5, <1>8, <1>9 DEF Sessions

LEMMA SessionsUnchanged ==
    ASSUME IInv, UNCHANGED token, password' # password => password # NULL /\ password' # NULL
    PROVE  Sessions'
  BY DEF IInv, Sessions, RotatedOnce

-----------------------------------------------------------------------------
(* The pending row, and with it what a step may do to it.                  *)

LEMMA PendingTypes ==
    ASSUME IInv, pending # NULL
    PROVE  /\ pending \in PendingRows
           /\ pending.id \in Codes /\ pending.code \in Codes
           /\ pending.id \in drawn /\ pending.code \in drawn
           /\ pending.attempts \in 0..MaxAttempts /\ pending.sent \in Nat
           /\ pending.expires \in Nat /\ pending.until \in Nat
  BY DEF IInv, Pending, PendingRows, Times

\* The bodies of ExhaustedForGood (its first half), CooldownKept and NewerCodeSurvives.
SameCode == pending # NULL /\ pending' # NULL /\ pending'.code = pending.code
AttemptsKept == SameCode => pending'.attempts >= pending.attempts
MailsApart ==
    pending # NULL /\ pending' # NULL /\ pending'.id = pending.id /\ pending'.code # pending.code =>
        ~CoolingDown(pending.sent, pending'.sent)
VoidedByMail ==
    SameCode /\ pending'.attempts > pending.attempts + 1 =>
        \E c \in Calls : call[c].step = "mail" /\ call[c].code = pending.code
PendingMoves == Pending' /\ AttemptsKept /\ MailsApart /\ VoidedByMail

\* A fresh row is nobody's, and a row may go.
LEMMA PendingNew ==
    ASSUME IInv, now' = now, NEW k \in Codes, Draw(k), NEW at \in 0..MaxTime,
           pending' = [id |-> k, code |-> k, attempts |-> 0, sent |-> at,
                       expires |-> at + CodeTtl, until |-> at + PendingTtl]
    PROVE  PendingMoves
  <1>1. at \in Times /\ at + CodeTtl \in Times /\ at + PendingTtl \in Times /\ 0 \in 0..MaxAttempts
    BY AccountConstants DEF Times
  <1>2. pending' \in PendingRows /\ pending'.id = k /\ pending'.code = k
    BY <1>1 DEF PendingRows
  <1>3. k \notin drawn /\ k \in drawn' /\ drawn' \subseteq Codes
    BY DEF Draw, IInv, Pending
  <1>4. pending # NULL => pending.id # k /\ pending.code # k
    BY <1>3, PendingTypes
  <1>5. Pending'
    BY <1>2, <1>3 DEF Pending, IInv
  <1> QED BY <1>2, <1>4, <1>5
       DEF PendingMoves, AttemptsKept, MailsApart, VoidedByMail, SameCode

LEMMA PendingGone ==
    ASSUME IInv, now' = now, drawn' = drawn, pending' = NULL
    PROVE  PendingMoves
  BY DEF IInv, Pending, PendingMoves, AttemptsKept, MailsApart, VoidedByMail, SameCode

LEMMA PendingUnchanged ==
    ASSUME IInv, pending' = pending, now' \in 0..MaxTime,
           drawn \subseteq drawn', drawn' \subseteq Codes
    PROVE  PendingMoves
  <1>1. Pending'
    BY DEF IInv, Pending
  <1>2. pending # NULL => pending.attempts \in Nat
    BY PendingTypes
  <1>3. AttemptsKept /\ MailsApart /\ VoidedByMail
    BY <1>2 DEF AttemptsKept, MailsApart, VoidedByMail, SameCode
  <1> QED BY <1>1, <1>3 DEF PendingMoves

\* Attempts are counted, one after the other, or all at once for a mail that failed.
LEMMA PendingMarked ==
    ASSUME IInv, UNCHANGED <<now, drawn>>, pending # NULL,
           NEW attempts \in 0..MaxAttempts, NEW expires \in Times,
           pending' = [[pending EXCEPT !.attempts = attempts] EXCEPT !.expires = expires],
           attempts >= pending.attempts,
           \/ attempts = pending.attempts + 1
           \/ \E c \in Calls : call[c].step = "mail" /\ call[c].code = pending.code
    PROVE  PendingMoves
  <1>1. pending \in PendingRows
    BY PendingTypes
  <1>2. pending' \in PendingRows /\ pending'.id = pending.id /\ pending'.code = pending.code
        /\ pending'.attempts = attempts
    BY <1>1 DEF PendingRows
  <1>3. Pending'
    BY <1>2 DEF IInv, Pending
  <1> QED BY <1>2, <1>3, PendingTypes
       DEF PendingMoves, AttemptsKept, MailsApart, VoidedByMail, SameCode

LEMMA MailFailedPending ==
    ASSUME IInv, NEW c \in Calls, MailFailed(c)
    PROVE  PendingMoves
  <1>1. now' = now /\ drawn' = drawn /\ now' \in 0..MaxTime
        /\ drawn \subseteq drawn' /\ drawn' \subseteq Codes
    BY DEF MailFailed, IInv, Pending
  <1>2. CASE pending' = pending
    BY <1>1, <1>2, PendingUnchanged
  <1>3. CASE /\ pending # NULL /\ VoidsCode(pending, c)
             /\ pending' = [pending EXCEPT !.expires = now, !.attempts = MaxAttempts]
    <2>1. now \in Times /\ MaxAttempts \in 0..MaxAttempts
      BY CallTypes, AccountConstants DEF Times
    <2>2. pending \in PendingRows /\ pending.attempts \in 0..MaxAttempts
      BY <1>3, PendingTypes
    <2>3. pending' = [[pending EXCEPT !.attempts = MaxAttempts] EXCEPT !.expires = now]
      BY <1>3, <2>2 DEF PendingRows
    <2>4. call[c].step = "mail" /\ call[c].code = pending.code
      BY <1>3 DEF VoidsCode, MailFailed, At
    <2>5. MaxAttempts >= pending.attempts
      BY <2>2, AccountConstants
    <2> QED BY <1>1, <1>3, <2>1, <2>3, <2>4, <2>5, PendingMarked
  <1> QED BY <1>2, <1>3 DEF MailFailed

LEMMA VerifyMissPending ==
    ASSUME IInv, NEW c \in Calls, VerifyMiss(c)
    PROVE  PendingMoves
  <1> DEFINE count == call[c].count + 1
             at == call[c].at
             expires == IF count >= MaxAttempts THEN at ELSE pending.expires
  <1>1. now' = now /\ drawn' = drawn /\ now' \in 0..MaxTime
        /\ drawn \subseteq drawn' /\ drawn' \subseteq Codes
    BY DEF VerifyMiss, IInv, Pending
  <1>2. CASE pending' = pending
    BY <1>1, <1>2, PendingUnchanged
  <1>3. CASE /\ SameRow(c) /\ Misses(pending, c)
             /\ pending' = [pending EXCEPT !.attempts = count,
                                           !.expires = IF count >= MaxAttempts THEN at ELSE @]
    <2>1. pending # NULL /\ pending \in PendingRows /\ pending.attempts = call[c].count
          /\ pending.expires \in Times
      BY <1>3, PendingTypes DEF SameRow, Misses, PendingRows
    <2>2. count \in 0..MaxAttempts /\ count >= pending.attempts /\ count = pending.attempts + 1
      <3>1. call[c].count \in Nat /\ call[c].count < MaxAttempts
        BY CallTypes DEF RowSound, VerifyMiss, At
      <3> QED BY <2>1, <3>1, AccountConstants
    <2>3. expires \in Times
      BY <2>1, CallTypes, AccountConstants DEF Times
    <2>4. pending' = [[pending EXCEPT !.attempts = count] EXCEPT !.expires = expires]
      BY <1>3, <2>1 DEF PendingRows
    <2> HIDE DEF count, expires
    <2> QED BY <1>1, <2>1, <2>2, <2>3, <2>4, PendingMarked
  <1> QED BY <1>2, <1>3 DEF VerifyMiss

LEMMA ResendReplacePending ==
    ASSUME IInv, NEW c \in Calls, NEW k \in Codes, ResendReplace(c, k)
    PROVE  PendingMoves
  <1> DEFINE at == call[c].at
  <1>1. pending # NULL /\ pending \in PendingRows /\ pending.sent = call[c].count /\ now' = now
        /\ pending.id \in drawn
    BY PendingTypes DEF ResendReplace, SameMail, SameRow
  <1>2. at \in Times /\ at + CodeTtl \in Times /\ 0 \in 0..MaxAttempts /\ at \in Nat
    BY CallTypes, AccountConstants DEF Times
  <1>3. /\ pending' \in PendingRows /\ pending'.id = pending.id /\ pending'.code = k
        /\ pending'.sent = at
    BY <1>1, <1>2 DEF PendingRows, ResendReplace
  <1>4. k \notin drawn /\ k \in drawn' /\ drawn \subseteq drawn' /\ drawn' \subseteq Codes
    BY DEF ResendReplace, Draw, IInv, Pending
  <1>5. Pending'
    BY <1>1, <1>3, <1>4 DEF Pending, IInv
  <1>6. pending.code # k
    BY <1>1, <1>4, PendingTypes
  <1>7. call[c].count + Cooldown <= at /\ call[c].count \in Nat
    BY CallTypes DEF RowSound, ResendReplace, At
  <1>8. ~CoolingDown(pending.sent, pending'.sent)
    BY <1>1, <1>2, <1>3, <1>7, AccountConstants DEF CoolingDown
  <1> QED BY <1>3, <1>5, <1>6, <1>8
       DEF PendingMoves, AttemptsKept, MailsApart, VoidedByMail, SameCode

-----------------------------------------------------------------------------
(* Each action: the invariant again, and what the step may do.             *)

\* The bodies of AccountByCurrentCode and PasswordByOpenCode.
UserByCode ==
    password = NULL /\ password' # NULL =>
        \E c \in Calls : /\ call[c].step = "claim" /\ call'[c].step = "idle"
                         /\ pending.id = password' /\ pending.code = call[c].code
                         /\ pending.attempts < MaxAttempts
ResetByCode ==
    password # NULL /\ password' # password =>
        /\ \E i \in 1..Len(resets) : resets[i].code = password' /\ ~resets[i].used
        /\ \A i \in 1..Len(resets') : resets'[i].used

Moves ==
    /\ PendingMoves /\ Resets' /\ Sessions' /\ Requests'
    /\ Keeps(resets, resets') /\ UserByCode /\ ResetByCode

LEMMA Codeless ==
    ASSUME password' = password
    PROVE  UserByCode /\ ResetByCode
  BY DEF UserByCode, ResetByCode

\* A request goes on, and the tables stay.
LEMMA Reading ==
    ASSUME IInv, UNCHANGED <<now, drawn, pending, password, resets, token>>,
           NEW c \in Calls, NEW row, Go(c, row), RowSound(row, now, password, resets)
    PROVE  Moves
  <1>1. Grows /\ RowSound(row, now', password', resets')
    BY GrowsStill
  <1>2. Requests'
    BY <1>1, RequestsGo
  <1>3. now' \in 0..MaxTime /\ drawn \subseteq drawn' /\ drawn' \subseteq Codes
    BY DEF IInv, Pending
  <1>4. PendingMoves
    BY <1>3, PendingUnchanged
  <1> QED BY <1>2, <1>4, RowsUnchanged, SessionsUnchanged, Codeless DEF Moves

LEMMA Ending ==
    ASSUME IInv, UNCHANGED <<now, drawn, pending, password, resets, token>>,
           NEW c \in Calls, EndCall(c)
    PROVE  Moves
  <1>1. RowSound(IdleCall, now, password, resets)
    BY IdleSound, CallTypes
  <1> QED BY <1>1, Reading DEF EndCall

\* Requests that only turn away, or end.
LEMMA Ends ==
    ASSUME IInv, NEW c \in Calls,
           \/ RegisterConflict(c) \/ MailSent(c) \/ ResendTooLate(c) \/ VerifyRefused(c)
           \/ RefreshUsed(c) \/ ForgotConflict(c) \/ ResetRefused(c) \/ Abort(c)
    PROVE  Moves
  BY Ending DEF RegisterConflict, MailSent, ResendTooLate, VerifyRefused, RefreshUsed,
                ForgotConflict, ResetRefused, Abort

LEMMA Begins ==
    ASSUME IInv, NEW c \in Calls, RegisterBegin(c) \/ ResendBegin(c) \/ ForgotBegin(c)
    PROVE  Moves
  <1>1. ASSUME NEW step \in {"register", "resend", "forgot"}, step = "forgot" => password # NULL
        PROVE  RowSound([IdleCall EXCEPT !.step = step, !.at = now], now, password, resets)
    <2> DEFINE row == [IdleCall EXCEPT !.step = step, !.at = now]
    <2>1. now \in Times /\ now \in Nat
      BY CallTypes, AccountConstants DEF Times
    <2>2. row \in CallRows /\ row.step = step /\ row.at = now
      BY <2>1 DEF IdleCall, CallRows, Steps
    <2> HIDE DEF row
    <2>3. RowSound(row, now, password, resets)
      BY <1>1, <2>1, <2>2 DEF RowSound
    <2> QED BY <2>3 DEF row
  <1> QED BY <1>1, Reading DEF RegisterBegin, ResendBegin, ForgotBegin, Begin

LEMMA RegisterReadMoves ==
    ASSUME IInv, NEW c \in Calls, RegisterRead(c)
    PROVE  Moves
  <1> DEFINE id == IF pending = NULL THEN NULL ELSE pending.id
             row == [call[c] EXCEPT !.step = "create", !.id = id]
  <1>1. id \in Codes \cup {NULL}
    BY PendingTypes
  <1>2. row \in CallRows /\ row.step = "create" /\ row.at = call[c].at
    BY <1>1, CallTypes DEF CallRows, Steps
  <1>3. RowSound(row, now, password, resets)
    <2> HIDE DEF row
    <2> QED BY <1>2, CallTypes DEF RowSound
  <1> QED BY <1>3, Ending, Reading DEF RegisterRead

LEMMA LoginBegins ==
    ASSUME IInv, NEW c \in Calls, LoginBegin(c)
    PROVE  Moves
  <1> DEFINE row == [IdleCall EXCEPT !.step = "login", !.id = password]
  <1>1. password \in Codes /\ password # NULL /\ 0 \in Times /\ now \in Nat
    BY CallTypes, AccountConstants DEF LoginBegin, IInv, Resets, Times
  <1>2. row \in CallRows /\ row.step = "login" /\ row.at = 0 /\ row.id = password
    BY <1>1 DEF IdleCall, CallRows, Steps
  <1>3. Go(c, row) /\ UNCHANGED <<now, drawn, pending, password, resets, token>>
    BY DEF LoginBegin
  <1> HIDE DEF row
  <1>4. RowSound(row, now, password, resets)
    BY <1>1, <1>2 DEF RowSound
  <1> QED BY <1>3, <1>4, Reading

LEMMA RefreshBegins ==
    ASSUME IInv, NEW c \in Calls, NEW t \in Tokens, RefreshBegin(c, t)
    PROVE  Moves
  <1> DEFINE row == [IdleCall EXCEPT !.step = "refresh", !.token = t]
  <1>1. 0 \in Times /\ now \in Nat
    BY CallTypes, AccountConstants DEF Times
  <1>2. row \in CallRows /\ row.step = "refresh" /\ row.at = 0 /\ row.token = t
    BY <1>1 DEF IdleCall, CallRows, Steps
  <1>3. Go(c, row) /\ UNCHANGED <<now, drawn, pending, password, resets, token>>
    BY DEF RefreshBegin
  <1> HIDE DEF row
  <1>4. RowSound(row, now, password, resets)
    BY <1>1, <1>2 DEF RowSound
  <1> QED BY <1>3, <1>4, Reading

LEMMA ForgotReadMoves ==
    ASSUME IInv, NEW c \in Calls, ForgotRead(c)
    PROVE  Moves
  <1> DEFINE row == [call[c] EXCEPT !.step = "issue", !.count = Newest]
  <1>1. Newest \in Nat
    BY DEF Newest, IInv, Resets
  <1>2. row \in CallRows /\ row.step = "issue" /\ row.at = call[c].at
    BY <1>1, CallTypes DEF CallRows, Steps
  <1>3. RowSound(row, now, password, resets)
    <2> HIDE DEF row
    <2> QED BY <1>2, CallTypes DEF RowSound, ForgotRead, At
  <1> QED BY <1>3, Ending, Reading DEF ForgotRead

LEMMA ResetReads ==
    ASSUME IInv, NEW c \in Calls, ResetRead(c)
    PROVE  Moves
  <1> DEFINE newest == resets[Newest]
  <1>1. PICK step \in {"resetMiss", "reset"} :
            Go(c, [IdleCall EXCEPT !.step = step, !.at = now, !.code = newest.code,
                                   !.count = newest.attempts])
    BY DEF ResetRead
  <1> DEFINE row == [IdleCall EXCEPT !.step = step, !.at = now, !.code = newest.code,
                                     !.count = newest.attempts]
  <1>2. Newest \in 1..Len(resets) /\ newest \in ResetRows /\ newest.attempts < MaxAttempts
    <2>1. resets \in Seq(ResetRows) /\ resets # <<>>
      BY DEF ResetRead, IInv, Resets
    <2>2. Len(resets) \in 1..Len(resets)
      BY <2>1, LenProperties, EmptySeq
    <2> QED BY <2>1, <2>2 DEF Newest, ResetRead
  <1>3. newest.code \in Codes /\ newest.attempts \in Nat /\ now \in Times /\ now \in Nat
    BY <1>2, CallTypes, AccountConstants DEF ResetRows, Times
  <1>4. /\ row \in CallRows /\ row.step \in {"resetMiss", "reset"} /\ row.at = now
        /\ row.code = newest.code /\ row.count = newest.attempts
    BY <1>3 DEF IdleCall, CallRows, Steps
  <1>5. Mailed(row.code, resets)
    BY <1>2, <1>4 DEF Mailed
  <1>6. Go(c, row) /\ UNCHANGED <<now, drawn, pending, password, resets, token>>
    BY <1>1 DEF ResetRead
  <1> HIDE DEF row, newest
  <1>7. RowSound(row, now, password, resets)
    BY <1>2, <1>3, <1>4, <1>5 DEF RowSound
  <1> QED BY <1>6, <1>7, Reading

LEMMA ResetSessionsMoves ==
    ASSUME IInv, NEW c \in Calls, ResetSessions(c)
    PROVE  Moves
  <1> DEFINE row == [call[c] EXCEPT !.step = "revoke", !.sessions = Live]
  <1>1. Live \in SUBSET Tokens
    BY DEF Live
  <1>2. row \in CallRows /\ row.step = "revoke" /\ row.at = call[c].at /\ row.code = call[c].code
    BY <1>1, CallTypes DEF CallRows, Steps
  <1>3. Go(c, row) /\ UNCHANGED <<now, drawn, pending, password, resets, token>>
    BY DEF ResetSessions
  <1> HIDE DEF row
  <1>4. RowSound(row, now, password, resets)
    BY <1>2, CallTypes DEF RowSound, ResetSessions, At
  <1> QED BY <1>3, <1>4, Reading

\* Steps on the pending row that leave users, resets and sessions alone.
LEMMA PendingOnly ==
    ASSUME IInv, UNCHANGED <<now, password, resets, token>>, PendingMoves, Requests'
    PROVE  Moves
  BY RowsUnchanged, SessionsUnchanged, Codeless DEF Moves

LEMMA RegisterCreateMoves ==
    ASSUME IInv, NEW c \in Calls, NEW k \in Codes, RegisterCreate(c, k)
    PROVE  Moves
  <1> DEFINE row == [call[c] EXCEPT !.step = "mail", !.code = k, !.id = k]
  <1>1. UNCHANGED <<now, password, resets, token>> /\ Draw(k) /\ Go(c, row)
    BY DEF RegisterCreate
  <1>2. PendingMoves
    BY <1>1, CallTypes, PendingNew DEF RegisterCreate
  <1>3. row \in CallRows /\ row.step = "mail" /\ row.at = call[c].at
    BY CallTypes DEF CallRows, Steps
  <1> HIDE DEF row
  <1>4. RowSound(row, now', password', resets')
    BY <1>1, <1>3, CallTypes DEF RowSound
  <1>5. Requests'
    BY <1>1, <1>4, GrowsStill, RequestsGo
  <1> QED BY <1>1, <1>2, <1>5, PendingOnly

LEMMA ResendReplaceMoves ==
    ASSUME IInv, NEW c \in Calls, NEW k \in Codes, ResendReplace(c, k)
    PROVE  Moves
  <1> DEFINE row == [call[c] EXCEPT !.step = "mail", !.code = k, !.count = 0]
  <1>1. UNCHANGED <<now, password, resets, token>> /\ Go(c, row)
    BY DEF ResendReplace
  <1>2. row \in CallRows /\ row.step = "mail" /\ row.at = call[c].at
    BY CallTypes DEF CallRows, Steps
  <1> HIDE DEF row
  <1>3. RowSound(row, now', password', resets')
    BY <1>1, <1>2, CallTypes DEF RowSound
  <1>4. Requests'
    BY <1>1, <1>3, GrowsStill, RequestsGo
  <1> QED BY <1>1, <1>4, ResendReplacePending, PendingOnly

LEMMA ResendReadMoves ==
    ASSUME IInv, NEW c \in Calls, ResendRead(c)
    PROVE  Moves
  <1> DEFINE at == call[c].at
             row == [call[c] EXCEPT !.step = "replace", !.id = pending.id, !.count = pending.sent]
  <1>1. UNCHANGED <<now, drawn, password, resets, token>> /\ (pending' = pending \/ pending' = NULL)
    BY DEF ResendRead
  <1>2. PendingMoves
    <2>1. now' \in 0..MaxTime /\ drawn \subseteq drawn' /\ drawn' \subseteq Codes
      BY <1>1 DEF IInv, Pending
    <2> QED BY <1>1, <2>1, PendingGone, PendingUnchanged
  <1>3. CASE EndCall(c)
    BY <1>1, <1>2, <1>3, GrowsStill, RequestsEnd, PendingOnly
  <1>4. CASE pending # NULL /\ ~CoolingDown(pending.sent, at) /\ Go(c, row)
    <2>1. pending.sent \in Nat /\ pending.id \in Codes
      BY <1>4, PendingTypes
    <2>2. row \in CallRows /\ row.step = "replace" /\ row.at = at /\ row.count = pending.sent
      BY <2>1, CallTypes DEF CallRows, Steps
    <2>3. Go(c, row) /\ pending.sent + Cooldown <= at
      BY <1>4, <2>1, CallTypes, AccountConstants DEF CoolingDown
    <2> HIDE DEF row
    <2>4. RowSound(row, now', password', resets')
      BY <1>1, <2>2, <2>3, CallTypes DEF RowSound
    <2> QED BY <1>1, <1>2, <2>3, <2>4, GrowsStill, RequestsGo, PendingOnly
  <1> QED BY <1>3, <1>4 DEF ResendRead

LEMMA VerifyReadMoves ==
    ASSUME IInv, NEW c \in Calls, VerifyRead(c)
    PROVE  Moves
  <1>1. UNCHANGED <<now, drawn, password, resets, token>> /\ pending # NULL
    BY DEF VerifyRead
  <1>2. CASE pending' = NULL /\ UNCHANGED call
    BY <1>1, <1>2, GrowsStill, RequestsStay, PendingGone, PendingOnly
  <1>3. ASSUME NEW step \in {"miss", "claim"}, pending' = pending, pending.attempts < MaxAttempts,
               Go(c, [IdleCall EXCEPT !.step = step, !.at = now, !.id = pending.id,
                                      !.code = pending.code, !.count = pending.attempts])
        PROVE  Moves
    <2> DEFINE row == [IdleCall EXCEPT !.step = step, !.at = now, !.id = pending.id,
                                       !.code = pending.code, !.count = pending.attempts]
    <2>1. pending.id \in Codes /\ pending.code \in Codes /\ pending.attempts \in Nat
          /\ now \in Times /\ now \in Nat
      BY <1>1, PendingTypes, CallTypes, AccountConstants DEF Times
    <2>2. /\ row \in CallRows /\ row.step \in {"miss", "claim"} /\ row.at = now
          /\ row.count = pending.attempts
      BY <2>1 DEF IdleCall, CallRows, Steps
    <2>3. Go(c, row) /\ UNCHANGED <<now, drawn, pending, password, resets, token>>
      BY <1>1, <1>3
    <2> HIDE DEF row
    <2>4. RowSound(row, now, password, resets)
      BY <1>3, <2>1, <2>2 DEF RowSound
    <2> QED BY <2>3, <2>4, Reading
  <1> QED BY <1>2, <1>3 DEF VerifyRead

LEMMA PendingMarks ==
    ASSUME IInv, NEW c \in Calls, MailFailed(c) \/ VerifyMiss(c)
    PROVE  Moves
  <1>1. UNCHANGED <<now, password, resets, token>> /\ EndCall(c)
    BY DEF MailFailed, VerifyMiss
  <1>2. PendingMoves
    BY MailFailedPending, VerifyMissPending
  <1> QED BY <1>1, <1>2, GrowsStill, RequestsEnd, PendingOnly

LEMMA VerifyClaims ==
    ASSUME IInv, NEW c \in Calls, NEW t \in Tokens, VerifyClaim(c, t)
    PROVE  Moves
  <1>1. /\ pending # NULL /\ pending' = NULL /\ UNCHANGED <<now, drawn, resets>>
        /\ password = NULL /\ password' = pending.id /\ pending.id \in Codes /\ password' # NULL
        /\ call[c].step = "claim" /\ EndCall(c)
        /\ pending.code = call[c].code /\ pending.attempts < MaxAttempts
    BY PendingTypes, AccountConstants DEF VerifyClaim, ClaimsCode, SameRow, At
  <1>2. PendingMoves
    BY <1>1, PendingGone
  <1>3. Keeps(resets, resets') /\ Resets'
    BY <1>1 DEF IInv, Resets, Keeps, OneOpen
  <1>4. Sessions'
    BY <1>1, SessionOpened DEF VerifyClaim
  <1>5. Requests'
    BY <1>1, <1>3, GrowsRows, RequestsEnd
  <1>6. call'[c].step = "idle"
    BY <1>1 DEF EndCall, Go, IdleCall, IInv, Requests
  <1>7. UserByCode /\ ResetByCode
    BY <1>1, <1>6 DEF UserByCode, ResetByCode
  <1> QED BY <1>2, <1>3, <1>4, <1>5, <1>7 DEF Moves

LEMMA SessionSteps ==
    ASSUME IInv, UNCHANGED <<now, drawn, pending, password, resets>>, Sessions', Requests'
    PROVE  Moves
  <1>1. now' \in 0..MaxTime /\ drawn \subseteq drawn' /\ drawn' \subseteq Codes
    BY DEF IInv, Pending
  <1> QED BY <1>1, PendingUnchanged, RowsUnchanged, Codeless DEF Moves

LEMMA LoginIssues ==
    ASSUME IInv, NEW c \in Calls, NEW t \in Tokens, LoginIssue(c, t)
    PROVE  Moves
  <1>1. UNCHANGED <<now, drawn, pending, password, resets>> /\ EndCall(c) /\ password' # NULL
    BY CallTypes DEF LoginIssue, RowSound, At
  <1>2. Sessions'
    BY <1>1, CallTypes, SessionOpened DEF LoginIssue
  <1> QED BY <1>1, <1>2, GrowsStill, RequestsEnd, SessionSteps

LEMMA RefreshRotates ==
    ASSUME IInv, NEW c \in Calls, NEW t \in Tokens, RefreshRotate(c, t)
    PROVE  Moves
  <1>1. UNCHANGED <<now, drawn, pending, password, resets>> /\ EndCall(c)
    BY DEF RefreshRotate
  <1> QED BY <1>1, RefreshRotateSessions, GrowsStill, RequestsEnd, SessionSteps

LEMMA Logouts ==
    ASSUME IInv, NEW t \in Tokens, Logout(t)
    PROVE  Moves
  <1>1. UNCHANGED <<now, drawn, pending, password, resets, call>>
    BY DEF Logout
  <1> QED BY <1>1, LogoutSessions, GrowsStill, RequestsStay, SessionSteps

LEMMA ForgotIssues ==
    ASSUME IInv, NEW c \in Calls, NEW k \in Codes, ForgotIssue(c, k)
    PROVE  Moves
  <1> DEFINE row == [IdleCall EXCEPT !.step = "resetMail", !.code = k]
  <1>1. /\ UNCHANGED <<now, pending, password, token>> /\ Go(c, row)
        /\ drawn \subseteq drawn' /\ drawn' \subseteq Codes /\ now' \in 0..MaxTime
    BY DEF ForgotIssue, Draw, IInv, Pending
  <1>2. PendingMoves
    BY <1>1, PendingUnchanged
  <1>3. Resets' /\ Keeps(resets, resets') /\ Mailed(k, resets')
    BY ForgotIssueRows
  <1>4. Grows
    BY <1>1, <1>3, GrowsRows
  <1>5. row \in CallRows /\ row.step = "resetMail" /\ row.at = 0 /\ row.code = k
    <2>1. 0 \in Times
      BY AccountConstants DEF Times
    <2> QED BY <2>1 DEF IdleCall, CallRows, Steps
  <1> HIDE DEF row
  <1>6. RowSound(row, now', password', resets')
    BY <1>3, <1>4, <1>5 DEF RowSound, Grows
  <1>7. Requests'
    BY <1>1, <1>4, <1>6, RequestsGo
  <1> QED BY <1>1, <1>2, <1>3, <1>7, SessionsUnchanged, Codeless DEF Moves

LEMMA ResetMarks ==
    ASSUME IInv, NEW c \in Calls, ResetMailFailed(c) \/ ResetMiss(c)
    PROVE  Moves
  <1>1. UNCHANGED <<now, drawn, pending, password, token>> /\ EndCall(c)
        /\ drawn \subseteq drawn' /\ drawn' \subseteq Codes /\ now' \in 0..MaxTime
    BY DEF ResetMailFailed, ResetMiss, IInv, Pending
  <1>2. Resets' /\ Keeps(resets, resets')
    BY ResetMailFailedRows, ResetMissRows
  <1>3. Requests'
    BY <1>1, <1>2, GrowsRows, RequestsEnd
  <1> QED BY <1>1, <1>2, <1>3, PendingUnchanged, SessionsUnchanged, Codeless DEF Moves

LEMMA ResetCommits ==
    ASSUME IInv, NEW c \in Calls, ResetCommit(c)
    PROVE  Moves
  <1> DEFINE i == IndexOf(call[c].code)
  <1>1. UNCHANGED <<now, drawn, pending>> /\ EndCall(c)
        /\ drawn \subseteq drawn' /\ drawn' \subseteq Codes /\ now' \in 0..MaxTime
    BY DEF ResetCommit, IInv, Pending
  <1>2. Resets' /\ Keeps(resets, resets') /\ password # NULL /\ password' # NULL
    BY ResetCommitRows
  <1>3. Requests'
    BY <1>1, <1>2, GrowsRows, RequestsEnd
  <1>4. Sessions'
    BY <1>2, SessionsDeleted DEF ResetCommit, Revoked
  <1>5. i \in 1..Len(resets) /\ resets[i].code = password' /\ ~resets[i].used
    BY Indexed DEF ResetCommit, At, OpenRequest
  <1>6. \A j \in 1..Len(resets') : resets'[j].used
    BY ClosedRows DEF ResetCommit, IInv, Resets
  <1>7. UserByCode /\ ResetByCode
    BY <1>2, <1>5, <1>6 DEF UserByCode, ResetByCode
  <1> QED BY <1>1, <1>2, <1>3, <1>4, <1>7, PendingUnchanged DEF Moves

LEMMA Ticks ==
    ASSUME IInv, Tick
    PROVE  Moves
  <1>1. UNCHANGED <<drawn, pending, password, resets, token, call>>
        /\ drawn \subseteq drawn' /\ drawn' \subseteq Codes
    BY DEF Tick, IInv, Pending
  <1>2. now \in Nat /\ now' \in Nat /\ now <= now' /\ now' \in 0..MaxTime
    BY AccountConstants DEF Tick, IInv, Pending
  <1>3. Grows
    BY <1>1, <1>2 DEF Grows, Mailed
  <1> QED BY <1>1, <1>2, <1>3, RequestsStay, PendingUnchanged, RowsUnchanged, SessionsUnchanged,
             Codeless DEF Moves

LEMMA StepMoves ==
    ASSUME IInv, Next
    PROVE  Moves
  <1>1. ASSUME NEW c \in Calls, NEW k \in Codes,
               RegisterCreate(c, k) \/ ResendReplace(c, k) \/ ForgotIssue(c, k)
        PROVE  Moves
    BY <1>1, RegisterCreateMoves, ResendReplaceMoves, ForgotIssues
  <1>2. ASSUME NEW c \in Calls, NEW t \in Tokens,
               VerifyClaim(c, t) \/ LoginIssue(c, t) \/ RefreshBegin(c, t) \/ RefreshRotate(c, t)
        PROVE  Moves
    BY <1>2, VerifyClaims, LoginIssues, RefreshBegins, RefreshRotates
  <1>3. ASSUME NEW c \in Calls,
               \/ RegisterBegin(c) \/ RegisterRead(c) \/ RegisterConflict(c)
               \/ MailSent(c) \/ MailFailed(c)
               \/ ResendBegin(c) \/ ResendRead(c) \/ ResendTooLate(c)
               \/ VerifyRead(c) \/ VerifyMiss(c) \/ VerifyRefused(c)
        PROVE  Moves
    BY <1>3, Ends, Begins, RegisterReadMoves, PendingMarks, ResendReadMoves, VerifyReadMoves
  <1>4. ASSUME NEW c \in Calls,
               \/ LoginBegin(c) \/ RefreshUsed(c)
               \/ ForgotBegin(c) \/ ForgotRead(c) \/ ForgotConflict(c) \/ ResetMailFailed(c)
               \/ ResetRead(c) \/ ResetMiss(c) \/ ResetSessions(c) \/ ResetCommit(c) \/ ResetRefused(c)
               \/ Abort(c)
        PROVE  Moves
    BY <1>4, Ends, Begins, LoginBegins, ForgotReadMoves, ResetMarks, ResetReads, ResetSessionsMoves,
       ResetCommits
  <1> QED BY <1>1, <1>2, <1>3, <1>4, Logouts, Ticks DEF Next

-----------------------------------------------------------------------------
(* Sessions of the current password, as long as no reset meets a login or  *)
(* a refresh.                                                              *)

Opening == {"login", "refresh"}
Resetting == {"reset", "revoke"}

\* Who opens a session knows the current password; who revokes sessions, all.
Follows ==
    /\ SessionsFollowPassword
    /\ \A c \in Calls : call[c].step = "login" => call[c].id = password
    /\ \A c, d \in Calls : call[c].step \in Opening => call[d].step \notin Resetting
    /\ \A c \in Calls : call[c].step = "revoke" => Live \subseteq call[c].sessions

LEMMA CallAfter ==
    ASSUME IInv, NEW c \in Calls, NEW row, Go(c, row)
    PROVE  \A d \in Calls : call'[d] = IF d = c THEN row ELSE call[d]
  BY DEF Go, IInv, Requests

\* A request leaves these steps, or never was in them.
LEMMA FollowsElsewhere ==
    ASSUME IInv, Follows, NEW c \in Calls, NEW row, Go(c, row),
           row.step \notin Opening \cup Resetting, UNCHANGED <<password, token>>
    PROVE  Follows'
  <1>1. \A d \in Calls : call'[d] = IF d = c THEN row ELSE call[d]
    BY CallAfter
  <1>2. Live' = Live /\ SessionsFollowPassword'
    BY DEF Live, Follows, SessionsFollowPassword
  <1> QED BY <1>1, <1>2 DEF Follows, Opening, Resetting

LEMMA FollowsEnd ==
    ASSUME IInv, Follows, NEW c \in Calls, EndCall(c), UNCHANGED <<password, token>>
    PROVE  Follows'
  <1>1. IdleCall.step \notin Opening \cup Resetting
    BY DEF IdleCall, Opening, Resetting
  <1> QED BY <1>1, FollowsElsewhere DEF EndCall

LEMMA FollowsAfar ==
    ASSUME IInv, Follows, NEW c \in Calls,
           \/ RegisterBegin(c) \/ RegisterRead(c) \/ RegisterConflict(c)
           \/ MailSent(c) \/ MailFailed(c)
           \/ ResendBegin(c) \/ ResendRead(c) \/ ResendTooLate(c)
           \/ VerifyMiss(c) \/ VerifyRefused(c) \/ RefreshUsed(c)
           \/ ForgotBegin(c) \/ ForgotRead(c) \/ ForgotConflict(c) \/ ResetMailFailed(c)
           \/ ResetMiss(c) \/ ResetRefused(c) \/ Abort(c)
    PROVE  Follows'
  <1>1. UNCHANGED <<password, token>>
    BY DEF RegisterBegin, RegisterRead, RegisterConflict, MailSent, MailFailed, ResendBegin, ResendRead,
           ResendTooLate, VerifyMiss, VerifyRefused, RefreshUsed, ForgotBegin, ForgotRead,
           ForgotConflict, ResetMailFailed, ResetMiss, ResetRefused, Abort
  <1>2. EndCall(c) \/ \E row : Go(c, row) /\ row.step \in {"register", "create", "resend", "replace",
                                                            "forgot", "issue"}
    <2>1. CASE RegisterBegin(c) \/ ResendBegin(c) \/ ForgotBegin(c)
      <3>1. PICK step \in {"register", "resend", "forgot"} :
              Go(c, [IdleCall EXCEPT !.step = step, !.at = now])
        BY <2>1 DEF RegisterBegin, ResendBegin, ForgotBegin, Begin
      <3>2. [IdleCall EXCEPT !.step = step, !.at = now].step = step
        BY DEF IdleCall
      <3> QED BY <3>1, <3>2
    <2>2. CASE RegisterRead(c)
      <3>1. \A id : [call[c] EXCEPT !.step = "create", !.id = id].step = "create"
        BY CallTypes DEF CallRows
      <3> QED BY <2>2, <3>1 DEF RegisterRead
    <2>3. CASE ResendRead(c)
      <3>1. \A id, count : [call[c] EXCEPT !.step = "replace", !.id = id, !.count = count].step = "replace"
        BY CallTypes DEF CallRows
      <3> QED BY <2>3, <3>1 DEF ResendRead
    <2>4. CASE ForgotRead(c)
      <3>1. \A count : [call[c] EXCEPT !.step = "issue", !.count = count].step = "issue"
        BY CallTypes DEF CallRows
      <3> QED BY <2>4, <3>1 DEF ForgotRead
    <2>5. CASE \/ RegisterConflict(c) \/ MailSent(c) \/ MailFailed(c) \/ ResendTooLate(c)
               \/ VerifyMiss(c) \/ VerifyRefused(c) \/ RefreshUsed(c) \/ ForgotConflict(c)
               \/ ResetMailFailed(c) \/ ResetMiss(c) \/ ResetRefused(c) \/ Abort(c)
      BY <2>5 DEF RegisterConflict, MailSent, MailFailed, ResendTooLate, VerifyMiss, VerifyRefused,
                  RefreshUsed, ForgotConflict, ResetMailFailed, ResetMiss, ResetRefused, Abort
    <2> QED BY <2>1, <2>2, <2>3, <2>4, <2>5
  <1>3. \A step \in {"register", "create", "resend", "replace", "forgot", "issue"} :
            step \notin Opening \cup Resetting
    BY DEF Opening, Resetting
  <1> QED BY <1>1, <1>2, <1>3, FollowsEnd, FollowsElsewhere

LEMMA FollowsCode ==
    ASSUME IInv, Follows, NEW c \in Calls, NEW k \in Codes,
           RegisterCreate(c, k) \/ ResendReplace(c, k) \/ ForgotIssue(c, k)
    PROVE  Follows'
  <1>1. UNCHANGED <<password, token>>
    BY DEF RegisterCreate, ResendReplace, ForgotIssue
  <1>2. /\ [call[c] EXCEPT !.step = "mail", !.code = k, !.id = k].step = "mail"
        /\ [call[c] EXCEPT !.step = "mail", !.code = k, !.count = 0].step = "mail"
        /\ [IdleCall EXCEPT !.step = "resetMail", !.code = k].step = "resetMail"
    BY CallTypes DEF CallRows, IdleCall
  <1>3. "mail" \notin Opening \cup Resetting /\ "resetMail" \notin Opening \cup Resetting
    BY DEF Opening, Resetting
  <1> QED BY <1>1, <1>2, <1>3, FollowsElsewhere DEF RegisterCreate, ResendReplace, ForgotIssue

LEMMA FollowsVerifyRead ==
    ASSUME IInv, Follows, NEW c \in Calls, VerifyRead(c)
    PROVE  Follows'
  <1>1. UNCHANGED <<password, token>>
    BY DEF VerifyRead
  <1>2. CASE UNCHANGED call
    BY <1>1, <1>2 DEF Follows, SessionsFollowPassword, Live
  <1>3. ASSUME NEW step \in {"miss", "claim"},
               Go(c, [IdleCall EXCEPT !.step = step, !.at = now, !.id = pending.id,
                                      !.code = pending.code, !.count = pending.attempts])
        PROVE  Follows'
    <2>1. [IdleCall EXCEPT !.step = step, !.at = now, !.id = pending.id,
                           !.code = pending.code, !.count = pending.attempts].step = step
      BY DEF IdleCall
    <2>2. step \notin Opening \cup Resetting
      BY DEF Opening, Resetting
    <2> QED BY <1>1, <1>3, <2>1, <2>2, FollowsElsewhere
  <1> QED BY <1>2, <1>3 DEF VerifyRead

\* A login or a refresh begins while nobody resets, a reset while nobody logs in.
LEMMA FollowsBegins ==
    ASSUME IInv, Follows, "overlap" \notin Faults, NEW c \in Calls,
           \/ LoginBegin(c) \/ ResetRead(c) \/ ResetSessions(c)
           \/ \E t \in Tokens : RefreshBegin(c, t)
    PROVE  Follows'
  <1>1. UNCHANGED <<password, token>>
    BY DEF LoginBegin, ResetRead, ResetSessions, RefreshBegin
  <1>2. Live' = Live /\ SessionsFollowPassword'
    BY <1>1 DEF Live, Follows, SessionsFollowPassword
  <1>3. ASSUME NEW row, Go(c, row),
               \/ /\ row.step = "login" /\ row.id = password
                  /\ \A d \in Calls : call[d].step \notin Resetting
               \/ row.step = "refresh" /\ \A d \in Calls : call[d].step \notin Resetting
               \/ row.step = "reset" /\ \A d \in Calls : call[d].step \notin Opening
               \/ /\ row.step = "revoke" /\ row.sessions = Live
                  /\ \A d \in Calls : call[d].step \notin Opening
               \/ row.step = "resetMiss"
        PROVE  Follows'
    <2>1. \A d \in Calls : call'[d] = IF d = c THEN row ELSE call[d]
      BY <1>3, CallAfter
    <2>2. \A d \in Calls : call'[d].step = "login" => call'[d].id = password'
      BY <1>1, <1>3, <2>1 DEF Follows
    <2>3. \A d \in Calls : call'[d].step = "revoke" => Live' \subseteq call'[d].sessions
      BY <1>2, <1>3, <2>1 DEF Follows
    <2>4. \A d, e \in Calls : call'[d].step \in Opening => call'[e].step \notin Resetting
      BY <1>3, <2>1 DEF Follows, Opening, Resetting
    <2> QED BY <1>2, <2>2, <2>3, <2>4 DEF Follows
  <1>4. CASE LoginBegin(c)
    <2>1. /\ [IdleCall EXCEPT !.step = "login", !.id = password].step = "login"
          /\ [IdleCall EXCEPT !.step = "login", !.id = password].id = password
      BY DEF IdleCall
    <2>2. \A d \in Calls : call[d].step \notin Resetting
      BY <1>4 DEF LoginBegin, Unhindered, Resetting
    <2> QED BY <1>3, <1>4, <2>1, <2>2 DEF LoginBegin
  <1>5. ASSUME NEW t \in Tokens, RefreshBegin(c, t)
        PROVE  Follows'
    <2>1. [IdleCall EXCEPT !.step = "refresh", !.token = t].step = "refresh"
      BY DEF IdleCall
    <2>2. \A d \in Calls : call[d].step \notin Resetting
      BY <1>5 DEF RefreshBegin, Unhindered, Resetting
    <2> QED BY <1>3, <1>5, <2>1, <2>2 DEF RefreshBegin
  <1>6. CASE ResetRead(c)
    <2>1. PICK step \in {"resetMiss", "reset"} :
            /\ step = "reset" => Unhindered(Opening)
            /\ Go(c, [IdleCall EXCEPT !.step = step, !.at = now, !.code = resets[Newest].code,
                                      !.count = resets[Newest].attempts])
      BY <1>6 DEF ResetRead, Opening
    <2>2. [IdleCall EXCEPT !.step = step, !.at = now, !.code = resets[Newest].code,
                           !.count = resets[Newest].attempts].step = step
      BY DEF IdleCall
    <2>3. step = "reset" => \A d \in Calls : call[d].step \notin Opening
      BY <2>1 DEF Unhindered
    <2> QED BY <1>3, <2>1, <2>2, <2>3
  <1>7. CASE ResetSessions(c)
    <2>1. /\ [call[c] EXCEPT !.step = "revoke", !.sessions = Live].step = "revoke"
          /\ [call[c] EXCEPT !.step = "revoke", !.sessions = Live].sessions = Live
      BY CallTypes DEF CallRows
    <2>2. \A d \in Calls : call[d].step \notin Opening
      BY <1>7 DEF ResetSessions, At, Follows, Resetting
    <2> QED BY <1>3, <1>7, <2>1, <2>2 DEF ResetSessions
  <1> QED BY <1>4, <1>5, <1>6, <1>7

LEMMA FollowsVerifyClaim ==
    ASSUME IInv, Follows, NEW c \in Calls, NEW t \in Tokens, VerifyClaim(c, t)
    PROVE  Follows'
  <1>1. password = NULL /\ password' = pending.id /\ EndCall(c)
        /\ token' = [token EXCEPT ![t] = NewToken(t, NULL, pending.id)]
    BY DEF VerifyClaim
  <1>2. \A d \in Calls : call[d].step \notin {"login"} \cup Resetting
    BY <1>1, CallTypes, Indexed DEF RowSound, Resetting
  <1>3. \A d \in Calls : call'[d].step \notin {"login"} \cup Resetting
    <2>1. \A d \in Calls : call'[d] = IF d = c THEN IdleCall ELSE call[d]
      BY <1>1, CallAfter DEF EndCall
    <2> QED BY <1>2, <2>1 DEF IdleCall, Resetting
  <1>4. SessionsFollowPassword'
    <2>1. \A u \in Tokens : token[u].state = "unused"
      BY <1>1 DEF IInv, Sessions
    <2>2. \A u \in Tokens : token'[u] = IF u = t THEN NewToken(t, NULL, pending.id) ELSE token[u]
      BY <1>1 DEF IInv, Sessions
    <2> QED BY <1>1, <2>1, <2>2 DEF SessionsFollowPassword, Live, NewToken
  <1> QED BY <1>3, <1>4 DEF Follows, Resetting

\* A session is opened for the current password, and nobody is revoking.
LEMMA FollowsOpened ==
    ASSUME IInv, Follows, NEW c \in Calls, call[c].step \in Opening, EndCall(c), UNCHANGED password,
           \A u \in Live' : token'[u].password = password
    PROVE  Follows'
  <1>1. \A d \in Calls : call'[d] = IF d = c THEN IdleCall ELSE call[d]
    BY CallAfter DEF EndCall
  <1>2. \A d \in Calls : call[d].step \notin Resetting
    BY DEF Follows
  <1>3. \A d \in Calls : call'[d].step \notin Resetting
    BY <1>1, <1>2 DEF IdleCall, Resetting
  <1>4. \A d \in Calls : call'[d].step = "login" => call'[d].id = password'
    BY <1>1 DEF IdleCall, Follows
  <1>5. SessionsFollowPassword'
    BY DEF SessionsFollowPassword
  <1> QED BY <1>3, <1>4, <1>5 DEF Follows, Resetting

LEMMA FollowsIssues ==
    ASSUME IInv, Follows, NEW c \in Calls, NEW t \in Tokens, LoginIssue(c, t) \/ RefreshRotate(c, t)
    PROVE  Follows'
  <1>1. call[c].step \in Opening /\ EndCall(c) /\ UNCHANGED password
    BY DEF LoginIssue, RefreshRotate, At, Opening
  <1>2. CASE LoginIssue(c, t)
    <2>1. call[c].id = password
      BY <1>2 DEF LoginIssue, At, Follows
    <2>2. \A u \in Tokens : token'[u] = IF u = t THEN NewToken(t, NULL, password) ELSE token[u]
      BY <1>2, <2>1 DEF LoginIssue, IInv, Sessions
    <2>3. \A u \in Live' : token'[u].password = password
      BY <2>2 DEF Follows, SessionsFollowPassword, Live, NewToken
    <2> QED BY <1>1, <2>3, FollowsOpened
  <1>3. CASE RefreshRotate(c, t)
    <2> DEFINE old == call[c].token
               row == NewToken(t, old, token[old].password)
    <2>1. old \in Tokens /\ token[old] \in TokenRows /\ token[old].password = password /\ t # old
      BY <1>3 DEF RefreshRotate, Rotates, Live, Follows, SessionsFollowPassword, IInv, Sessions
    <2>2. \A u \in Tokens \ {t, old} : token'[u] = token[u]
      BY <1>3 DEF RefreshRotate, IInv, Sessions
    <2>3. token'[t] = row /\ token'[old] = [token[old] EXCEPT !.state = "deleted"]
      BY <1>3, <2>1 DEF RefreshRotate, IInv, Sessions
    <2>4. token'[t].password = password /\ token'[old].state = "deleted"
      BY <2>1, <2>3 DEF NewToken, TokenRows
    <2>5. \A u \in Live' : token'[u].password = password
      BY <2>2, <2>4 DEF Follows, SessionsFollowPassword, Live
    <2> QED BY <1>1, <2>5, FollowsOpened
  <1> QED BY <1>2, <1>3

LEMMA FollowsLogout ==
    ASSUME IInv, Follows, NEW t \in Tokens, Logout(t)
    PROVE  Follows'
  <1>1. \A u \in Tokens : token'[u] = IF u = t THEN [token[t] EXCEPT !.state = "deleted"] ELSE token[u]
    BY DEF Logout, IInv, Sessions
  <1>2. [token[t] EXCEPT !.state = "deleted"].state = "deleted"
    BY DEF IInv, Sessions, TokenRows
  <1>3. \A u \in Live' : u \in Live /\ token'[u] = token[u]
    BY <1>1, <1>2 DEF Live
  <1> QED BY <1>3 DEF Follows, SessionsFollowPassword, Logout

LEMMA FollowsResetCommit ==
    ASSUME IInv, Follows, NEW c \in Calls, ResetCommit(c)
    PROVE  Follows'
  <1>1. call[c].step = "revoke" /\ EndCall(c) /\ Live \subseteq call[c].sessions
    BY DEF ResetCommit, At, Follows
  <1>2. Live' = {}
    <2>1. \A t \in Tokens : token'[t] = IF t \in call[c].sessions THEN [token[t] EXCEPT !.state = "deleted"]
                                        ELSE token[t]
      BY DEF ResetCommit, Revoked
    <2>2. \A t \in Tokens : [token[t] EXCEPT !.state = "deleted"].state = "deleted"
      BY DEF IInv, Sessions, TokenRows
    <2> QED BY <1>1, <2>1, <2>2 DEF Live
  <1>3. \A d \in Calls : call[d].step \notin Opening
    BY <1>1 DEF Follows, Resetting
  <1>4. \A d \in Calls : call'[d].step \notin Opening
    <2>1. \A d \in Calls : call'[d] = IF d = c THEN IdleCall ELSE call[d]
      BY <1>1, CallAfter DEF EndCall
    <2> QED BY <1>3, <2>1 DEF IdleCall, Opening
  <1> QED BY <1>2, <1>4 DEF Follows, SessionsFollowPassword, Opening

LEMMA FollowsStep ==
    ASSUME IInv, Follows, "overlap" \notin Faults, Next
    PROVE  Follows'
  <1>1. ASSUME NEW c \in Calls, NEW k \in Codes,
               RegisterCreate(c, k) \/ ResendReplace(c, k) \/ ForgotIssue(c, k)
        PROVE  Follows'
    BY <1>1, FollowsCode
  <1>2. ASSUME NEW c \in Calls, NEW t \in Tokens,
               VerifyClaim(c, t) \/ LoginIssue(c, t) \/ RefreshBegin(c, t) \/ RefreshRotate(c, t)
        PROVE  Follows'
    BY <1>2, FollowsVerifyClaim, FollowsIssues, FollowsBegins
  <1>3. ASSUME NEW c \in Calls, LoginBegin(c) \/ ResetRead(c) \/ ResetSessions(c)
        PROVE  Follows'
    BY <1>3, FollowsBegins
  <1>4. ASSUME NEW c \in Calls, VerifyRead(c) \/ ResetCommit(c)
        PROVE  Follows'
    BY <1>4, FollowsVerifyRead, FollowsResetCommit
  <1>5. CASE Tick
    BY <1>5 DEF Tick, Follows, SessionsFollowPassword, Live
  <1> QED BY <1>1, <1>2, <1>3, <1>4, <1>5, FollowsAfar, FollowsLogout DEF Next

-----------------------------------------------------------------------------
(* The theorems.                                                           *)

LEMMA InitIInv ==
    ASSUME Init
    PROVE  IInv /\ Follows
  <1>1. Pending
    BY AccountConstants DEF Init, Pending
  <1>2. Resets
    BY DEF Init, Resets, OneOpen
  <1>3. Sessions /\ Live = {}
    BY DEF Init, Sessions, TokenRows, RotatedOnce, Live
  <1>4. Requests
    BY IdleSound DEF Init, Requests, RowSound
  <1>5. Follows
    BY <1>3 DEF Init, Follows, SessionsFollowPassword, IdleCall, Opening
  <1> QED BY <1>1, <1>2, <1>3, <1>4, <1>5 DEF IInv

LEMMA StepIInv ==
    ASSUME IInv, [Next]_vars
    PROVE  IInv'
  <1>1. CASE Next
    BY <1>1, StepMoves DEF Moves, PendingMoves, IInv
  <1>2. CASE UNCHANGED vars
    BY <1>2, GrowsStill, RequestsStay, RowsUnchanged, SessionsUnchanged DEF vars, IInv, Pending
  <1> QED BY <1>1, <1>2

LEMMA AlwaysIInv == Spec => []IInv
  BY InitIInv, StepIInv, PTL DEF Spec

\* Every row keeps its type, and one reset request is open at most.
THEOREM AccountTypes == Spec => []TypeOK
  <1>1. IInv => TypeOK
    BY DEF IInv, Pending, Resets, OneOpen, Sessions, Requests, TypeOK
  <1> QED BY <1>1, AlwaysIInv, PTL

\* Whoever presents a refresh token at the same time, one of them is served.
THEOREM AccountRotatesOnce == Spec => []RotatedOnce
  <1>1. IInv => RotatedOnce
    BY DEF IInv, Sessions
  <1> QED BY <1>1, AlwaysIInv, PTL

\* As long as no login or refresh runs beside a reset, a reset revokes every
\* session of the old password.
THEOREM AccountSessionsFollow ==
    ASSUME "overlap" \notin Faults
    PROVE  Spec => []SessionsFollowPassword
  <1>1. IInv /\ Follows /\ [Next]_vars => Follows'
    <2>1. UNCHANGED vars /\ Follows => Follows'
      BY DEF vars, Follows, SessionsFollowPassword, Live
    <2> QED BY <2>1, FollowsStep
  <1>2. Follows => SessionsFollowPassword
    BY DEF Follows
  <1> QED BY <1>1, <1>2, InitIInv, AlwaysIInv, PTL DEF Spec

\* A user is made from the code mailed last, before it is exhausted.
THEOREM AccountFromCurrentCode == Spec => AccountByCurrentCode
  <1>1. IInv /\ [Next]_vars =>
          [password = NULL /\ password' # NULL =>
             \E c \in Calls : /\ call[c].step = "claim" /\ call'[c].step = "idle"
                              /\ pending.id = password' /\ pending.code = call[c].code
                              /\ pending.attempts < MaxAttempts]_vars
    BY StepMoves DEF Moves, UserByCode
  <1> QED BY <1>1, AlwaysIInv, PTL DEF Spec, AccountByCurrentCode

\* A mailed code changes the password once, while its request is open.
THEOREM AccountPasswordByCode == Spec => PasswordByOpenCode
  <1>1. IInv /\ [Next]_vars =>
          [password # NULL /\ password' # password =>
             /\ \E i \in 1..Len(resets) : resets[i].code = password' /\ ~resets[i].used
             /\ \A i \in 1..Len(resets') : resets'[i].used]_vars
    BY StepMoves DEF Moves, ResetByCode
  <1> QED BY <1>1, AlwaysIInv, PTL DEF Spec, PasswordByOpenCode

\* Resends of a registration code keep their distance.
THEOREM AccountCooldown == Spec => CooldownKept
  <1>1. IInv /\ [Next]_vars =>
          [pending # NULL /\ pending' # NULL
             /\ pending'.id = pending.id /\ pending'.code # pending.code =>
                 ~CoolingDown(pending.sent, pending'.sent)]_vars
    BY StepMoves DEF Moves, PendingMoves, MailsApart
  <1> QED BY <1>1, AlwaysIInv, PTL DEF Spec, CooldownKept

\* Misses add up, and a code that was spent or voided stays so.
THEOREM AccountExhausted == Spec => ExhaustedForGood
  <1>1. IInv /\ [Next]_vars =>
          [/\ pending # NULL /\ pending' # NULL /\ pending'.code = pending.code =>
                 pending'.attempts >= pending.attempts
           /\ \A i \in 1..Len(resets) : resets[i].used => resets'[i].used]_vars
    BY StepMoves DEF Moves, PendingMoves, AttemptsKept, SameCode, Keeps
  <1> QED BY <1>1, AlwaysIInv, PTL DEF Spec, ExhaustedForGood

\* A mail that fails voids the code it was to bring, and no other.
THEOREM AccountNewerCode == Spec => NewerCodeSurvives
  <1>1. IInv /\ [Next]_vars =>
          [pending # NULL /\ pending' # NULL /\ pending'.code = pending.code
             /\ pending'.attempts > pending.attempts + 1 =>
                 \E c \in Calls : call[c].step = "mail" /\ call[c].code = pending.code]_vars
    BY StepMoves DEF Moves, PendingMoves, VoidedByMail, SameCode
  <1> QED BY <1>1, AlwaysIInv, PTL DEF Spec, NewerCodeSurvives

=============================================================================
