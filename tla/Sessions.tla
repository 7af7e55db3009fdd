------------------------------- MODULE Sessions -------------------------------
(***************************************************************************)
(* The sign-in sessions of one account: refresh tokens that rotate, their  *)
(* grace period, signing out of one login or of all of them, password      *)
(* changes and suspension.  Every request is a process; each of its steps  *)
(* is one statement on the database, so requests meet between statements.  *)
(*                                                                         *)
(* A token is the number of its document.  The password, the e-mail and    *)
(* the 30 days a token lives are left out: a sign-in here is one whose     *)
(* password was right when the account was read.                           *)
(***************************************************************************)
EXTENDS Naturals, FiniteSets, Sequences

CONSTANTS
  Requests,   \* the requests the server receives, each of them once
  MayAsk      \* what each of them may ask for

Operations == {"refresh", "logout", "logoutAll", "change", "reset",
               "login", "suspend", "reactivate"}
ASSUME MayAskAssumption == MayAsk \in [Requests -> SUBSET Operations]

VARIABLES
  account,  \* the user document
  tokens,   \* the refresh-token documents, by number
  jobs,     \* the requests in progress
  held,     \* the tokens that answers have handed out
  \* history, read by the properties only
  ended,    \* logins ended while none of their tokens was being rotated
  revoked,  \* the latest session version whose revocation has run
  abused    \* a token was presented after its grace period or its login's end

vars == <<account, tokens, jobs, held, ended, revoked, abused>>

None == 0
LIVE == "live"
Ends == [logout |-> "LOGOUT", logoutAll |-> "LOGOUT_ALL",
         change |-> "PASSWORD_CHANGE", reset |-> "PASSWORD_RESET",
         suspend |-> "SUSPENDED", refresh |-> "SUSPENDED"]
(* SUSPENDED is not among the reasons that end a login for good.           *)
SESSION_ENDING_REASONS ==
  {"LOGOUT", "LOGOUT_ALL", "PASSWORD_CHANGE", "PASSWORD_RESET", "REUSE_DETECTED"}
Reasons == SESSION_ENDING_REASONS \union {LIVE, "ROTATED", "SUSPENDED"}
Steps == {"idle", "claim", "issue", "link", "existing", "ended?", "regrant",
          "retire", "recheck", "disown", "punish", "bump", "revoke", "session",
          "save", "audit", "done"}

Tokens == DOMAIN tokens
Token(f, op, v) == [family |-> f, reason |-> LIVE, next |-> None,
                    late |-> FALSE, by |-> op, since |-> v]
Families == {tokens[t].family : t \in Tokens}
Idle == [op |-> "none", pc |-> "idle", token |-> None, seen |-> 0,
         got |-> None, next |-> None, late |-> FALSE]
Over == [Idle EXCEPT !.pc = "done"]

Init ==
  /\ account = [version |-> 0, suspended |-> FALSE, link |-> TRUE]
  /\ tokens = <<Token(1, "login", 0)>>
  /\ jobs = [r \in Requests |-> Idle]
  /\ held = {1}
  /\ ended = {}
  /\ revoked = 0
  /\ abused = FALSE

TypeOK ==
  /\ account \in [version : Nat, suspended : BOOLEAN, link : BOOLEAN]
  /\ \A t \in Tokens :
       /\ tokens[t] \in [family : Families, reason : Reasons, next : Tokens \union {None},
                         late : BOOLEAN, by : Operations, since : Nat]
       /\ tokens[t].reason = LIVE => tokens[t].next = None /\ ~ tokens[t].late
  /\ jobs \in [Requests -> [op : Operations \union {"none"}, pc : Steps,
                            token : Tokens \union {None}, seen : Nat,
                            got : Tokens \union {None}, next : Tokens \union {None},
                            late : BOOLEAN]]
  /\ held \subseteq Tokens /\ ended \subseteq Families
  /\ revoked \in 0..account.version /\ abused \in BOOLEAN

-------------------------------------------------------------------------------
(* Statements the requests share.                                          *)

At(r, step) == jobs[r].pc = step
Goto(r, step) == jobs' = [jobs EXCEPT ![r].pc = step]
Finish(r) == jobs' = [jobs EXCEPT ![r] = Over]

(* revokeTokenFamily and revokeAllUserRefreshTokens: what is still live.    *)
Revoke(S, reason) ==
  tokens' = [t \in Tokens |->
    IF t \in S /\ tokens[t].reason = LIVE THEN [tokens[t] EXCEPT !.reason = reason]
                                          ELSE tokens[t]]
InFamily(f) == {t \in Tokens : tokens[t].family = f}

(* A rotation that has decided to issue a token and has not done so.       *)
Rotating(f) ==
  \E r \in Requests : /\ jobs[r].pc \in {"issue", "regrant"}
                      /\ tokens[jobs[r].token].family = f
HasEnded(f) == \E t \in InFamily(f) : tokens[t].reason \in SESSION_ENDING_REASONS
(* History: the logins a revocation of S ends for good.                    *)
NoteEnded(S, reason) ==
  ended' = IF reason \notin SESSION_ENDING_REASONS THEN ended
           ELSE ended \union {f \in Families : ~ Rotating(f) /\
                                \E t \in S \intersect InFamily(f) : tokens[t].reason = LIVE}

(* issueRefreshToken.                                                      *)
Issue(r, f) == tokens' = Append(tokens, Token(f, jobs[r].op, jobs[r].seen))
Got(r, step) == jobs' = [jobs EXCEPT ![r].got = Len(tokens) + 1, ![r].pc = step]

-------------------------------------------------------------------------------
(* refreshSession and rotateRefreshToken.                                  *)

Present(r, t) ==
  /\ "refresh" \in MayAsk[r] /\ At(r, "idle") /\ t \in held
  /\ jobs' = [jobs EXCEPT ![r] = [Idle EXCEPT !.op = "refresh", !.pc = "claim", !.token = t,
                                  !.seen = account.version, !.late = tokens[t].late]]
  /\ abused' = (abused \/ tokens[t].late \/ HasEnded(tokens[t].family))
  /\ UNCHANGED <<account, tokens, held, ended, revoked>>

Claim(r) ==
  /\ At(r, "claim")
  /\ IF tokens[jobs[r].token].reason = LIVE
     THEN /\ tokens' = [tokens EXCEPT ![jobs[r].token].reason = "ROTATED"]
          /\ Goto(r, "issue")
     ELSE Goto(r, "existing") /\ UNCHANGED tokens
  /\ UNCHANGED <<account, held, ended, revoked, abused>>

Exchange(r) ==
  /\ At(r, "issue")
  /\ Issue(r, tokens[jobs[r].token].family) /\ Got(r, "link")
  /\ UNCHANGED <<account, held, ended, revoked, abused>>

Link(r) ==
  /\ At(r, "link")
  /\ tokens' = [tokens EXCEPT ![jobs[r].token].next = jobs[r].got]
  /\ Goto(r, "recheck")
  /\ UNCHANGED <<account, held, ended, revoked, abused>>

\* Mutant: the grace period is not applied.
NoGrace(r) ==
  /\ At(r, "existing")
  /\ IF tokens[jobs[r].token].reason = "ROTATED" THEN Goto(r, "punish") ELSE Finish(r)
  /\ UNCHANGED <<account, tokens, held, ended, revoked, abused>>

(* The token could not be claimed: what became of it decides.              *)
Existing(r) ==
  LET old == tokens[jobs[r].token] IN
  /\ At(r, "existing")
  /\ \/ /\ old.reason = "ROTATED" /\ ~ jobs[r].late
        /\ jobs' = [jobs EXCEPT ![r].pc = "ended?", ![r].next = old.next]
     \/ /\ old.reason = "REUSE_DETECTED" \/ (old.reason = "ROTATED" /\ jobs[r].late)
        /\ Goto(r, "punish")
     \/ /\ old.reason \notin {"ROTATED", "REUSE_DETECTED"}
        /\ Finish(r)
  /\ UNCHANGED <<account, tokens, held, ended, revoked, abused>>

SessionEnded(r) ==
  /\ At(r, "ended?")
  /\ Goto(r, IF HasEnded(tokens[jobs[r].token].family) THEN "punish" ELSE "regrant")
  /\ UNCHANGED <<account, tokens, held, ended, revoked, abused>>

Regrant(r) ==
  /\ At(r, "regrant")
  /\ Issue(r, tokens[jobs[r].token].family)
  /\ Got(r, IF jobs[r].next = None THEN "recheck" ELSE "retire")
  /\ UNCHANGED <<account, held, ended, revoked, abused>>

(* The successor whose answer was lost is retired, if it is still live.    *)
Retire(r) ==
  LET successor == jobs[r].next IN
  /\ At(r, "retire")
  /\ IF tokens[successor].reason = LIVE
     THEN tokens' = [tokens EXCEPT ![successor].reason = "ROTATED", ![successor].next = jobs[r].got]
     ELSE UNCHANGED tokens
  /\ Goto(r, "recheck")
  /\ UNCHANGED <<account, held, ended, revoked, abused>>

Punish(r) ==
  LET S == InFamily(tokens[jobs[r].token].family) IN
  /\ At(r, "punish")
  /\ Revoke(S, "REUSE_DETECTED") /\ NoteEnded(S, "REUSE_DETECTED")
  /\ Finish(r)
  /\ UNCHANGED <<account, held, revoked, abused>>

\* Mutant: the session version is not compared again.
RecheckStatusOnly(r) ==
  /\ At(r, "recheck")
  /\ IF account.suspended THEN Goto(r, "revoke") /\ UNCHANGED held
     ELSE held' = held \union {jobs[r].got} /\ Finish(r)
  /\ UNCHANGED <<account, tokens, ended, revoked, abused>>

(* The account is read again before the new token is handed out.           *)
Recheck(r) ==
  /\ At(r, "recheck")
  /\ \/ account.suspended /\ Goto(r, "revoke") /\ UNCHANGED held
     \/ /\ ~ account.suspended /\ account.version # jobs[r].seen
        /\ Goto(r, "disown") /\ UNCHANGED held
     \/ /\ ~ account.suspended /\ account.version = jobs[r].seen
        /\ held' = held \union {jobs[r].got} /\ Finish(r)
  /\ UNCHANGED <<account, tokens, ended, revoked, abused>>

Disown(r) ==
  /\ At(r, "disown")
  /\ Revoke({jobs[r].got}, "LOGOUT_ALL")
  /\ Finish(r)
  /\ UNCHANGED <<account, held, ended, revoked, abused>>

(* REFRESH_TOKEN_REUSE_GRACE_SECONDS have passed since the rotation.       *)
GraceEnds(t) ==
  /\ t \in held /\ tokens[t].reason = "ROTATED" /\ ~ tokens[t].late
  /\ tokens' = [tokens EXCEPT ![t].late = TRUE]
  /\ UNCHANGED <<account, jobs, held, ended, revoked, abused>>

-------------------------------------------------------------------------------
(* The other requests.                                                     *)

(* logoutUser: the login the token belongs to is looked up and revoked.    *)
Logout(r, t) ==
  LET S == InFamily(tokens[t].family) IN
  /\ "logout" \in MayAsk[r] /\ At(r, "idle") /\ t \in held
  /\ Revoke(S, "LOGOUT") /\ NoteEnded(S, "LOGOUT")
  /\ Finish(r)
  /\ UNCHANGED <<account, held, revoked, abused>>

(* Requests that begin with a read of the account: an access token that    *)
(* authenticate accepts, a reset link that exists, a password that matches. *)
Ask(r, op) ==
  /\ op \in MayAsk[r] \ {"refresh", "logout"} /\ At(r, "idle")
  /\ op \in {"logoutAll", "change", "login"} => ~ account.suspended
  /\ op = "reset" => account.link
  /\ jobs' = [jobs EXCEPT ![r].op = op, ![r].seen = account.version,
                          ![r].pc = IF op = "login" THEN "session" ELSE "bump"]
  /\ UNCHANGED <<account, tokens, held, ended, revoked, abused>>

(* The filter of the update: a link that was used, and a user already      *)
(* suspended or already active, match nothing.                             *)
Matches(op) ==
  /\ op = "reset" => account.link
  /\ op = "suspend" => ~ account.suspended
  /\ op = "reactivate" => account.suspended

(* The update that ends every access token ($inc tokenVersion), and with   *)
(* it the new password, the consumed link or the suspension.               *)
Bump(r) ==
  LET op == jobs[r].op IN
  /\ At(r, "bump")
  /\ \/ ~ Matches(op) /\ Finish(r) /\ UNCHANGED account
     \/ /\ Matches(op)
        /\ account' = [version |-> IF op = "reactivate" THEN account.version
                                                         ELSE account.version + 1,
                       suspended |-> op = "suspend" \/ (account.suspended /\ op # "reactivate"),
                       link |-> account.link /\ op \notin {"reset", "change"}]
        /\ jobs' = [jobs EXCEPT
             ![r].pc = IF op \in {"suspend", "reactivate"} THEN "audit" ELSE "revoke",
             ![r].seen = account'.version]
  /\ UNCHANGED <<tokens, held, ended, revoked, abused>>

(* AuditService.record: without its record the change is undone.           *)
Audit(r, written) ==
  LET op == jobs[r].op IN
  /\ At(r, "audit")
  /\ IF written /\ op = "suspend" THEN Goto(r, "revoke") ELSE Finish(r)
  /\ IF written THEN UNCHANGED account
                ELSE account' = [account EXCEPT !.suspended = (op = "reactivate")]
  /\ UNCHANGED <<tokens, held, ended, revoked, abused>>

(* revokeAllUserRefreshTokens.                                             *)
RevokeAll(r) ==
  LET reason == Ends[jobs[r].op] IN
  /\ At(r, "revoke")
  /\ Revoke(Tokens, reason) /\ NoteEnded(Tokens, reason)
  /\ revoked' = IF jobs[r].op # "refresh" /\ jobs[r].seen > revoked THEN jobs[r].seen ELSE revoked
  /\ IF jobs[r].op = "change" THEN Goto(r, "session") ELSE Finish(r)
  /\ UNCHANGED <<account, held, abused>>

(* createSession: a new login, answered at once.                           *)
CreateSession(r) ==
  /\ At(r, "session")
  /\ Issue(r, Cardinality(Families) + 1) /\ Finish(r)
  /\ held' = held \union {Len(tokens) + 1}
  /\ UNCHANGED <<account, ended, revoked, abused>>

-------------------------------------------------------------------------------

Step(r) ==
  \/ Claim(r) \/ Exchange(r) \/ Link(r) \/ Existing(r) \/ SessionEnded(r)
  \/ Regrant(r) \/ Retire(r) \/ Punish(r) \/ Recheck(r) \/ Disown(r)
  \/ Bump(r) \/ (\E written \in BOOLEAN : Audit(r, written))
  \/ RevokeAll(r) \/ CreateSession(r)

Next ==
  \/ \E r \in Requests :
       \/ Step(r)
       \/ \E t \in Tokens : Present(r, t) \/ Logout(r, t)
       \/ \E op \in Operations : Ask(r, op)
  \/ \E t \in Tokens : GraceEnds(t)

Spec == Init /\ [][Next]_vars

-------------------------------------------------------------------------------

(* A login that was ended while none of its tokens was being exchanged is  *)
(* over: no grace period and no replay gives it a live token again.        *)
EndedStaysEnded ==
  \A t \in Tokens : tokens[t].family \in ended => tokens[t].reason # LIVE

(* A refresh that overlapped "log out everywhere", a new password or a     *)
(* suspension never hands out a token that survives it.                    *)
NoRefreshEscapes ==
  \A t \in held : tokens[t].reason = LIVE /\ tokens[t].by = "refresh"
                    => tokens[t].since >= revoked

(* What was ended or revoked stays so, whatever refresh was in progress.   *)
RevokedStaysRevoked == TypeOK /\ EndedStaysEnded /\ NoRefreshEscapes

(* Parallel tabs and retries within the grace period are not taken for     *)
(* theft: a login is closed for reuse only if a token came back late, or   *)
(* after its login had been ended.                                         *)
OnlyReuseIsPunished ==
  \A t \in Tokens : tokens[t].reason = "REUSE_DETECTED" =>
    \/ abused
    \/ \E u \in InFamily(tokens[t].family) :
         tokens[u].reason \in SESSION_ENDING_REASONS \ {"REUSE_DETECTED"}
=============================================================================
