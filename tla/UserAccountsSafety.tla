------------------------- MODULE UserAccountsSafety -------------------------
(***************************************************************************)
(* Proofs about the sign-in sessions, for any number of requests and any   *)
(* choice of what they ask for, and about the team of a workspace, for any *)
(* users and openings in which at most two requests change roles or remove *)
(* members.                                                                *)
(***************************************************************************)
EXTENDS UserAccounts, TLAPS, FiniteSetTheorems

-----------------------------------------------------------------------------
(* The sessions: the inductive invariant.                                   *)

AccountSet == [version : Nat, suspended : BOOLEAN, link : BOOLEAN]
TokenSet == [family : Nat, reason : Reasons, next : Nat, late : BOOLEAN,
             by : Operations, since : Nat]
JobSet == [op : Operations \cup {"none"}, pc : Steps, token : Nat, seen : Nat,
           got : Nat, next : Nat, late : BOOLEAN]

(* A login that may be closed for reuse (OnlyReuseIsPunished).              *)
Deserved(f) ==
  \/ abused
  \/ \E u \in InFamily(f) : tokens[u].reason \in SESSION_ENDING_REASONS \ {"REUSE_DETECTED"}

TokenInv(t) ==
  /\ tokens[t].next \in Tokens \cup {None}
  /\ tokens[t].reason = LIVE => tokens[t].next = None /\ ~ tokens[t].late
  /\ tokens[t].reason = "REUSE_DETECTED" => Deserved(tokens[t].family)

(* Logins are numbered as they are made.                                    *)
FamiliesInv == \E n \in Nat : Families = 1..n

RefreshSteps == {"claim", "issue", "link", "existing", "ended?", "regrant", "retire",
                 "recheck", "disown", "punish"}

(* What a request knows at each of its steps: a token it claimed is not live *)
(* again, and one it issued is as old as the account it read.               *)
JobInv(r) ==
  LET j == jobs[r] IN
  /\ j.seen <= account.version
  /\ j.token \in Tokens \cup {None} /\ j.got \in Tokens \cup {None} /\ j.next \in Tokens \cup {None}
  /\ j.pc \in RefreshSteps => j.op = "refresh" /\ j.token \in Tokens
  /\ j.pc \in {"issue", "link"} => tokens[j.token].reason # LIVE
  /\ j.pc \in {"link", "retire", "recheck", "disown"} =>
       j.got \in Tokens /\ tokens[j.got].since = j.seen
  /\ j.pc = "retire" => j.next \in Tokens
  /\ j.pc = "punish" => Deserved(tokens[j.token].family)
  /\ j.pc = "bump" => j.op \in {"logoutAll", "change", "reset", "suspend", "reactivate"}
  /\ j.pc = "audit" => j.op \in {"suspend", "reactivate"}
  /\ j.pc = "revoke" => j.op \in {"refresh", "logoutAll", "change", "reset", "suspend"}
  /\ j.pc = "session" => j.op \in {"login", "change"}
  /\ j.late => abused

(* A login that is over, with nothing left to bring it back.                *)
Closed(f) ==
  /\ f \in Families /\ HasEnded(f) /\ ~ Rotating(f)
  /\ \A t \in InFamily(f) : tokens[t].reason # LIVE

SessionsInv ==
  /\ account \in AccountSet
  /\ tokens \in Seq(TokenSet)
  /\ \A t \in Tokens : TokenInv(t)
  /\ FamiliesInv
  /\ jobs \in [Requests -> JobSet]
  /\ \A r \in Requests : JobInv(r)
  /\ held \subseteq Tokens
  /\ revoked \in 0..account.version
  /\ abused \in BOOLEAN
  /\ \A f \in ended : Closed(f)
  /\ NoRefreshEscapes

-----------------------------------------------------------------------------
(* What steps have in common.                                               *)

(* No token is lost, and only a live one changes its reason.                *)
TokensLast ==
  /\ tokens' \in Seq(TokenSet) /\ Tokens \subseteq Tokens'
  /\ \A t \in Tokens :
       /\ tokens'[t].family = tokens[t].family /\ tokens'[t].since = tokens[t].since
       /\ tokens'[t].by = tokens[t].by
       /\ tokens[t].reason # LIVE => tokens'[t].reason = tokens[t].reason

LEMMA TokensAre ==
  ASSUME SessionsInv
  PROVE  /\ Tokens = 1..Len(tokens) /\ Len(tokens) \in Nat /\ None \notin Tokens
         /\ \A t \in Tokens : tokens[t] \in TokenSet /\ tokens[t].family \in Nat
<1>1. tokens \in Seq(TokenSet)
  BY DEF SessionsInv
<1>2. Tokens = 1..Len(tokens) /\ Len(tokens) \in Nat /\ \A t \in Tokens : tokens[t] \in TokenSet
  BY <1>1 DEF Tokens
<1> QED
  BY <1>2 DEF None, TokenSet

LEMMA SameTokens ==
  ASSUME SessionsInv, UNCHANGED tokens, abused => abused'
  PROVE  TokensLast /\ Tokens' = Tokens /\ FamiliesInv' /\ \A t \in Tokens' : TokenInv(t)'
<1>1. \A f : Deserved(f) => Deserved(f)'
  BY DEF Deserved, InFamily, Tokens
<1>2. Tokens' = Tokens /\ FamiliesInv'
  BY DEF Tokens, Families, FamiliesInv, SessionsInv
<1>3. \A t \in Tokens' : TokenInv(t)'
  BY <1>1, <1>2 DEF TokenInv, SessionsInv
<1> QED
  BY <1>2, <1>3 DEF TokensLast, SessionsInv

LEMMA StillDeserved ==
  ASSUME TokensLast, abused => abused', NEW f, Deserved(f)
  PROVE  Deserved(f)'
  BY DEF TokensLast, Deserved, InFamily, SESSION_ENDING_REASONS, LIVE

LEMMA StillEnded ==
  ASSUME TokensLast, NEW f, HasEnded(f)
  PROVE  HasEnded(f)'
  BY DEF TokensLast, HasEnded, InFamily, SESSION_ENDING_REASONS, LIVE

(* Documents changed in place.                                              *)
LEMMA InPlace ==
  ASSUME SessionsInv, tokens' \in [Tokens -> TokenSet], abused => abused',
         \A t \in Tokens :
           /\ tokens'[t].family = tokens[t].family /\ tokens'[t].since = tokens[t].since
           /\ tokens'[t].by = tokens[t].by
           /\ tokens[t].reason # LIVE => tokens'[t].reason = tokens[t].reason
           /\ tokens'[t].next \in Tokens \cup {None}
           /\ tokens'[t].reason = LIVE => tokens'[t].next = None /\ ~ tokens'[t].late
           /\ tokens'[t].reason = "REUSE_DETECTED" => Deserved(tokens[t].family)
  PROVE  TokensLast /\ Tokens' = Tokens /\ FamiliesInv' /\ \A t \in Tokens' : TokenInv(t)'
<1>1. Tokens = 1..Len(tokens) /\ Len(tokens) \in Nat
  BY TokensAre
<1>2. tokens' \in Seq(TokenSet) /\ Tokens' = Tokens
  BY <1>1, SMT DEF Tokens
<1>3. TokensLast
  BY <1>2 DEF TokensLast
<1>4. \A t \in Tokens' : TokenInv(t)'
  BY <1>2, <1>3, StillDeserved DEF TokenInv
<1>5. Families' = Families
  BY <1>2, Zenon DEF Families
<1>6. FamiliesInv'
  BY <1>5 DEF FamiliesInv, SessionsInv
<1> QED
  BY <1>2, <1>3, <1>4, <1>6

(* issueRefreshToken, for a login there is or for the next one.             *)
LEMMA Added ==
  ASSUME SessionsInv, UNCHANGED abused, NEW f, NEW op \in Operations, NEW v \in Nat,
         f \in Families \/ f = Cardinality(Families) + 1,
         tokens' = Append(tokens, Token(f, op, v))
  PROVE  /\ TokensLast /\ Tokens' = Tokens \cup {Len(tokens) + 1} /\ FamiliesInv'
         /\ \A t \in Tokens' : TokenInv(t)'
         /\ tokens'[Len(tokens) + 1] = Token(f, op, v)
         /\ f \notin Families => \A t \in Tokens : tokens[t].family # f
<1>1. /\ Tokens = 1..Len(tokens) /\ Len(tokens) \in Nat /\ None \notin Tokens
      /\ \A t \in Tokens : tokens[t].family \in Nat
  BY TokensAre
<1>2. PICK n \in Nat : Families = 1..n
  BY DEF SessionsInv, FamiliesInv
<1>3. f \in Nat /\ (f \in Families \/ f = n + 1)
  <2>1. Cardinality(1..n) = n
    BY FS_Interval
  <2> QED
    BY <1>2, <2>1
<1>4. Token(f, op, v) \in TokenSet
  BY <1>3, SMT DEF Token, TokenSet, Reasons, LIVE, None
<1>5. /\ tokens' \in Seq(TokenSet) /\ Tokens' = Tokens \cup {Len(tokens) + 1}
      /\ \A t \in Tokens : tokens'[t] = tokens[t]
      /\ tokens'[Len(tokens) + 1] = Token(f, op, v)
  BY <1>1, <1>4, SMT DEF Tokens, SessionsInv
<1>6. TokensLast
  BY <1>5 DEF TokensLast
<1>7. \A t \in Tokens' : TokenInv(t)'
  <2>1. \A t \in Tokens : TokenInv(t)'
    BY <1>5, <1>6, StillDeserved DEF TokenInv, SessionsInv
  <2>2. ASSUME NEW t, t = Len(tokens) + 1 PROVE TokenInv(t)'
    BY <1>5, <2>2, SMT DEF TokenInv, Token, LIVE
  <2> QED
    BY <1>5, <2>1, <2>2
<1>8. Families' = Families \cup {f}
  BY <1>1, <1>5 DEF Families, Token
<1>9. FamiliesInv'
  <2>1. Families' = 1..n \/ Families' = 1..(n + 1)
    BY <1>2, <1>3, <1>8
  <2> QED
    BY <2>1 DEF FamiliesInv
<1>10. f \notin Families => \A t \in Tokens : tokens[t].family # f
  BY DEF Families
<1> QED
  BY <1>5, <1>6, <1>7, <1>9, <1>10

-----------------------------------------------------------------------------
(* What a step of one request leaves to show.                               *)

OthersWait(r) ==
  jobs' \in [Requests -> JobSet] /\ \A q \in Requests : q # r => jobs'[q] = jobs[q]

LEMMA OthersKept ==
  ASSUME SessionsInv, NEW r, NEW q \in Requests, q # r, OthersWait(r), TokensLast,
         account' \in AccountSet, account.version <= account'.version, abused => abused'
  PROVE  JobInv(q)'
<1>1. jobs'[q] = jobs[q] /\ jobs[q] \in JobSet /\ JobInv(q)
  BY DEF OthersWait, SessionsInv
<1>2. Tokens \subseteq Tokens' /\ \A f : Deserved(f) => Deserved(f)'
  BY StillDeserved DEF TokensLast
<1>3. jobs[q].seen <= account'.version
  <2>1. jobs[q].seen \in Nat /\ account.version \in Nat /\ account'.version \in Nat
    BY <1>1, SMT DEF JobSet, AccountSet, SessionsInv
  <2> QED
    BY <1>1, <2>1 DEF JobInv
<1> QED
  BY <1>1, <1>2, <1>3 DEF JobInv, TokensLast, RefreshSteps, LIVE

(* No request brings back a login that is over.                             *)
LEMMA ClosedKept ==
  ASSUME SessionsInv, NEW r, OthersWait(r), TokensLast,
         \A t \in Tokens' \ Tokens : tokens'[t].family \notin ended,
         r \in Requests /\ jobs'[r].pc \in {"issue", "regrant"} =>
           jobs'[r].token \in Tokens /\ tokens[jobs'[r].token].family \notin ended,
         NEW f \in ended
  PROVE  Closed(f)'
<1>1. Closed(f)
  BY DEF SessionsInv
<1>2. HasEnded(f)'
  BY <1>1, StillEnded DEF Closed
<1>3. f \in Families'
  BY <1>1 DEF Closed, Families, TokensLast
<1>4. \A t \in InFamily(f)' : tokens'[t].reason # LIVE
  BY <1>1 DEF Closed, InFamily, TokensLast
<1>5. ASSUME NEW q \in Requests, jobs'[q].pc \in {"issue", "regrant"} PROVE tokens'[jobs'[q].token].family # f
  <2>1. CASE q = r
    BY <1>5, <2>1 DEF TokensLast
  <2>2. CASE q # r
    <3>1. jobs'[q] = jobs[q] /\ jobs[q].token \in Tokens
      BY <1>5, <2>2 DEF OthersWait, SessionsInv, JobInv, RefreshSteps
    <3>2. tokens[jobs[q].token].family # f
      BY <1>1, <1>5, <3>1 DEF Closed, Rotating
    <3> QED
      BY <3>1, <3>2 DEF TokensLast
  <2> QED
    BY <2>1, <2>2
<1> QED
  BY <1>2, <1>3, <1>4, <1>5 DEF Closed, Rotating

LEMMA StepKeeps ==
  ASSUME SessionsInv, NEW r, OthersWait(r), r \in Requests => JobInv(r)',
         TokensLast, FamiliesInv', \A t \in Tokens' : TokenInv(t)',
         \A t \in Tokens' \ Tokens : tokens'[t].family \notin ended,
         r \in Requests /\ jobs'[r].pc \in {"issue", "regrant"} =>
           jobs'[r].token \in Tokens /\ tokens[jobs'[r].token].family \notin ended,
         account' \in AccountSet, account.version <= account'.version,
         abused => abused', abused' \in BOOLEAN,
         \A f \in ended' : f \notin ended => Closed(f)',
         held' \subseteq Tokens', revoked' \in 0..account'.version, NoRefreshEscapes'
  PROVE  SessionsInv'
<1>1. \A q \in Requests : JobInv(q)'
  BY OthersKept
<1>2. \A f \in ended' : Closed(f)'
  BY ClosedKept
<1> QED
  BY <1>1, <1>2 DEF SessionsInv, TokensLast, OthersWait

(* Nothing handed out, and nothing revoked for all logins.                  *)
LEMMA NothingNew ==
  ASSUME SessionsInv, TokensLast, UNCHANGED <<held, revoked>>
  PROVE  held' \subseteq Tokens' /\ NoRefreshEscapes'
  BY DEF SessionsInv, TokensLast, NoRefreshEscapes

LEMMA AccountIs ==
  ASSUME SessionsInv
  PROVE  account \in AccountSet /\ account.version \in Nat
  BY SMT DEF SessionsInv, AccountSet

LEMMA SetSuspended ==
  ASSUME NEW a \in AccountSet, NEW x \in BOOLEAN
  PROVE  LET b == [a EXCEPT !.suspended = x] IN b \in AccountSet /\ b.version = a.version
  BY SMT DEF AccountSet

LEMMA SameAccount ==
  ASSUME SessionsInv, UNCHANGED account
  PROVE  account' \in AccountSet /\ account.version <= account'.version /\ account.version \in Nat
  BY SMT DEF SessionsInv, AccountSet

(* A step that leaves account, held and the logins over as they are.        *)
LEMMA QuietKeeps ==
  ASSUME SessionsInv, NEW r, OthersWait(r), r \in Requests => JobInv(r)',
         TokensLast, FamiliesInv', \A t \in Tokens' : TokenInv(t)',
         \A t \in Tokens' \ Tokens : tokens'[t].family \notin ended,
         r \in Requests /\ jobs'[r].pc \in {"issue", "regrant"} =>
           jobs'[r].token \in Tokens /\ tokens[jobs'[r].token].family \notin ended,
         UNCHANGED <<account, held, revoked>>, abused => abused', abused' \in BOOLEAN,
         \A f \in ended' : f \notin ended => Closed(f)'
  PROVE  SessionsInv'
<1>1. revoked' \in 0..account'.version
  BY DEF SessionsInv
<1> QED
  BY <1>1, SameAccount, NothingNew, StepKeeps

-----------------------------------------------------------------------------
(* One field of a request at a time.                                        *)

LEMMA JobIs ==
  ASSUME NEW J \in [Requests -> JobSet], NEW r \in Requests, NEW j \in JobSet
  PROVE  /\ [J EXCEPT ![r] = j] \in [Requests -> JobSet]
         /\ \A q \in Requests : q # r => [J EXCEPT ![r] = j][q] = J[q]
         /\ [J EXCEPT ![r] = j][r] = j
  BY Zenon

LEMMA JobTyped ==
  ASSUME NEW j \in JobSet
  PROVE  /\ j.op \in Operations \cup {"none"} /\ j.pc \in Steps
         /\ j.token \in Nat /\ j.seen \in Nat /\ j.got \in Nat /\ j.next \in Nat
         /\ j.late \in BOOLEAN
  BY SMT DEF JobSet

LEMMA SetPc ==
  ASSUME NEW j \in JobSet, NEW pc \in Steps
  PROVE  LET k == [j EXCEPT !.pc = pc] IN
         /\ k \in JobSet /\ k.pc = pc /\ k.op = j.op /\ k.token = j.token /\ k.seen = j.seen
         /\ k.got = j.got /\ k.next = j.next /\ k.late = j.late
  BY SMT DEF JobSet

LEMMA SetGot ==
  ASSUME NEW j \in JobSet, NEW got \in Nat
  PROVE  LET k == [j EXCEPT !.got = got] IN
         /\ k \in JobSet /\ k.pc = j.pc /\ k.op = j.op /\ k.token = j.token /\ k.seen = j.seen
         /\ k.got = got /\ k.next = j.next /\ k.late = j.late
  BY SMT DEF JobSet

LEMMA SetNext ==
  ASSUME NEW j \in JobSet, NEW next \in Nat
  PROVE  LET k == [j EXCEPT !.next = next] IN
         /\ k \in JobSet /\ k.pc = j.pc /\ k.op = j.op /\ k.token = j.token /\ k.seen = j.seen
         /\ k.got = j.got /\ k.next = next /\ k.late = j.late
  BY SMT DEF JobSet

LEMMA SetSeen ==
  ASSUME NEW j \in JobSet, NEW seen \in Nat
  PROVE  LET k == [j EXCEPT !.seen = seen] IN
         /\ k \in JobSet /\ k.pc = j.pc /\ k.op = j.op /\ k.token = j.token /\ k.seen = seen
         /\ k.got = j.got /\ k.next = j.next /\ k.late = j.late
  BY SMT DEF JobSet

LEMMA SetToken ==
  ASSUME NEW j \in JobSet, NEW token \in Nat
  PROVE  LET k == [j EXCEPT !.token = token] IN
         /\ k \in JobSet /\ k.pc = j.pc /\ k.op = j.op /\ k.token = token /\ k.seen = j.seen
         /\ k.got = j.got /\ k.next = j.next /\ k.late = j.late
  BY SMT DEF JobSet

LEMMA SetNoted ==
  ASSUME NEW j \in JobSet, NEW late \in BOOLEAN
  PROVE  LET k == [j EXCEPT !.late = late] IN
         /\ k \in JobSet /\ k.pc = j.pc /\ k.op = j.op /\ k.token = j.token /\ k.seen = j.seen
         /\ k.got = j.got /\ k.next = j.next /\ k.late = late
  BY SMT DEF JobSet

LEMMA SetOp ==
  ASSUME NEW j \in JobSet, NEW op \in Operations
  PROVE  LET k == [j EXCEPT !.op = op] IN
         /\ k \in JobSet /\ k.pc = j.pc /\ k.op = op /\ k.token = j.token /\ k.seen = j.seen
         /\ k.got = j.got /\ k.next = j.next /\ k.late = j.late
  BY SMT DEF JobSet

LEMMA IdleIs == Idle \in JobSet /\ Over \in JobSet /\ Over.pc = "done" /\ Over.op = "none"
                /\ Over.token = None /\ Over.got = None /\ Over.next = None /\ Over.seen = 0
                /\ Over.late = FALSE
<1>1. Idle \in JobSet
  BY SMT DEF Idle, JobSet, Steps, None
<1>2. "done" \in Steps
  BY DEF Steps
<1>3. /\ Idle.op = "none" /\ Idle.token = None /\ Idle.got = None /\ Idle.next = None
      /\ Idle.seen = 0 /\ Idle.late = FALSE
  BY DEF Idle
<1> QED
  BY <1>1, <1>2, <1>3, SetPc, Zenon DEF Over

LEMMA GotoIs ==
  ASSUME SessionsInv, NEW r \in Requests, NEW step \in Steps, Goto(r, step)
  PROVE  /\ OthersWait(r)
         /\ LET k == jobs'[r] j == jobs[r] IN
            /\ k.pc = step /\ k.op = j.op /\ k.token = j.token /\ k.seen = j.seen
            /\ k.got = j.got /\ k.next = j.next /\ k.late = j.late
<1>1. jobs \in [Requests -> JobSet] /\ jobs[r] \in JobSet
  BY DEF SessionsInv
<1>2. jobs' = [jobs EXCEPT ![r] = [jobs[r] EXCEPT !.pc = step]]
  BY DEF Goto
<1>3. [jobs[r] EXCEPT !.pc = step] \in JobSet
  BY <1>1, SetPc
<1>4. OthersWait(r) /\ jobs'[r] = [jobs[r] EXCEPT !.pc = step]
  BY <1>1, <1>2, <1>3, JobIs, Zenon DEF OthersWait
<1> QED
  BY <1>1, <1>4, SetPc

LEMMA FinishIs ==
  ASSUME SessionsInv, NEW r \in Requests, Finish(r), account'.version \in Nat
  PROVE  OthersWait(r) /\ jobs'[r].pc = "done" /\ JobInv(r)'
<1>1. jobs \in [Requests -> JobSet]
  BY DEF SessionsInv
<1>2. OthersWait(r) /\ jobs'[r] = Over
  BY <1>1, IdleIs, JobIs, Zenon DEF Finish, OthersWait
<1> QED
  BY <1>2, IdleIs, SMT DEF JobInv, RefreshSteps

-----------------------------------------------------------------------------
(* One field of a token at a time.                                          *)

LEMMA SetReason ==
  ASSUME NEW d \in TokenSet, NEW reason \in Reasons
  PROVE  LET e == [d EXCEPT !.reason = reason] IN
         /\ e \in TokenSet /\ e.reason = reason /\ e.family = d.family /\ e.next = d.next
         /\ e.late = d.late /\ e.by = d.by /\ e.since = d.since
  BY SMT DEF TokenSet

LEMMA SetLink ==
  ASSUME NEW d \in TokenSet, NEW next \in Nat
  PROVE  LET e == [d EXCEPT !.next = next] IN
         /\ e \in TokenSet /\ e.reason = d.reason /\ e.family = d.family /\ e.next = next
         /\ e.late = d.late /\ e.by = d.by /\ e.since = d.since
  BY SMT DEF TokenSet

LEMMA SetLate ==
  ASSUME NEW d \in TokenSet, NEW late \in BOOLEAN
  PROVE  LET e == [d EXCEPT !.late = late] IN
         /\ e \in TokenSet /\ e.reason = d.reason /\ e.family = d.family /\ e.next = d.next
         /\ e.late = late /\ e.by = d.by /\ e.since = d.since
  BY SMT DEF TokenSet

LEMMA OneToken ==
  ASSUME SessionsInv, UNCHANGED abused, NEW t \in Tokens, NEW d \in TokenSet,
         tokens' = [tokens EXCEPT ![t] = d],
         d.family = tokens[t].family, d.since = tokens[t].since, d.by = tokens[t].by,
         tokens[t].reason # LIVE => d.reason = tokens[t].reason,
         d.reason = LIVE => d.next = None /\ ~ d.late, d.next \in Tokens \cup {None},
         d.reason = "REUSE_DETECTED" => tokens[t].reason = "REUSE_DETECTED"
  PROVE  /\ TokensLast /\ Tokens' = Tokens /\ FamiliesInv' /\ \A u \in Tokens' : TokenInv(u)'
         /\ tokens'[t] = d
<1>1. \A u \in Tokens : tokens[u] \in TokenSet /\ TokenInv(u)
  BY TokensAre DEF SessionsInv
<1>2. /\ tokens' \in [Tokens -> TokenSet] /\ tokens'[t] = d
      /\ \A u \in Tokens : u # t => tokens'[u] = tokens[u]
  <2>1. tokens \in [Tokens -> TokenSet]
    BY <1>1, TokensAre, SMT DEF SessionsInv, Tokens
  <2> QED
    BY <2>1, Zenon
<1>3. \A u \in Tokens :
           /\ tokens'[u].family = tokens[u].family /\ tokens'[u].since = tokens[u].since
           /\ tokens'[u].by = tokens[u].by
           /\ tokens[u].reason # LIVE => tokens'[u].reason = tokens[u].reason
           /\ tokens'[u].next \in Tokens \cup {None}
           /\ tokens'[u].reason = LIVE => tokens'[u].next = None /\ ~ tokens'[u].late
           /\ tokens'[u].reason = "REUSE_DETECTED" => Deserved(tokens[u].family)
  BY <1>1, <1>2 DEF TokenInv
<1> QED
  BY <1>2, <1>3, InPlace

(* Tokens revoked together.                                                 *)
LEMMA RevokeIs ==
  ASSUME SessionsInv, UNCHANGED abused, NEW S \in SUBSET Tokens, NEW reason \in Reasons \ {LIVE},
         Revoke(S, reason), reason = "REUSE_DETECTED" => \A t \in S : Deserved(tokens[t].family)
  PROVE  /\ TokensLast /\ Tokens' = Tokens /\ FamiliesInv' /\ \A u \in Tokens' : TokenInv(u)'
         /\ \A t \in S : tokens'[t].reason # LIVE
         /\ \A t \in S : tokens[t].reason = LIVE => tokens'[t].reason = reason
<1>1. \A t \in Tokens : tokens[t] \in TokenSet /\ TokenInv(t)
  BY TokensAre DEF SessionsInv
<1>2. ASSUME NEW t \in Tokens
      PROVE  /\ tokens'[t] \in TokenSet /\ tokens'[t].family = tokens[t].family
             /\ tokens'[t].since = tokens[t].since /\ tokens'[t].by = tokens[t].by
             /\ tokens'[t].next = tokens[t].next /\ tokens'[t].late = tokens[t].late
             /\ tokens'[t].reason = IF t \in S /\ tokens[t].reason = LIVE THEN reason
                                                                          ELSE tokens[t].reason
  <2>1. tokens'[t] = IF t \in S /\ tokens[t].reason = LIVE THEN [tokens[t] EXCEPT !.reason = reason]
                                                           ELSE tokens[t]
    BY DEF Revoke
  <2> QED
    BY <1>1, <2>1, SetReason
<1>3. tokens' \in [Tokens -> TokenSet]
  <2>1. tokens' = [t \in Tokens |-> tokens'[t]]
    BY DEF Revoke
  <2> QED
    BY <1>2, <2>1
<1>4. \A t \in Tokens :
           /\ tokens'[t].family = tokens[t].family /\ tokens'[t].since = tokens[t].since
           /\ tokens'[t].by = tokens[t].by
           /\ tokens[t].reason # LIVE => tokens'[t].reason = tokens[t].reason
           /\ tokens'[t].next \in Tokens \cup {None}
           /\ tokens'[t].reason = LIVE => tokens'[t].next = None /\ ~ tokens'[t].late
           /\ tokens'[t].reason = "REUSE_DETECTED" => Deserved(tokens[t].family)
  BY <1>1, <1>2 DEF TokenInv
<1> QED
  BY <1>2, <1>3, <1>4, InPlace

(* The logins that end with them are over.                                  *)
LEMMA EndedIs ==
  ASSUME SessionsInv, UNCHANGED abused, NEW S \in SUBSET Tokens, NEW reason \in Reasons \ {LIVE},
         Revoke(S, reason), reason = "REUSE_DETECTED" => \A t \in S : Deserved(tokens[t].family),
         \A t \in S, u \in Tokens : tokens[u].family = tokens[t].family => u \in S,
         NoteEnded(S, reason), NEW r \in Requests, OthersWait(r),
         jobs'[r].pc \notin {"issue", "regrant"}
  PROVE  \A f \in ended' : f \notin ended => Closed(f)'
<1> SUFFICES ASSUME NEW f \in ended', f \notin ended PROVE Closed(f)'
  OBVIOUS
<1>1. /\ reason \in SESSION_ENDING_REASONS /\ f \in Families /\ ~ Rotating(f)
      /\ \E t \in S \cap InFamily(f) : tokens[t].reason = LIVE
  BY DEF NoteEnded
<1>2. /\ TokensLast /\ Tokens' = Tokens /\ \A t \in S : tokens'[t].reason # LIVE
      /\ \A t \in S : tokens[t].reason = LIVE => tokens'[t].reason = reason
  BY RevokeIs
<1>3. HasEnded(f)'
  BY <1>1, <1>2 DEF HasEnded, InFamily, TokensLast
<1>4. \A t \in InFamily(f)' : tokens'[t].reason # LIVE
  BY <1>1, <1>2 DEF InFamily, TokensLast
<1>5. f \in Families'
  BY <1>1, <1>2 DEF Families, TokensLast
<1>6. ASSUME NEW q \in Requests, jobs'[q].pc \in {"issue", "regrant"}
      PROVE  tokens'[jobs'[q].token].family # f
  <2>1. jobs'[q] = jobs[q] /\ jobs[q].token \in Tokens
    BY <1>6 DEF OthersWait, SessionsInv, JobInv, RefreshSteps
  <2> QED
    BY <1>1, <1>2, <1>6, <2>1 DEF Rotating, TokensLast
<1> QED
  BY <1>3, <1>4, <1>5, <1>6 DEF Closed, Rotating

-----------------------------------------------------------------------------
(* Refreshing.                                                              *)

LEMMA ClaimKeeps ==
  ASSUME SessionsInv, NEW r \in Requests, Claim(r)
  PROVE  SessionsInv'
<1> DEFINE t == jobs[r].token
<1>1. /\ t \in Tokens /\ JobInv(r) /\ jobs[r].op = "refresh"
      /\ UNCHANGED <<account, held, revoked, abused>> /\ ended' = ended /\ abused \in BOOLEAN
      /\ tokens[t] \in TokenSet /\ TokenInv(t)
  BY TokensAre DEF Claim, At, SessionsInv, JobInv, RefreshSteps
<1>2. CASE tokens[t].reason = LIVE
  <2> DEFINE d == [tokens[t] EXCEPT !.reason = "ROTATED"]
  <2>1. /\ d \in TokenSet /\ d.reason = "ROTATED" /\ d.family = tokens[t].family
        /\ d.next = tokens[t].next /\ d.by = tokens[t].by /\ d.since = tokens[t].since
    BY <1>1, SetReason DEF Reasons
  <2>2. tokens' = [tokens EXCEPT ![t] = d] /\ Goto(r, "issue")
    BY <1>2 DEF Claim
  <2> HIDE DEF d
  <2>3. TokensLast /\ Tokens' = Tokens /\ FamiliesInv' /\ (\A u \in Tokens' : TokenInv(u)') /\ tokens'[t] = d
    BY <1>1, <1>2, <2>1, <2>2, OneToken, Zenon DEF TokenInv, LIVE, SESSION_ENDING_REASONS
  <2>4. /\ OthersWait(r) /\ jobs'[r].pc = "issue" /\ jobs'[r].op = "refresh" /\ jobs'[r].token = t
        /\ jobs'[r].seen = jobs[r].seen /\ jobs'[r].got = jobs[r].got /\ jobs'[r].next = jobs[r].next
        /\ jobs'[r].late = jobs[r].late
    BY <1>1, <2>2, GotoIs DEF Steps
  <2>5. JobInv(r)'
    BY <1>1, <2>1, <2>3, <2>4 DEF JobInv, RefreshSteps, LIVE
  <2>6. tokens[t].family \notin ended
    BY <1>1, <1>2 DEF SessionsInv, Closed, InFamily
  <2> QED
    BY <1>1, <2>3, <2>4, <2>5, <2>6, QuietKeeps
<1>3. CASE tokens[t].reason # LIVE
  <2>1. UNCHANGED tokens /\ Goto(r, "existing")
    BY <1>3 DEF Claim
  <2>2. /\ OthersWait(r) /\ jobs'[r].pc = "existing" /\ jobs'[r].op = "refresh" /\ jobs'[r].token = t
        /\ jobs'[r].seen = jobs[r].seen /\ jobs'[r].got = jobs[r].got /\ jobs'[r].next = jobs[r].next
        /\ jobs'[r].late = jobs[r].late
    BY <1>1, <2>1, GotoIs DEF Steps
  <2>3. TokensLast /\ Tokens' = Tokens /\ FamiliesInv' /\ \A u \in Tokens' : TokenInv(u)'
    BY <1>1, <2>1, SameTokens
  <2>4. JobInv(r)'
    BY <1>1, <2>2, <2>3 DEF JobInv, RefreshSteps
  <2> QED
    BY <1>1, <2>2, <2>3, <2>4, QuietKeeps
<1> QED
  BY <1>2, <1>3

(* A step that moves a request on and changes nothing else.                 *)
LEMMA GoneKeeps ==
  ASSUME SessionsInv, NEW r \in Requests, NEW step \in Steps \ {"issue", "regrant"}, Goto(r, step),
         UNCHANGED <<account, tokens, held, ended, revoked, abused>>,
         step \in RefreshSteps => jobs[r].op = "refresh" /\ jobs[r].token \in Tokens,
         step # "link",
         step \in {"retire", "recheck", "disown"} =>
           jobs[r].got \in Tokens /\ tokens[jobs[r].got].since = jobs[r].seen,
         step = "retire" => jobs[r].next \in Tokens,
         step = "punish" => Deserved(tokens[jobs[r].token].family),
         step \notin {"bump", "audit", "session"},
         step = "revoke" => jobs[r].op \in {"refresh", "logoutAll", "change", "reset", "suspend"}
  PROVE  SessionsInv'
<1>1. JobInv(r) /\ abused \in BOOLEAN
  BY DEF SessionsInv
<1>2. /\ OthersWait(r)
      /\ LET k == jobs'[r] j == jobs[r] IN
            /\ k.pc = step /\ k.op = j.op /\ k.token = j.token /\ k.seen = j.seen
            /\ k.got = j.got /\ k.next = j.next /\ k.late = j.late
  BY GotoIs
<1>3. TokensLast /\ Tokens' = Tokens /\ FamiliesInv' /\ \A u \in Tokens' : TokenInv(u)'
  BY SameTokens
<1>4. \A f : Deserved(f) => Deserved(f)'
  BY <1>3, StillDeserved
<1>5. JobInv(r)'
  BY <1>1, <1>2, <1>3, <1>4 DEF JobInv
<1> QED
  BY <1>1, <1>2, <1>3, <1>5, QuietKeeps

LEMMA ExistingKeeps ==
  ASSUME SessionsInv, NEW r \in Requests, Existing(r)
  PROVE  SessionsInv'
<1> DEFINE t == jobs[r].token
<1>1. /\ t \in Tokens /\ JobInv(r) /\ jobs[r].op = "refresh" /\ jobs[r].pc = "existing"
      /\ UNCHANGED <<account, tokens, held, ended, revoked, abused>> /\ abused \in BOOLEAN
      /\ tokens[t] \in TokenSet /\ TokenInv(t) /\ account.version \in Nat
  BY TokensAre, SameAccount DEF Existing, At, SessionsInv, JobInv, RefreshSteps
<1>2. TokensLast /\ Tokens' = Tokens /\ FamiliesInv' /\ \A u \in Tokens' : TokenInv(u)'
  BY <1>1, SameTokens
<1>3. CASE jobs' = [jobs EXCEPT ![r].pc = "ended?", ![r].next = tokens[t].next]
  <2> DEFINE j == [jobs[r] EXCEPT !.pc = "ended?"]
             k == [j EXCEPT !.next = tokens[t].next]
  <2>1. jobs' = [jobs EXCEPT ![r] = k]
    BY <1>3, Zenon
  <2>2. /\ jobs \in [Requests -> JobSet] /\ jobs[r] \in JobSet
        /\ tokens[t].next \in Nat /\ tokens[t].next \in Tokens \cup {None}
    BY <1>1, SMT DEF SessionsInv, TokenSet, TokenInv
  <2>3. /\ j \in JobSet /\ j.pc = "ended?" /\ j.op = "refresh" /\ j.token = t
        /\ j.seen = jobs[r].seen /\ j.got = jobs[r].got /\ j.late = jobs[r].late
    <3>1. "ended?" \in Steps
      BY DEF Steps
    <3> QED
      BY <1>1, <2>2, <3>1, SetPc, Zenon
  <2> HIDE DEF j
  <2>4. /\ k \in JobSet /\ k.pc = "ended?" /\ k.op = "refresh" /\ k.token = t
        /\ k.seen = jobs[r].seen /\ k.got = jobs[r].got /\ k.late = jobs[r].late
        /\ k.next \in Tokens \cup {None}
    BY <2>2, <2>3, SetNext
  <2> HIDE DEF k
  <2>5. OthersWait(r) /\ jobs'[r] = k
    BY <2>1, <2>2, <2>4, JobIs, Zenon DEF OthersWait
  <2>6. JobInv(r)'
    BY <1>1, <1>2, <2>4, <2>5 DEF JobInv, RefreshSteps
  <2> QED
    BY <1>1, <1>2, <2>4, <2>5, <2>6, QuietKeeps
<1>4. CASE /\ tokens[t].reason = "REUSE_DETECTED" \/ (tokens[t].reason = "ROTATED" /\ jobs[r].late)
           /\ Goto(r, "punish")
  <2>1. Deserved(tokens[t].family)
    BY <1>1, <1>4 DEF JobInv, TokenInv, Deserved
  <2> QED
    BY <1>1, <1>4, <2>1, GoneKeeps DEF Steps
<1>5. CASE Finish(r)
  BY <1>1, <1>2, <1>5, FinishIs, QuietKeeps
<1> QED
  BY <1>3, <1>4, <1>5 DEF Existing

LEMMA SessionEndedKeeps ==
  ASSUME SessionsInv, NEW r \in Requests, SessionEnded(r)
  PROVE  SessionsInv'
<1> DEFINE t == jobs[r].token
<1>1. /\ t \in Tokens /\ JobInv(r) /\ jobs[r].op = "refresh"
      /\ UNCHANGED <<account, tokens, held, ended, revoked, abused>> /\ abused \in BOOLEAN
  BY DEF SessionEnded, At, SessionsInv, JobInv, RefreshSteps
<1>2. CASE HasEnded(tokens[t].family)
  <2>1. PICK u \in InFamily(tokens[t].family) : tokens[u].reason \in SESSION_ENDING_REASONS
    BY <1>2 DEF HasEnded
  <2>2. Deserved(tokens[t].family)
    BY <2>1 DEF SessionsInv, TokenInv, Deserved, InFamily
  <2>3. Goto(r, "punish")
    BY <1>2 DEF SessionEnded
  <2> QED
    BY <1>1, <2>2, <2>3, GoneKeeps DEF Steps
<1>3. CASE ~ HasEnded(tokens[t].family)
  <2>1. TokensLast /\ Tokens' = Tokens /\ FamiliesInv' /\ \A u \in Tokens' : TokenInv(u)'
    BY <1>1, SameTokens
  <2>2. tokens[t].family \notin ended
    BY <1>3 DEF SessionsInv, Closed
  <2>3. /\ OthersWait(r) /\ jobs'[r].pc = "regrant" /\ jobs'[r].op = "refresh" /\ jobs'[r].token = t
        /\ jobs'[r].seen = jobs[r].seen /\ jobs'[r].got = jobs[r].got /\ jobs'[r].next = jobs[r].next
        /\ jobs'[r].late = jobs[r].late
    BY <1>1, <1>3, GotoIs DEF Steps, SessionEnded
  <2>4. JobInv(r)'
    BY <1>1, <2>1, <2>3 DEF JobInv, RefreshSteps
  <2> QED
    BY <1>1, <2>1, <2>2, <2>3, <2>4, QuietKeeps
<1> QED
  BY <1>2, <1>3

LEMMA LinkKeeps ==
  ASSUME SessionsInv, NEW r \in Requests, Link(r)
  PROVE  SessionsInv'
<1> DEFINE t == jobs[r].token got == jobs[r].got
<1>1. /\ t \in Tokens /\ JobInv(r) /\ jobs[r].op = "refresh" /\ got \in Tokens
      /\ tokens[got].since = jobs[r].seen /\ tokens[t].reason # LIVE
      /\ UNCHANGED <<account, held, revoked, abused>> /\ ended' = ended /\ abused \in BOOLEAN
      /\ tokens[t] \in TokenSet /\ TokenInv(t) /\ got \in Nat
  BY TokensAre DEF Link, At, SessionsInv, JobInv, RefreshSteps
<1> DEFINE d == [tokens[t] EXCEPT !.next = got]
<1>2. /\ d \in TokenSet /\ d.reason = tokens[t].reason /\ d.family = tokens[t].family
      /\ d.next = got /\ d.by = tokens[t].by /\ d.since = tokens[t].since
  BY <1>1, SetLink
<1>3. tokens' = [tokens EXCEPT ![t] = d] /\ Goto(r, "recheck")
  BY DEF Link
<1> HIDE DEF d
<1>4. /\ OthersWait(r) /\ jobs'[r].pc = "recheck" /\ jobs'[r].op = "refresh" /\ jobs'[r].token = t
      /\ jobs'[r].seen = jobs[r].seen /\ jobs'[r].got = got /\ jobs'[r].next = jobs[r].next
      /\ jobs'[r].late = jobs[r].late
  BY <1>1, <1>3, GotoIs DEF Steps
<1>5. /\ TokensLast /\ Tokens' = Tokens /\ FamiliesInv' /\ \A u \in Tokens' : TokenInv(u)'
      /\ tokens'[t] = d
  <2>1. /\ UNCHANGED abused /\ t \in Tokens /\ tokens' = [tokens EXCEPT ![t] = d]
        /\ d.next \in Tokens \cup {None} /\ d.reason # LIVE
    BY <1>1, <1>2, <1>3
  <2>2. d \in TokenSet /\ d.reason = tokens[t].reason /\ d.family = tokens[t].family
        /\ d.by = tokens[t].by /\ d.since = tokens[t].since
    BY <1>2
  <2> QED
    BY <2>1, <2>2, OneToken, Zenon
<1>6. tokens'[got].since = tokens[got].since /\ tokens'[t].reason # LIVE
  BY <1>1, <1>2, <1>5 DEF TokensLast
<1>7. JobInv(r)'
  BY <1>1, <1>4, <1>5, <1>6 DEF JobInv, RefreshSteps
<1> QED
  BY <1>1, <1>4, <1>5, <1>7, QuietKeeps

LEMMA GotIs ==
  ASSUME SessionsInv, NEW r \in Requests, NEW step \in Steps, Got(r, step)
  PROVE  /\ OthersWait(r)
         /\ LET k == jobs'[r] j == jobs[r] IN
            /\ k.pc = step /\ k.op = j.op /\ k.token = j.token /\ k.seen = j.seen
            /\ k.got = Len(tokens) + 1 /\ k.next = j.next /\ k.late = j.late
<1> DEFINE g == [jobs[r] EXCEPT !.got = Len(tokens) + 1]
<1>1. jobs \in [Requests -> JobSet] /\ jobs[r] \in JobSet /\ Len(tokens) + 1 \in Nat
  BY TokensAre DEF SessionsInv
<1>2. jobs' = [jobs EXCEPT ![r] = [g EXCEPT !.pc = step]]
  BY Zenon DEF Got
<1>3. /\ g \in JobSet /\ g.op = jobs[r].op /\ g.token = jobs[r].token /\ g.seen = jobs[r].seen
      /\ g.got = Len(tokens) + 1 /\ g.next = jobs[r].next /\ g.late = jobs[r].late
  BY <1>1, SetGot, Zenon
<1> HIDE DEF g
<1>4. [g EXCEPT !.pc = step] \in JobSet
  BY <1>3, SetPc, Zenon
<1>5. OthersWait(r) /\ jobs'[r] = [g EXCEPT !.pc = step]
  BY <1>1, <1>2, <1>4, JobIs, Zenon DEF OthersWait
<1> QED
  BY <1>3, <1>5, SetPc

(* A new token for the login of the one presented.                          *)
LEMMA IssueKeeps ==
  ASSUME SessionsInv, NEW r \in Requests, NEW step \in {"link", "retire", "recheck"},
         jobs[r].pc \in {"issue", "regrant"},
         Issue(r, tokens[jobs[r].token].family), Got(r, step),
         step = "link" => jobs[r].pc = "issue", step = "retire" => jobs[r].next # None,
         UNCHANGED <<account, held, ended, revoked, abused>>
  PROVE  SessionsInv'
<1> DEFINE t == jobs[r].token f == tokens[t].family n == Len(tokens) + 1
<1>1. /\ t \in Tokens /\ JobInv(r) /\ jobs[r].op = "refresh" /\ abused \in BOOLEAN
      /\ jobs[r].seen \in Nat /\ step \in Steps /\ jobs[r] \in JobSet
  BY JobTyped DEF SessionsInv, JobInv, RefreshSteps, Steps
<1>2. f \in Families
  BY <1>1 DEF Families
<1>3. f \notin ended
  BY <1>1 DEF SessionsInv, Closed, Rotating
<1>4. "refresh" \in Operations /\ tokens' = Append(tokens, Token(f, "refresh", jobs[r].seen))
  BY <1>1 DEF Operations, Issue
<1> HIDE DEF f
<1>5. /\ TokensLast /\ Tokens' = Tokens \cup {n} /\ FamiliesInv' /\ \A u \in Tokens' : TokenInv(u)'
      /\ tokens'[n] = Token(f, "refresh", jobs[r].seen)
  BY <1>1, <1>2, <1>4, Added
<1>6. /\ OthersWait(r) /\ jobs'[r].pc = step /\ jobs'[r].op = "refresh" /\ jobs'[r].token = t
      /\ jobs'[r].seen = jobs[r].seen /\ jobs'[r].got = n /\ jobs'[r].next = jobs[r].next
      /\ jobs'[r].late = jobs[r].late
  BY <1>1, GotIs
<1>7. tokens'[n].family = f /\ tokens'[n].since = jobs[r].seen
  BY <1>5 DEF Token
<1> HIDE DEF n
<1>8. step = "link" => tokens'[t].reason # LIVE
  BY <1>1, <1>5 DEF JobInv, TokensLast
<1>9. JobInv(r)'
  BY <1>1, <1>5, <1>6, <1>7, <1>8 DEF JobInv, RefreshSteps
<1> QED
  BY <1>1, <1>3, <1>5, <1>6, <1>7, <1>9, QuietKeeps

LEMMA ExchangeKeeps ==
  ASSUME SessionsInv, NEW r \in Requests, Exchange(r) \/ Regrant(r)
  PROVE  SessionsInv'
  BY IssueKeeps DEF Exchange, Regrant, At

LEMMA RetireKeeps ==
  ASSUME SessionsInv, NEW r \in Requests, Retire(r)
  PROVE  SessionsInv'
<1> DEFINE t == jobs[r].next got == jobs[r].got
<1>1. /\ t \in Tokens /\ JobInv(r) /\ jobs[r].op = "refresh" /\ got \in Tokens
      /\ tokens[got].since = jobs[r].seen /\ jobs[r].token \in Tokens
      /\ UNCHANGED <<account, held, revoked, abused>> /\ ended' = ended /\ abused \in BOOLEAN
      /\ tokens[t] \in TokenSet /\ TokenInv(t) /\ got \in Nat
  BY TokensAre DEF Retire, At, SessionsInv, JobInv, RefreshSteps
<1>2. Goto(r, "recheck")
  BY DEF Retire
<1>3. CASE tokens[t].reason = LIVE
  <2> DEFINE d == [tokens[t] EXCEPT !.reason = "ROTATED"]
             e == [d EXCEPT !.next = got]
  <2>1. tokens' = [tokens EXCEPT ![t] = e]
    <3>1. tokens' = [tokens EXCEPT ![t].reason = "ROTATED", ![t].next = got]
      BY <1>3 DEF Retire
    <3> QED
      BY <3>1, Zenon
  <2>2. /\ d \in TokenSet /\ d.reason = "ROTATED" /\ d.family = tokens[t].family
        /\ d.by = tokens[t].by /\ d.since = tokens[t].since
    BY <1>1, SetReason DEF Reasons
  <2> HIDE DEF d
  <2>3. /\ e \in TokenSet /\ e.reason = "ROTATED" /\ e.family = tokens[t].family
        /\ e.by = tokens[t].by /\ e.since = tokens[t].since /\ e.next = got
    BY <1>1, <2>2, SetLink
  <2> HIDE DEF e
  <2>4. TokensLast /\ Tokens' = Tokens /\ FamiliesInv' /\ \A u \in Tokens' : TokenInv(u)'
    BY <1>1, <1>3, <2>1, <2>3, OneToken, Zenon DEF LIVE
  <2>5. /\ OthersWait(r) /\ jobs'[r].pc = "recheck" /\ jobs'[r].op = "refresh"
        /\ jobs'[r].token = jobs[r].token /\ jobs'[r].seen = jobs[r].seen /\ jobs'[r].got = got
        /\ jobs'[r].next = t /\ jobs'[r].late = jobs[r].late
    BY <1>1, <1>2, GotoIs DEF Steps
  <2>6. JobInv(r)'
    BY <1>1, <2>4, <2>5 DEF JobInv, RefreshSteps, TokensLast
  <2> QED
    BY <1>1, <2>4, <2>5, <2>6, QuietKeeps
<1>4. CASE tokens[t].reason # LIVE
  <2>1. UNCHANGED tokens
    BY <1>4 DEF Retire
  <2> QED
    BY <1>1, <1>2, <2>1, GoneKeeps DEF Steps
<1> QED
  BY <1>3, <1>4

LEMMA DisownKeeps ==
  ASSUME SessionsInv, NEW r \in Requests, Disown(r)
  PROVE  SessionsInv'
<1>1. /\ jobs[r].got \in Tokens /\ abused \in BOOLEAN /\ Finish(r)
      /\ UNCHANGED <<account, held, ended, revoked, abused>>
      /\ Revoke({jobs[r].got}, "LOGOUT_ALL")
  BY DEF Disown, At, SessionsInv, JobInv
<1>2. "LOGOUT_ALL" \in Reasons \ {LIVE, "REUSE_DETECTED"} /\ {jobs[r].got} \subseteq Tokens
  BY <1>1 DEF Reasons, SESSION_ENDING_REASONS, LIVE
<1>3. TokensLast /\ Tokens' = Tokens /\ FamiliesInv' /\ \A u \in Tokens' : TokenInv(u)'
  BY <1>1, <1>2, RevokeIs
<1>4. OthersWait(r) /\ jobs'[r].pc = "done" /\ JobInv(r)'
  BY <1>1, SameAccount, FinishIs
<1> QED
  BY <1>1, <1>3, <1>4, QuietKeeps

(* revokeTokenFamily, of a login closed for reuse or signed out of.         *)
LEMMA CloseKeeps ==
  ASSUME SessionsInv, NEW r \in Requests, NEW f,
         NEW reason \in {"LOGOUT", "REUSE_DETECTED"}, reason = "REUSE_DETECTED" => Deserved(f),
         Revoke(InFamily(f), reason), NoteEnded(InFamily(f), reason), Finish(r),
         UNCHANGED <<account, held, revoked, abused>>
  PROVE  SessionsInv'
<1> DEFINE S == InFamily(f)
<1>1. S \subseteq Tokens /\ \A t \in S : tokens[t].family = f
  BY DEF InFamily
<1>2. reason \in Reasons \ {LIVE} /\ abused \in BOOLEAN
  BY DEF Reasons, SESSION_ENDING_REASONS, LIVE, SessionsInv
<1>3. \A t \in S, u \in Tokens : tokens[u].family = tokens[t].family => u \in S
  BY DEF InFamily
<1>4. TokensLast /\ Tokens' = Tokens /\ FamiliesInv' /\ \A u \in Tokens' : TokenInv(u)'
  BY <1>1, <1>2, RevokeIs
<1>5. OthersWait(r) /\ jobs'[r].pc = "done" /\ JobInv(r)'
  BY SameAccount, FinishIs
<1>6. \A g \in ended' : g \notin ended => Closed(g)'
  BY <1>1, <1>2, <1>3, <1>5, EndedIs
<1> QED
  BY <1>2, <1>4, <1>5, <1>6, QuietKeeps

LEMMA PunishKeeps ==
  ASSUME SessionsInv, NEW r \in Requests, Punish(r)
  PROVE  SessionsInv'
  BY CloseKeeps DEF Punish, At, SessionsInv, JobInv

LEMMA LogoutKeeps ==
  ASSUME SessionsInv, NEW r \in Requests, NEW t \in Tokens, Logout(r, t)
  PROVE  SessionsInv'
  BY CloseKeeps DEF Logout

LEMMA GraceKeeps ==
  ASSUME SessionsInv, NEW t \in Tokens, GraceEnds(t)
  PROVE  SessionsInv'
<1> DEFINE d == [tokens[t] EXCEPT !.late = TRUE]
<1>1. /\ tokens[t] \in TokenSet /\ TokenInv(t) /\ tokens[t].reason = "ROTATED" /\ abused \in BOOLEAN
      /\ UNCHANGED <<account, jobs, held, ended, revoked, abused>>
      /\ tokens' = [tokens EXCEPT ![t] = d]
  BY TokensAre DEF GraceEnds, SessionsInv
<1>2. /\ d \in TokenSet /\ d.reason = "ROTATED" /\ d.family = tokens[t].family
      /\ d.next = tokens[t].next /\ d.by = tokens[t].by /\ d.since = tokens[t].since
  BY <1>1, SetLate, Zenon
<1> HIDE DEF d
<1>3. TokensLast /\ Tokens' = Tokens /\ FamiliesInv' /\ \A u \in Tokens' : TokenInv(u)'
  BY <1>1, <1>2, OneToken, Zenon DEF LIVE, TokenInv
<1>4. PICK r : r \notin Requests
  BY NoSetContainsEverything
<1>5. OthersWait(r)
  BY <1>1 DEF OthersWait, SessionsInv
<1> QED
  BY <1>1, <1>3, <1>4, <1>5, QuietKeeps

LEMMA RecheckKeeps ==
  ASSUME SessionsInv, NEW r \in Requests, Recheck(r)
  PROVE  SessionsInv'
<1> DEFINE got == jobs[r].got
<1>1. /\ jobs[r].op = "refresh" /\ jobs[r].token \in Tokens /\ got \in Tokens
      /\ tokens[got].since = jobs[r].seen
      /\ UNCHANGED <<account, tokens, ended, revoked, abused>> /\ abused \in BOOLEAN
  BY DEF Recheck, At, SessionsInv, JobInv, RefreshSteps
<1>2. CASE Goto(r, "revoke") /\ UNCHANGED held
  BY <1>1, <1>2, GoneKeeps DEF Steps, RefreshSteps
<1>3. CASE Goto(r, "disown") /\ UNCHANGED held
  BY <1>1, <1>3, GoneKeeps DEF Steps, RefreshSteps
<1>4. CASE account.version = jobs[r].seen /\ held' = held \cup {got} /\ Finish(r)
  <2>1. TokensLast /\ Tokens' = Tokens /\ FamiliesInv' /\ \A u \in Tokens' : TokenInv(u)'
    BY <1>1, SameTokens
  <2>2. OthersWait(r) /\ jobs'[r].pc = "done" /\ JobInv(r)'
    BY <1>1, <1>4, SameAccount, FinishIs
  <2>3. held' \subseteq Tokens' /\ revoked' \in 0..account'.version
    BY <1>1, <1>4, <2>1 DEF SessionsInv
  <2>4. NoRefreshEscapes'
    <3>1. tokens[got].since >= revoked
      BY <1>1, <1>4, SameAccount DEF SessionsInv
    <3> QED
      BY <1>1, <1>4, <3>1 DEF SessionsInv, NoRefreshEscapes
  <2> QED
    BY <1>1, <2>1, <2>2, <2>3, <2>4, SameAccount, StepKeeps
<1> QED
  BY <1>2, <1>3, <1>4 DEF Recheck

LEMMA PresentKeeps ==
  ASSUME SessionsInv, NEW r \in Requests, NEW t \in Tokens, Present(r, t)
  PROVE  SessionsInv'
<1> DEFINE j == [Idle EXCEPT !.op = "refresh", !.pc = "claim", !.token = t,
                             !.seen = account.version, !.late = tokens[t].late]
<1>1. /\ UNCHANGED <<account, tokens, held, ended, revoked>> /\ abused \in BOOLEAN
      /\ abused' = (abused \/ tokens[t].late \/ HasEnded(tokens[t].family))
      /\ tokens[t] \in TokenSet /\ t \in Nat /\ account.version \in Nat
      /\ jobs \in [Requests -> JobSet] /\ jobs' = [jobs EXCEPT ![r] = j]
  BY TokensAre, SameAccount DEF Present, SessionsInv
<1>2. tokens[t].late \in BOOLEAN
  BY <1>1, SMT DEF TokenSet
<1>3. /\ j \in JobSet /\ j.op = "refresh" /\ j.pc = "claim" /\ j.token = t
      /\ j.seen = account.version /\ j.late = tokens[t].late /\ j.got = None /\ j.next = None
  <2> DEFINE a == [Idle EXCEPT !.op = "refresh"]
             b == [a EXCEPT !.pc = "claim"]
             c == [b EXCEPT !.token = t]
             d == [c EXCEPT !.seen = account.version]
             e == [d EXCEPT !.late = tokens[t].late]
  <2>1. j = e
    BY Zenon
  <2>2. a \in JobSet /\ a.op = "refresh" /\ a.got = None /\ a.next = None
    <3>1. "refresh" \in Operations /\ Idle \in JobSet /\ Idle.got = None /\ Idle.next = None
      BY IdleIs DEF Operations, Idle
    <3> QED
      BY <3>1, SetOp
  <2> HIDE DEF a
  <2>3. b \in JobSet /\ b.op = "refresh" /\ b.pc = "claim" /\ b.got = None /\ b.next = None
    <3>1. "claim" \in Steps
      BY DEF Steps
    <3> QED
      BY <2>2, <3>1, SetPc
  <2> HIDE DEF b
  <2>4. /\ c \in JobSet /\ c.op = "refresh" /\ c.pc = "claim" /\ c.token = t /\ c.got = None
        /\ c.next = None
    BY <1>1, <2>3, SetToken
  <2> HIDE DEF c
  <2>5. /\ d \in JobSet /\ d.op = "refresh" /\ d.pc = "claim" /\ d.token = t /\ d.got = None
        /\ d.next = None /\ d.seen = account.version
    BY <1>1, <2>4, SetSeen
  <2> HIDE DEF d
  <2>6. /\ e \in JobSet /\ e.op = "refresh" /\ e.pc = "claim" /\ e.token = t /\ e.got = None
        /\ e.next = None /\ e.seen = account.version /\ e.late = tokens[t].late
    BY <1>2, <2>5, SetNoted
  <2> HIDE DEF e, j
  <2> QED
    BY <2>1, <2>6
<1> HIDE DEF j
<1>4. OthersWait(r) /\ jobs'[r] = j
  BY <1>1, <1>3, JobIs, Zenon DEF OthersWait
<1>5. TokensLast /\ Tokens' = Tokens /\ FamiliesInv' /\ \A u \in Tokens' : TokenInv(u)'
  BY <1>1, SameTokens
<1>6. JobInv(r)'
  BY <1>1, <1>2, <1>3, <1>4, <1>5 DEF JobInv, RefreshSteps, None
<1>7. abused' \in BOOLEAN
  BY <1>1, <1>2 DEF HasEnded
<1> QED
  BY <1>1, <1>3, <1>4, <1>5, <1>6, <1>7, QuietKeeps

-----------------------------------------------------------------------------
(* The other requests.                                                      *)

LEMMA AskKeeps ==
  ASSUME SessionsInv, NEW r \in Requests, NEW op \in Operations, Ask(r, op)
  PROVE  SessionsInv'
<1> DEFINE pc == IF op = "login" THEN "session" ELSE "bump"
           j == [jobs[r] EXCEPT !.op = op]
           k == [j EXCEPT !.seen = account.version]
           l == [k EXCEPT !.pc = pc]
<1>1. /\ UNCHANGED <<account, tokens, held, ended, revoked, abused>> /\ abused \in BOOLEAN
      /\ op \notin {"refresh", "logout"} /\ pc \in Steps
      /\ jobs \in [Requests -> JobSet] /\ jobs[r] \in JobSet /\ account.version \in Nat /\ JobInv(r)
  BY SameAccount DEF Ask, SessionsInv, Steps
<1>2. jobs' = [jobs EXCEPT ![r] = l]
  <2>1. jobs' = [jobs EXCEPT ![r].op = op, ![r].seen = account.version, ![r].pc = pc]
    BY DEF Ask
  <2> HIDE DEF pc
  <2> QED
    BY <2>1, Zenon
<1> HIDE DEF pc
<1>3. /\ j \in JobSet /\ j.op = op /\ j.token = jobs[r].token
      /\ j.got = jobs[r].got /\ j.next = jobs[r].next /\ j.late = jobs[r].late
  BY <1>1, SetOp
<1> HIDE DEF j
<1>4. /\ k \in JobSet /\ k.op = op /\ k.token = jobs[r].token /\ k.seen = account.version
      /\ k.got = jobs[r].got /\ k.next = jobs[r].next /\ k.late = jobs[r].late
  BY <1>1, <1>3, SetSeen
<1> HIDE DEF k
<1>5. /\ l \in JobSet /\ l.op = op /\ l.token = jobs[r].token /\ l.seen = account.version
      /\ l.got = jobs[r].got /\ l.next = jobs[r].next /\ l.late = jobs[r].late /\ l.pc = pc
  BY <1>1, <1>4, SetPc
<1> HIDE DEF l
<1>6. OthersWait(r) /\ jobs'[r] = l
  BY <1>1, <1>2, <1>5, JobIs, Zenon DEF OthersWait
<1>7. TokensLast /\ Tokens' = Tokens /\ FamiliesInv' /\ \A u \in Tokens' : TokenInv(u)'
  BY <1>1, SameTokens
<1>8. JobInv(r)'
  BY <1>1, <1>5, <1>6, <1>7 DEF JobInv, RefreshSteps, Operations, pc
<1>9. l.pc \notin {"issue", "regrant"}
  BY <1>5 DEF pc
<1> QED
  BY <1>1, <1>6, <1>7, <1>8, <1>9, QuietKeeps

LEMMA BumpKeeps ==
  ASSUME SessionsInv, NEW r \in Requests, Bump(r)
  PROVE  SessionsInv'
<1> DEFINE op == jobs[r].op
<1>1. /\ UNCHANGED <<tokens, held, ended, revoked, abused>> /\ abused \in BOOLEAN
      /\ op \in {"logoutAll", "change", "reset", "suspend", "reactivate"}
      /\ jobs \in [Requests -> JobSet] /\ jobs[r] \in JobSet /\ JobInv(r) /\ account.version \in Nat
  BY AccountIs DEF Bump, At, SessionsInv, JobInv
<1>2. TokensLast /\ Tokens' = Tokens /\ FamiliesInv' /\ \A u \in Tokens' : TokenInv(u)'
  BY <1>1, SameTokens
<1>3. CASE Finish(r) /\ UNCHANGED account
  <2>1. OthersWait(r) /\ jobs'[r].pc = "done" /\ JobInv(r)'
    BY <1>3, SameAccount, FinishIs
  <2> QED
    BY <1>1, <1>2, <1>3, <2>1, QuietKeeps
<1>4. CASE ~ (Finish(r) /\ UNCHANGED account)
  <2> DEFINE pc == IF op \in {"suspend", "reactivate"} THEN "audit" ELSE "revoke"
             j == [jobs[r] EXCEPT !.pc = pc]
             k == [j EXCEPT !.seen = account'.version]
  <2>1. /\ account' = [version |-> IF op = "reactivate" THEN account.version
                                                         ELSE account.version + 1,
                       suspended |-> op = "suspend" \/ (account.suspended /\ op # "reactivate"),
                       link |-> account.link /\ op \notin {"reset", "change"}]
        /\ jobs' = [jobs EXCEPT ![r].pc = pc, ![r].seen = account'.version]
    BY <1>4 DEF Bump
  <2>2. jobs' = [jobs EXCEPT ![r] = k]
    <3> HIDE DEF pc
    <3> QED
      BY <2>1, Zenon
  <2>3. account' \in AccountSet /\ account.version <= account'.version /\ account'.version \in Nat
    <3>1. /\ account'.version = IF op = "reactivate" THEN account.version ELSE account.version + 1
          /\ account'.version \in Nat
      BY <1>1, <2>1
    <3>2. /\ (op = "suspend" \/ (account.suspended /\ op # "reactivate")) \in BOOLEAN
          /\ (account.link /\ op \notin {"reset", "change"}) \in BOOLEAN
      OBVIOUS
    <3>3. account' \in AccountSet
      BY <1>1, <2>1, <3>1, <3>2, SMT DEF AccountSet
    <3> QED
      BY <1>1, <3>1, <3>3
  <2>4. pc \in Steps /\ pc \notin RefreshSteps
    BY DEF Steps, RefreshSteps
  <2>5. /\ j \in JobSet /\ j.pc = pc /\ j.op = op /\ j.token = jobs[r].token
        /\ j.got = jobs[r].got /\ j.next = jobs[r].next /\ j.late = jobs[r].late
    BY <1>1, <2>4, SetPc
  <2> HIDE DEF j
  <2>6. /\ k \in JobSet /\ k.pc = pc /\ k.op = op /\ k.token = jobs[r].token
        /\ k.seen = account'.version
        /\ k.got = jobs[r].got /\ k.next = jobs[r].next /\ k.late = jobs[r].late
    BY <2>3, <2>5, SetSeen
  <2> HIDE DEF k
  <2>7. OthersWait(r) /\ jobs'[r] = k
    BY <1>1, <2>2, <2>6, JobIs, Zenon DEF OthersWait
  <2>8. JobInv(r)'
    BY <1>1, <1>2, <2>3, <2>4, <2>6, <2>7 DEF JobInv, RefreshSteps
  <2>9. held' \subseteq Tokens' /\ NoRefreshEscapes' /\ revoked' \in 0..account'.version
    BY <1>1, <1>2, <2>3, NothingNew DEF SessionsInv
  <2>10. pc \notin {"issue", "regrant"}
    OBVIOUS
  <2> HIDE DEF pc
  <2> QED
    BY <1>1, <1>2, <2>3, <2>6, <2>7, <2>8, <2>9, <2>10, StepKeeps
<1> QED
  BY <1>3, <1>4

LEMMA AuditKeeps ==
  ASSUME SessionsInv, NEW r \in Requests, NEW written \in BOOLEAN, Audit(r, written)
  PROVE  SessionsInv'
<1>1. /\ UNCHANGED <<tokens, held, ended, revoked, abused>> /\ abused \in BOOLEAN
      /\ account \in AccountSet /\ JobInv(r) /\ jobs[r].op \in {"suspend", "reactivate"}
  BY DEF Audit, At, SessionsInv, JobInv
<1>2. TokensLast /\ Tokens' = Tokens /\ FamiliesInv' /\ \A u \in Tokens' : TokenInv(u)'
  BY <1>1, SameTokens
<1>3. CASE written /\ jobs[r].op = "suspend"
  <2>1. Goto(r, "revoke") /\ UNCHANGED account
    BY <1>3 DEF Audit
  <2> QED
    BY <1>1, <1>3, <2>1, GoneKeeps DEF Steps, RefreshSteps
<1>4. CASE ~ (written /\ jobs[r].op = "suspend")
  <2>1. /\ account' \in AccountSet /\ account'.version = account.version /\ account.version \in Nat
        /\ account.version <= account'.version
    <3>1. account' = account \/ account' = [account EXCEPT !.suspended = (jobs[r].op = "reactivate")]
      BY DEF Audit
    <3>2. account' \in AccountSet /\ account'.version = account.version
      BY <1>1, <3>1, SetSuspended
    <3> QED
      BY <3>2, AccountIs
  <2>2. OthersWait(r) /\ jobs'[r].pc = "done" /\ JobInv(r)'
    BY <1>4, <2>1, FinishIs DEF Audit
  <2>3. held' \subseteq Tokens' /\ NoRefreshEscapes' /\ revoked' \in 0..account'.version
    BY <1>1, <1>2, <2>1, NothingNew DEF SessionsInv
  <2> QED
    BY <1>1, <1>2, <2>1, <2>2, <2>3, StepKeeps
<1> QED
  BY <1>3, <1>4

LEMMA RevokeAllKeeps ==
  ASSUME SessionsInv, NEW r \in Requests, RevokeAll(r)
  PROVE  SessionsInv'
<1> DEFINE op == jobs[r].op reason == Ends[op]
<1>1. /\ op \in {"refresh", "logoutAll", "change", "reset", "suspend"} /\ JobInv(r)
      /\ UNCHANGED <<account, held, abused>> /\ abused \in BOOLEAN
      /\ Revoke(Tokens, reason) /\ NoteEnded(Tokens, reason)
      /\ revoked' = IF op # "refresh" /\ jobs[r].seen > revoked THEN jobs[r].seen ELSE revoked
      /\ account.version \in Nat /\ jobs[r].seen \in Nat /\ revoked \in 0..account.version
  BY AccountIs, JobTyped DEF RevokeAll, At, SessionsInv, JobInv
<1>2. reason \in Reasons \ {LIVE, "REUSE_DETECTED"}
  BY <1>1 DEF Ends, Reasons, SESSION_ENDING_REASONS, LIVE
<1> HIDE DEF reason
<1>3. /\ TokensLast /\ Tokens' = Tokens /\ FamiliesInv' /\ \A u \in Tokens' : TokenInv(u)'
      /\ \A t \in Tokens : tokens'[t].reason # LIVE
  BY <1>1, <1>2, RevokeIs
<1>4. OthersWait(r) /\ jobs'[r].pc \notin {"issue", "regrant"} /\ JobInv(r)'
  <2>1. CASE op = "change"
    <3>1. /\ OthersWait(r) /\ jobs'[r].pc = "session" /\ jobs'[r].op = "change"
          /\ jobs'[r].token = jobs[r].token /\ jobs'[r].seen = jobs[r].seen
          /\ jobs'[r].got = jobs[r].got /\ jobs'[r].next = jobs[r].next
          /\ jobs'[r].late = jobs[r].late
      BY <2>1, GotoIs DEF RevokeAll, Steps
    <3> QED
      BY <1>1, <1>3, <3>1 DEF JobInv, RefreshSteps
  <2>2. CASE op # "change"
    BY <1>1, <2>2, FinishIs DEF RevokeAll
  <2> QED
    BY <2>1, <2>2
<1>5. \A f \in ended' : f \notin ended => Closed(f)'
  BY <1>1, <1>2, <1>4, EndedIs
<1>6. revoked' \in 0..account'.version
  BY <1>1 DEF JobInv
<1>7. held' \subseteq Tokens' /\ NoRefreshEscapes'
  BY <1>1, <1>3 DEF SessionsInv, NoRefreshEscapes
<1> QED
  BY <1>1, <1>3, <1>4, <1>5, <1>6, <1>7, SameAccount, StepKeeps

LEMMA CreateSessionKeeps ==
  ASSUME SessionsInv, NEW r \in Requests, CreateSession(r)
  PROVE  SessionsInv'
<1> DEFINE f == Cardinality(Families) + 1 n == Len(tokens) + 1
<1>1. /\ jobs[r].op \in {"login", "change"} /\ jobs[r].op \in Operations /\ jobs[r].seen \in Nat
      /\ UNCHANGED <<account, ended, revoked, abused>> /\ abused \in BOOLEAN
      /\ tokens' = Append(tokens, Token(f, jobs[r].op, jobs[r].seen)) /\ Finish(r)
      /\ held' = held \cup {n}
  BY JobTyped DEF CreateSession, At, SessionsInv, JobInv, Issue, Operations
<1>2. f \notin ended
  <2>1. PICK m \in Nat : Families = 1..m
    BY DEF SessionsInv, FamiliesInv
  <2>2. Cardinality(1..m) = m
    BY FS_Interval
  <2> QED
    BY <2>1, <2>2 DEF SessionsInv, Closed
<1> HIDE DEF f
<1>3. /\ TokensLast /\ Tokens' = Tokens \cup {n} /\ FamiliesInv' /\ \A u \in Tokens' : TokenInv(u)'
      /\ tokens'[n] = Token(f, jobs[r].op, jobs[r].seen)
  BY <1>1, Added DEF f
<1>4. tokens'[n].family = f /\ tokens'[n].by # "refresh"
  BY <1>1, <1>3 DEF Token
<1>5. OthersWait(r) /\ jobs'[r].pc = "done" /\ JobInv(r)'
  BY <1>1, SameAccount, FinishIs
<1> HIDE DEF n
<1>6. held' \subseteq Tokens' /\ NoRefreshEscapes' /\ revoked' \in 0..account'.version
  BY <1>1, <1>3, <1>4 DEF SessionsInv, NoRefreshEscapes, TokensLast
<1> QED
  BY <1>1, <1>2, <1>3, <1>4, <1>5, <1>6, SameAccount, StepKeeps

-----------------------------------------------------------------------------
(* The whole specification.                                                 *)

LEMMA InitHolds == ASSUME Init PROVE SessionsInv
<1>1. Token(1, "login", 0) \in TokenSet
  BY SMT DEF Token, TokenSet, Reasons, LIVE, None, Operations
<1>2. /\ tokens \in Seq(TokenSet) /\ Tokens = {1} /\ tokens[1] = Token(1, "login", 0)
  BY <1>1, SMT DEF Init, Tokens
<1>3. Families = 1..1
  BY <1>2 DEF Families, Token
<1>4. FamiliesInv
  BY <1>3 DEF FamiliesInv
<1>5. account \in AccountSet /\ account.version = 0
  BY SMT DEF Init, AccountSet
<1>6. \A t \in Tokens : TokenInv(t)
  BY <1>2 DEF TokenInv, Token, LIVE
<1>7. /\ Idle.seen = 0 /\ Idle.token = None /\ Idle.got = None /\ Idle.next = None
      /\ Idle.pc = "idle" /\ Idle.late = FALSE
  BY DEF Idle
<1>8. jobs \in [Requests -> JobSet] /\ \A r \in Requests : jobs[r] = Idle
  BY IdleIs DEF Init
<1>9. ASSUME NEW r \in Requests PROVE JobInv(r)
  <2>1. /\ jobs[r].seen = 0 /\ jobs[r].token = None /\ jobs[r].got = None /\ jobs[r].next = None
        /\ jobs[r].pc = "idle" /\ jobs[r].late = FALSE
    BY <1>7, <1>8, Zenon
  <2> QED
    BY <1>5, <2>1 DEF JobInv, RefreshSteps
<1>10. NoRefreshEscapes
  BY <1>2 DEF Init, NoRefreshEscapes, Token
<1>11. held \subseteq Tokens /\ abused \in BOOLEAN /\ ended = {} /\ revoked = 0
  BY <1>2 DEF Init
<1>12. \A f \in ended : Closed(f)
  BY <1>11, Zenon
<1>13. revoked \in 0..account.version
  BY <1>5, <1>11
<1> QED
  BY <1>2, <1>4, <1>5, <1>6, <1>8, <1>9, <1>10, <1>11, <1>12, <1>13, Zenon DEF SessionsInv

LEMMA NextKeeps == ASSUME SessionsInv, [Next]_vars PROVE SessionsInv'
<1>1. CASE UNCHANGED vars
  <2>1. OthersWait(CHOOSE r : r \notin Requests)
    BY <1>1 DEF vars, OthersWait, SessionsInv
  <2>2. (CHOOSE r : r \notin Requests) \notin Requests
    BY NoSetContainsEverything
  <2>3. abused \in BOOLEAN /\ UNCHANGED <<account, tokens, held, ended, revoked, abused>>
    BY <1>1 DEF vars, SessionsInv
  <2> QED
    BY <2>1, <2>2, <2>3, SameTokens, QuietKeeps
<1>2. ASSUME NEW r \in Requests, Step(r) PROVE SessionsInv'
  BY <1>2, ClaimKeeps, ExchangeKeeps, LinkKeeps, ExistingKeeps, SessionEndedKeeps, RetireKeeps,
     PunishKeeps, RecheckKeeps, DisownKeeps, BumpKeeps, AuditKeeps, RevokeAllKeeps,
     CreateSessionKeeps DEF Step
<1>3. ASSUME NEW r \in Requests, NEW t \in Tokens, Present(r, t) \/ Logout(r, t) PROVE SessionsInv'
  BY <1>3, PresentKeeps, LogoutKeeps
<1>4. ASSUME NEW r \in Requests, NEW op \in Operations, Ask(r, op) PROVE SessionsInv'
  BY <1>4, AskKeeps
<1>5. ASSUME NEW t \in Tokens, GraceEnds(t) PROVE SessionsInv'
  BY <1>5, GraceKeeps
<1> QED
  BY <1>1, <1>2, <1>3, <1>4, <1>5 DEF Next

LEMMA InvShows == SessionsInv => RevokedStaysRevoked /\ OnlyReuseIsPunished
<1> SUFFICES ASSUME SessionsInv PROVE RevokedStaysRevoked /\ OnlyReuseIsPunished
  OBVIOUS
<1>1. /\ \A t \in Tokens : tokens[t] \in TokenSet /\ TokenInv(t)
      /\ \A r \in Requests : jobs[r] \in JobSet /\ JobInv(r)
      /\ \A f \in ended : Closed(f)
      /\ Tokens \subseteq Nat /\ None \in Nat
  BY TokensAre DEF SessionsInv, None
<1>2. \A t \in Tokens :
        tokens[t] \in [family : Families, reason : Reasons, next : Tokens \cup {None},
                       late : BOOLEAN, by : Operations, since : Nat]
  <2>1. \A t \in Tokens : tokens[t].family \in Families /\ tokens[t].next \in Tokens \cup {None}
    BY <1>1 DEF Families, TokenInv
  <2> QED
    BY <1>1, <2>1, SMT DEF TokenSet
<1>3. jobs \in [Requests -> [op : Operations \cup {"none"}, pc : Steps,
                            token : Tokens \cup {None}, seen : Nat,
                            got : Tokens \cup {None}, next : Tokens \cup {None},
                            late : BOOLEAN]]
  <2>1. \A r \in Requests :
          jobs[r] \in [op : Operations \cup {"none"}, pc : Steps,
                       token : Tokens \cup {None}, seen : Nat,
                       got : Tokens \cup {None}, next : Tokens \cup {None}, late : BOOLEAN]
    <3>1. \A r \in Requests : /\ jobs[r].token \in Tokens \cup {None}
                              /\ jobs[r].got \in Tokens \cup {None}
                              /\ jobs[r].next \in Tokens \cup {None}
      BY <1>1 DEF JobInv
    <3> QED
      BY <1>1, <3>1, SMT DEF JobSet
  <2> QED
    BY <2>1 DEF SessionsInv
<1>4. TypeOK
  <2>1. held \subseteq Tokens /\ ended \subseteq Families
    BY <1>1 DEF SessionsInv, Closed
  <2>2. \A t \in Tokens : tokens[t].reason = LIVE => tokens[t].next = None /\ ~ tokens[t].late
    BY <1>1 DEF TokenInv
  <2> QED
    BY <1>2, <1>3, <2>1, <2>2 DEF TypeOK, SessionsInv, AccountSet
<1>5. EndedStaysEnded
  BY <1>1 DEF EndedStaysEnded, Closed, InFamily
<1>6. OnlyReuseIsPunished
  BY <1>1 DEF OnlyReuseIsPunished, TokenInv, Deserved
<1> QED
  BY <1>4, <1>5, <1>6 DEF RevokedStaysRevoked, SessionsInv

(* A login that was ended, and every refresh token older than a revocation  *)
(* of all of them, stay so: whatever refreshes were in progress, none of    *)
(* them leaves a live token behind (refreshSession, rotateRefreshToken).    *)
THEOREM RevocationLasts == Spec => []RevokedStaysRevoked
<1>1. Init => SessionsInv
  BY InitHolds
<1>2. SessionsInv /\ [Next]_vars => SessionsInv'
  BY NextKeeps
<1> QED
  BY <1>1, <1>2, InvShows, PTL DEF Spec

(* No number of parallel tabs and retries closes a login for reuse: it      *)
(* takes a token presented after its grace period or after its login's end. *)
THEOREM ReuseIsProved == Spec => []OnlyReuseIsPunished
<1>1. Init => SessionsInv
  BY InitHolds
<1>2. SessionsInv /\ [Next]_vars => SessionsInv'
  BY NextKeeps
<1> QED
  BY <1>1, <1>2, InvShows, PTL DEF Spec

-----------------------------------------------------------------------------
(* The team: the inductive invariant.                                       *)

(* At most two requests of an opening change roles or remove members: three *)
(* can leave no owner.                                                      *)
FewChanges ==
  \A o \in Openings : \A r, s, t \in Handlers :
    {o.kinds[r], o.kinds[s], o.kinds[t]} \subseteq {"role", "remove"} => r = s \/ s = t \/ r = t

MemberSet == [role : Roles \cup {"none"}, doc : Nat]
InvitationSet ==
  [email : Users, role : {"ADMIN", "EDITOR"}, by : Users, status : {"pending", "revoked", "accepted"},
   expired : BOOLEAN, joins : Nat, during : SUBSET Handlers]
ChangeSteps == {"owners", "apply", "verify", "undo", "payer", "bill"}
InviteSteps == {"count", "room", "replace", "create"}
AcceptSteps == {"seat", "claim", "join"}
RequestSet ==
  [pc : {"ready", "role", "remove", "revoke", "done"} \cup ChangeSteps \cup InviteSteps \cup AcceptSteps,
   kind : {"role", "remove", "invite", "revoke", "accept", "none"},
   actor : Users \cup {"none"}, as : Roles \cup {"none"}, target : Users \cup {"none"},
   invitation : Nat, role : Roles \cup {"none"}, was : Roles \cup {"none"}, doc : Nat,
   payer : Users \cup {"none"}, replacing : Nat, allowed : Nat,
   first : {"none", "members", "invitations"}, counted : SUBSET Users, limit : Nat]

TeamTyped ==
  /\ members \in [Users -> MemberSet]
  /\ invitations \in Seq(InvitationSet)
  /\ billingOwner \in Users
  /\ seats \in 1..Seats
  /\ requests \in [Handlers -> RequestSet]

(* Documents are numbered as they are made, one by a request.               *)
Finished == {r \in Handlers : requests[r].pc = "done"}
DocsNumbered ==
  /\ \A u \in Users : members[u].doc <= 1 + Cardinality(Finished)
  /\ \E u \in Users : \A v \in Users : members[v].doc <= members[u].doc

(* What a request is about, by its step.                                    *)
Fits(q) ==
  /\ q.pc \in {"ready", "role", "remove", "revoke"} => q.kind # "none"
  /\ q.pc \in {"role", "remove"} =>
       q.kind = q.pc /\ q.target \in Users /\ q.role \in Roles /\ q.payer \in Users
  /\ q.pc \in ChangeSteps =>
       /\ q.kind \in {"role", "remove"}
       /\ q.target \in Users /\ q.role \in Roles /\ q.was \in Roles /\ q.payer \in Users
       /\ q.kind = "role" => q.was # q.role
  /\ q.pc \in {"owners", "undo"} => q.was = "OWNER"
  /\ q.pc \in InviteSteps =>
       q.kind = "invite" /\ q.target \in Users /\ q.actor \in Users /\ q.role \in {"ADMIN", "EDITOR"}
  /\ q.pc \in AcceptSteps =>
       /\ q.kind = "accept" /\ q.target \in Users
       /\ q.invitation \in DOMAIN invitations /\ invitations[q.invitation].email = q.target
RequestsFit == \A r \in Handlers : Fits(requests[r])

(* An invitation is joined by at most once.                                 *)
Joining(r, i) == requests[r].pc = "join" /\ requests[r].invitation = i
InvitationsFit ==
  /\ \A i, k \in DOMAIN invitations :
       i # k /\ invitations[i].status = "pending" /\ invitations[k].status = "pending"
         => invitations[i].email # invitations[k].email
  /\ \A i \in DOMAIN invitations :
       /\ invitations[i].joins <= 1
       /\ invitations[i].status = "pending" => invitations[i].joins = 0
       /\ \A r \in Handlers : Joining(r, i) =>
            invitations[i].status = "accepted" /\ invitations[i].joins = 0
       /\ \A r, s \in Handlers : Joining(r, i) /\ Joining(s, i) => r = s

Changes(q) == q.kind \in {"role", "remove"}
FewChanging ==
  \A r, s, t \in Handlers :
    Changes(requests[r]) /\ Changes(requests[s]) /\ Changes(requests[t]) => r = s \/ s = t \/ r = t

(* A request that has yet to make its change.                               *)
Early(q) == Changes(q) /\ q.pc \in {"ready", "role", "remove", "owners", "apply"}
(* Its change leaves an owner.                                              *)
Spares(q) == q.target \in Owners => \E u \in Owners : u # q.target

(* While two changes are to come, the owners are those there always were,   *)
(* and each request has seen one more than the owner it takes away.         *)
BothEarly ==
  \A r, s \in Handlers :
    r # s /\ Early(requests[r]) /\ Early(requests[s]) =>
      /\ \A u \in Owners : members[u].doc = 1
      /\ requests[r].pc = "apply" =>
           Spares(requests[r]) /\ (requests[r].was # "OWNER" => requests[r].target \notin Owners)

(* Later, one may take the last owner, who was never away.                  *)
LastEarly ==
  \A r \in Handlers :
    Early(requests[r]) =>
      /\ Owners # {}
      /\ requests[r].pc = "apply" =>
           Spares(requests[r])
             \/ (requests[r].was = "OWNER" /\ members[requests[r].target].doc = 1)

(* A request that took no owner away leaves one to everybody, and one that  *)
(* undoes its change is the last to have made one.                          *)
NotTaken ==
  \A r \in Handlers :
    requests[r].pc = "verify" /\ requests[r].was # "OWNER" =>
      /\ Owners # {}
      /\ \A s \in Handlers : requests[s].pc = "apply" => Spares(requests[s])
UndoIsLast ==
  \A r, s \in Handlers : requests[r].pc = "undo" => ~ Early(requests[s])

(* Nobody who was never away is invited.                                    *)
NotInvited(t) ==
  /\ \A i \in DOMAIN invitations : invitations[i].email # t
  /\ \A r \in Handlers :
       requests[r].pc \in (InviteSteps \ {"count"}) \cup AcceptSteps => requests[r].target # t
NeverAway == \A t \in Users : Member(t) /\ members[t].doc = 1 => NotInvited(t)

(* Without an owner, a request gives back the one it took away: nobody      *)
(* else can let him in meanwhile.                                           *)
Barred(r) ==
  /\ \A i \in DOMAIN invitations :
       invitations[i].email = requests[r].target => r \in invitations[i].during
  /\ \A s \in Handlers :
       requests[s].pc \in AcceptSteps => requests[s].target # requests[r].target
Restores(r) ==
  /\ requests[r].pc \in {"verify", "undo"} /\ requests[r].was = "OWNER"
  /\ requests[r].kind = "role" => Found(r)
  /\ requests[r].kind = "remove" => ~ Member(requests[r].target) /\ Barred(r)
OwnerComesBack == Owners = {} => \E r \in Handlers : Restores(r)

TeamInv ==
  /\ TeamTyped /\ DocsNumbered /\ RequestsFit /\ InvitationsFit /\ FewChanging
  /\ BothEarly /\ LastEarly /\ NotTaken /\ UndoIsLast /\ NeverAway /\ OwnerComesBack

-----------------------------------------------------------------------------
(* Records and sets of the model.                                           *)

LEMMA TeamIsTyped ==
  ASSUME TeamInv
  PROVE  /\ members \in [Users -> MemberSet] /\ requests \in [Handlers -> RequestSet]
         /\ \A u \in Users : members[u].role \in Roles \cup {"none"} /\ members[u].doc \in Nat
         /\ Owners \subseteq Users
  BY DEF TeamInv, TeamTyped, MemberSet, Owners

LEMMA AnsweredIs ==
  /\ Answered \in RequestSet /\ Answered.pc = "done" /\ Answered.kind = "none"
PROOF BY DEF Answered, NoRequest, RequestSet, Roles

LEMMA AnsweredFits == Fits(Answered)
PROOF BY AnsweredIs DEF Fits, ChangeSteps, InviteSteps, AcceptSteps

LEMMA MovedIs ==
  ASSUME NEW q \in RequestSet, NEW pc, [q EXCEPT !.pc = pc] \in RequestSet
  PROVE  Moved(q, pc) \in RequestSet
  BY AnsweredIs DEF Moved

(* A membership's new number is the next.                                   *)
LEMMA NewDocIsNext ==
  ASSUME TeamInv, NEW r \in Handlers, requests[r].pc # "done"
  PROVE  /\ NewDoc \in Nat /\ NewDoc >= 2
         /\ \A u \in Users : members[u].doc < NewDoc
         /\ NewDoc <= 2 + Cardinality(Finished)
<1> DEFINE Bound == Cardinality(Users) * Cardinality(Handlers) + 2
<1>1. /\ Cardinality(Users) \in Nat /\ Cardinality(Users) >= 1
      /\ Cardinality(Handlers) \in Nat
      /\ Cardinality(Finished) \in Nat /\ Cardinality(Finished) <= Cardinality(Handlers) - 1
  <2>1. IsFiniteSet(Users) /\ Users # {} /\ IsFiniteSet(Handlers)
    BY TeamAssumption
  <2>2. Cardinality(Users) \in Nat /\ Cardinality(Users) # 0
    BY <2>1, FS_EmptySet, FS_CardinalityType
  <2>3. Finished \subseteq Handlers \ {r}
    BY DEF Finished
  <2>4. IsFiniteSet(Handlers \ {r}) /\ Cardinality(Handlers \ {r}) = Cardinality(Handlers) - 1
    BY <2>1, FS_RemoveElement
  <2>5. IsFiniteSet(Finished) /\ Cardinality(Finished) <= Cardinality(Handlers) - 1
    BY <2>3, <2>4, FS_Subset
  <2> QED
    BY <2>1, <2>2, <2>5, FS_CardinalityType
<1>2. PICK u \in Users : \A v \in Users : members[v].doc <= members[u].doc
  BY DEF TeamInv, DocsNumbered
<1>3. PICK m \in Nat : m = members[u].doc
  BY TeamIsTyped
<1>4. m <= 1 + Cardinality(Finished)
  BY <1>3 DEF TeamInv, DocsNumbered
<1>5. Bound \in Nat /\ Cardinality(Finished) + 3 <= Bound
  <2>1. PICK k \in Nat, h \in Nat, f \in Nat :
          /\ k = Cardinality(Users) /\ h = Cardinality(Handlers) /\ f = Cardinality(Finished)
          /\ k >= 1 /\ f <= h - 1
    BY <1>1
  <2>2. k * h \in Nat /\ h <= k * h
    BY <2>1
  <2> QED
    BY <2>1, <2>2
<1> DEFINE Follows(n) == /\ \A v \in Users : members[v].doc < n
                         /\ n = 2 \/ \E v \in Users : members[v].doc = n - 1
<1> DEFINE Docs == 2..Bound
<1>6. \E n \in Docs : Follows(n)
  <2>1. CASE m = 0
    <3>1. 2 \in Docs
      BY <1>1, <1>5
    <3>2. \A v \in Users : members[v].doc < 2
      BY <1>2, <1>3, <2>1, TeamIsTyped
    <3> QED
      BY <3>1, <3>2
  <2>2. CASE m > 0
    <3>1. m + 1 \in Docs
      BY <1>1, <1>3, <1>4, <1>5, <2>2
    <3>2. \A v \in Users : members[v].doc < m + 1
      BY <1>2, <1>3, TeamIsTyped
    <3>3. members[u].doc = (m + 1) - 1
      BY <1>3
    <3> QED
      BY <3>1, <3>2, <3>3
  <2> QED
    BY <2>1, <2>2
<1>7. NewDoc = CHOOSE n \in Docs : Follows(n)
  BY DEF NewDoc
<1>8. NewDoc \in Docs /\ Follows(NewDoc)
  <2> HIDE DEF Docs, Follows
  <2> QED
    BY <1>6, <1>7
<1>9. NewDoc \in Nat /\ NewDoc >= 2
  BY <1>5, <1>8
<1>10. NewDoc <= 2 + Cardinality(Finished)
  <2>1. \A v \in Users : members[v].doc <= 1 + Cardinality(Finished)
    BY DEF TeamInv, DocsNumbered
  <2>2. CASE NewDoc = 2
    BY <1>1, <2>2
  <2>3. CASE \E v \in Users : members[v].doc = NewDoc - 1
    BY <1>1, <1>9, <2>1, <2>3, TeamIsTyped
  <2> QED
    BY <1>8, <2>2, <2>3
<1> QED
  BY <1>8, <1>9, <1>10

(* More than one owner.                                                     *)
LEMMA AnotherOwner ==
  ASSUME TeamInv, Cardinality(Owners) > 1, NEW t
  PROVE  \E u \in Owners : u # t
<1>1. SUFFICES ASSUME \A u \in Owners : u = t PROVE FALSE
  OBVIOUS
<1>2. Owners \subseteq {t}
  BY <1>1
<1>3. IsFiniteSet({t}) /\ Cardinality({t}) = 1
  BY FS_Singleton
<1>4. Cardinality(Owners) <= 1 /\ Cardinality(Owners) \in Nat
  BY <1>2, <1>3, FS_Subset, FS_CardinalityType
<1> QED
  BY <1>4

-----------------------------------------------------------------------------
(* What steps have in common.                                               *)

LEMMA OneRequestMoves ==
  ASSUME TeamInv, NEW r \in Handlers, NEW q \in RequestSet, requests' = [requests EXCEPT ![r] = q]
  PROVE  /\ requests' \in [Handlers -> RequestSet] /\ requests'[r] = q
         /\ \A s \in Handlers : s # r => requests'[s] = requests[s]
         /\ \A s \in Handlers : requests'[s] = IF s = r THEN q ELSE requests[s]
  BY DEF TeamInv, TeamTyped

LEMMA FewStay ==
  ASSUME TeamInv, NEW r \in Handlers, NEW q \in RequestSet, requests' = [requests EXCEPT ![r] = q],
         q.kind \in {requests[r].kind, "none"}
  PROVE  FewChanging'
<1>1. \A s \in Handlers : Changes(requests[s])' => Changes(requests[s])
  BY OneRequestMoves DEF Changes
<1> QED
  BY <1>1 DEF FewChanging, TeamInv

LEMMA FinishedGrows ==
  ASSUME TeamInv, NEW r \in Handlers, NEW q \in RequestSet, requests' = [requests EXCEPT ![r] = q],
         requests[r].pc # "done"
  PROVE  /\ Cardinality(Finished) \in Nat /\ Cardinality(Finished') \in Nat
         /\ Cardinality(Finished) <= Cardinality(Finished')
         /\ q.pc = "done" => Cardinality(Finished') = Cardinality(Finished) + 1
<1>1. Finished \subseteq Handlers /\ Finished' \subseteq Handlers /\ Finished \subseteq Finished'
  BY OneRequestMoves DEF Finished
<1>2. IsFiniteSet(Finished) /\ IsFiniteSet(Finished')
  BY <1>1, TeamAssumption, FS_Subset
<1>3. Cardinality(Finished) \in Nat /\ Cardinality(Finished') \in Nat
      /\ Cardinality(Finished) <= Cardinality(Finished')
  BY <1>1, <1>2, FS_CardinalityType, FS_Subset
<1>4. ASSUME q.pc = "done" PROVE Cardinality(Finished') = Cardinality(Finished) + 1
  <2>1. Finished' = Finished \cup {r} /\ r \notin Finished
    BY <1>4, OneRequestMoves DEF Finished
  <2> QED
    BY <1>2, <2>1, FS_AddElement
<1> QED
  BY <1>3, <1>4

LEMMA DocsStay ==
  ASSUME TeamInv, NEW r \in Handlers, NEW q \in RequestSet, requests' = [requests EXCEPT ![r] = q],
         requests[r].pc # "done", \A u \in Users : members'[u].doc = members[u].doc
  PROVE  DocsNumbered'
<1>1. /\ Cardinality(Finished) \in Nat /\ Cardinality(Finished') \in Nat
      /\ Cardinality(Finished) <= Cardinality(Finished')
  BY FinishedGrows
<1>2. \A u \in Users : members[u].doc \in Nat /\ members[u].doc <= 1 + Cardinality(Finished)
  BY TeamIsTyped DEF DocsNumbered, TeamInv
<1>3. \A u \in Users : members'[u].doc <= 1 + Cardinality(Finished')
  BY <1>1, <1>2
<1> QED
  BY <1>3 DEF DocsNumbered, TeamInv

(* Invitations are made and answered; they are never lost.                  *)
EmailsStay ==
  /\ DOMAIN invitations \subseteq DOMAIN invitations'
  /\ \A i \in DOMAIN invitations : invitations'[i].email = invitations[i].email

LEMMA RequestsStillFit ==
  ASSUME TeamInv, EmailsStay, NEW r \in Handlers, NEW q \in RequestSet,
         requests' = [requests EXCEPT ![r] = q], Fits(q)'
  PROVE  RequestsFit'
<1> SUFFICES ASSUME NEW s \in Handlers PROVE Fits(requests[s])'
  BY DEF RequestsFit
<1>1. PICK p \in RequestSet : p = requests[s]
  BY TeamIsTyped
<1>2. Fits(p)
  BY <1>1 DEF TeamInv, RequestsFit
<1>3. Fits(p)'
  BY <1>2 DEF Fits, EmailsStay
<1>4. PICK z : z = requests'[s]
  OBVIOUS
<1>5. z = q \/ z = p
  BY <1>1, <1>4, OneRequestMoves
<1>6. Fits(z)'
  BY <1>3, <1>5
<1> QED
  BY <1>4, <1>6 DEF Fits

LEMMA OwnersStay ==
  ASSUME UNCHANGED members
  PROVE  /\ Owners' = Owners /\ \A u \in Users : Member(u)' <=> Member(u)
         /\ \A p : Spares(p)' <=> Spares(p)
  BY DEF Owners, Member, Spares

(* A request goes on, and nothing else changes.                             *)
LEMMA MoveKeepsChanges ==
  ASSUME TeamInv, UNCHANGED members, NEW r \in Handlers, NEW q \in RequestSet,
         requests' = [requests EXCEPT ![r] = q],
         Early(q) => Early(requests[r]),
         q.pc = "apply" => Spares(q) /\ (q.was # "OWNER" => q.target \notin Owners),
         q.pc # "verify",
         q.pc = "undo" => requests[r].pc = "verify" /\ Owners = {}
  PROVE  BothEarly' /\ LastEarly' /\ NotTaken' /\ UndoIsLast'
<1>1. \A s \in Handlers : requests'[s] = IF s = r THEN q ELSE requests[s]
  BY OneRequestMoves
<1>2. /\ Owners' = Owners
      /\ \A u \in Users : members'[u].doc = members[u].doc
      /\ \A p : Spares(p)' <=> Spares(p)
  BY OwnersStay
<1>3. \A s \in Handlers : Early(requests[s])' => Early(requests[s])
  BY <1>1 DEF Early, Changes
<1>4. \A s \in Handlers : Spares(requests[s])' <=> Spares(requests'[s])
  BY <1>2 DEF Spares
<1>5. BothEarly'
  BY <1>1, <1>2, <1>3, <1>4 DEF BothEarly, TeamInv, Spares
<1>6. LastEarly'
  BY <1>1, <1>2, <1>3, <1>4 DEF LastEarly, TeamInv, Spares
<1>7. NotTaken'
  BY <1>1, <1>2, <1>3, <1>4 DEF NotTaken, TeamInv, Spares
<1>8. UndoIsLast'
  <2> SUFFICES ASSUME NEW s \in Handlers, NEW t \in Handlers, requests'[s].pc = "undo", Early(requests[t])'
               PROVE FALSE
    BY DEF UndoIsLast
  <2>1. Early(requests[t])
    BY <1>3
  <2>2. CASE s = r /\ q.pc = "undo"
    BY <2>1, <2>2 DEF LastEarly, TeamInv
  <2>3. CASE requests[s].pc = "undo"
    BY <2>1, <2>3 DEF UndoIsLast, TeamInv
  <2> QED
    BY <1>1, <2>2, <2>3
<1> QED
  BY <1>5, <1>6, <1>7, <1>8

LEMMA MoveKeepsAway ==
  ASSUME TeamInv, UNCHANGED <<members, invitations>>, NEW r \in Handlers, NEW q \in RequestSet,
         requests' = [requests EXCEPT ![r] = q],
         q.pc \in (InviteSteps \ {"count"}) \cup AcceptSteps =>
           q.target \in Users /\ ~ (Member(q.target) /\ members[q.target].doc = 1)
  PROVE  NeverAway'
<1> SUFFICES ASSUME NEW t \in Users, Member(t), members[t].doc = 1
             PROVE  NotInvited(t)'
  BY DEF NeverAway, Member
<1>1. NotInvited(t)
  BY DEF NeverAway, TeamInv
<1>2. \A s \in Handlers : requests'[s] = IF s = r THEN q ELSE requests[s]
  BY OneRequestMoves
<1> QED
  BY <1>1, <1>2 DEF NotInvited

(* Who is about to give a role or a membership back still may.              *)
LEMMA MoveKeepsBack ==
  ASSUME TeamInv, UNCHANGED <<members, invitations>>, NEW r \in Handlers, NEW q \in RequestSet,
         requests' = [requests EXCEPT ![r] = q],
         Owners = {} /\ requests[r].pc \in {"verify", "undo"} =>
           q.pc = "undo" /\ q.was = requests[r].was /\ q.kind = requests[r].kind
             /\ q.target = requests[r].target /\ q.doc = requests[r].doc,
         \A s \in Handlers :
           Restores(s) /\ requests[s].kind = "remove" /\ q.pc \in AcceptSteps =>
             \/ requests[r].pc \in AcceptSteps /\ requests[r].target = q.target
             \/ q.target # requests[s].target
  PROVE  OwnerComesBack'
<1> SUFFICES ASSUME Owners' = {} PROVE \E s \in Handlers : Restores(s)'
  BY DEF OwnerComesBack
<1>1. Owners = {}
  BY OwnersStay
<1>2. PICK s \in Handlers : Restores(s)
  BY <1>1 DEF OwnerComesBack, TeamInv
<1>3. \A t \in Handlers : requests'[t] = IF t = r THEN q ELSE requests[t]
  BY OneRequestMoves
<1>4. /\ requests'[s].pc \in {"verify", "undo"} /\ requests'[s].was = "OWNER"
      /\ requests'[s].kind = requests[s].kind /\ requests'[s].target = requests[s].target
      /\ requests'[s].doc = requests[s].doc
  BY <1>1, <1>2, <1>3 DEF Restores
<1>5. ASSUME requests[s].kind = "remove", Barred(s) PROVE Barred(s)'
  <2>1. \A t \in Handlers : requests'[t].pc \in AcceptSteps => requests'[t].target # requests[s].target
    BY <1>2, <1>3, <1>5 DEF Barred
  <2> QED
    BY <1>4, <1>5, <2>1 DEF Barred
<1> QED
  BY <1>2, <1>4, <1>5 DEF Restores, Found, Member

LEMMA MoveKeeps ==
  ASSUME TeamInv, Kept, NEW r \in Handlers, NEW q \in RequestSet,
         requests' = [requests EXCEPT ![r] = q], requests[r].pc # "done",
         Fits(q), q.kind \in {requests[r].kind, "none"}, q.pc # "join",
         BothEarly' /\ LastEarly' /\ NotTaken' /\ UndoIsLast', NeverAway', OwnerComesBack'
  PROVE  TeamInv'
<1>1. TeamTyped'
  BY OneRequestMoves DEF Kept, TeamTyped, TeamInv
<1>2. DocsNumbered'
  BY DocsStay DEF Kept
<1>3. RequestsFit'
  <2>1. EmailsStay /\ Fits(q)'
    BY DEF Kept, EmailsStay, Fits
  <2> QED
    BY <2>1, RequestsStillFit
<1>4. InvitationsFit'
  <2>1. \A s \in Handlers : \A i : Joining(s, i)' => Joining(s, i)
    BY OneRequestMoves DEF Joining
  <2> QED
    BY <2>1 DEF Kept, InvitationsFit, TeamInv
<1>5. FewChanging'
  BY FewStay
<1> QED
  BY <1>1, <1>2, <1>3, <1>4, <1>5 DEF TeamInv

LEMMA QuietMove ==
  ASSUME TeamInv, Kept, NEW r \in Handlers, NEW q \in RequestSet,
         requests' = [requests EXCEPT ![r] = q],
         requests[r].pc \notin {"done", "undo"}, requests[r].pc = "verify" => Owners # {},
         Fits(q), q.kind \in {requests[r].kind, "none"},
         q.pc \notin {"apply", "verify", "undo", "join"}, Early(q) => Early(requests[r]),
         q.pc \in (InviteSteps \ {"count"}) \cup AcceptSteps =>
           q.target \in Users /\ ~ (Member(q.target) /\ members[q.target].doc = 1),
         \A s \in Handlers :
           Restores(s) /\ requests[s].kind = "remove" /\ q.pc \in AcceptSteps =>
             \/ requests[r].pc \in AcceptSteps /\ requests[r].target = q.target
             \/ q.target # requests[s].target
  PROVE  TeamInv'
<1>1. BothEarly' /\ LastEarly' /\ NotTaken' /\ UndoIsLast'
  BY MoveKeepsChanges DEF Kept
<1>2. NeverAway'
  BY MoveKeepsAway DEF Kept
<1>3. OwnerComesBack'
  BY MoveKeepsBack DEF Kept
<1> QED
  BY <1>1, <1>2, <1>3, MoveKeeps

LEMMA AnsweredMove ==
  ASSUME TeamInv, Kept, NEW r \in Handlers, requests' = [requests EXCEPT ![r] = Answered],
         requests[r].pc \notin {"done", "undo"}, requests[r].pc = "verify" => Owners # {}
  PROVE  TeamInv'
<1>1. PICK q \in RequestSet : q = Answered
  BY AnsweredIs
<1>2. q.pc = "done" /\ q.kind = "none" /\ Fits(q) /\ ~ Early(q)
  BY <1>1, AnsweredIs, AnsweredFits DEF Early, Changes
<1>3. requests' = [requests EXCEPT ![r] = q]
  BY <1>1
<1>4. q.pc \notin InviteSteps \cup AcceptSteps
  BY <1>2 DEF InviteSteps, AcceptSteps
<1> QED
  BY <1>2, <1>3, <1>4, QuietMove

(* What is known of a request.                                              *)
LEMMA RequestIs ==
  ASSUME TeamInv, NEW r \in Handlers
  PROVE  requests[r] \in RequestSet /\ Fits(requests[r])
  BY DEF TeamInv, TeamTyped, RequestsFit

-----------------------------------------------------------------------------
(* Beginning; roles and removals.                                           *)

LEMMA BeginStep ==
  ASSUME TeamInv, NEW r \in Handlers, Begin(r)
  PROVE  TeamInv'
<1>1. PICK p \in RequestSet : p = requests[r] /\ Fits(p)
  BY RequestIs DEF Fits
<1>2. p.pc = "ready" /\ p.kind \in {"role", "remove", "invite", "revoke"} /\ Kept
  BY <1>1 DEF Begin, RequestSet, Fits
<1>3. PICK u \in Team, target \in Users, role \in Roles :
        /\ requests[r].kind = "invite" => role # "OWNER" /\ canAssignRole(members[u].role, role)
        /\ requests' = [requests EXCEPT ![r] = [requests[r] EXCEPT
             !.pc = IF requests[r].kind = "invite" THEN "count" ELSE requests[r].kind, !.actor = u,
             !.as = members[u].role, !.target = target, !.role = role, !.payer = billingOwner]]
  BY Zenon DEF Begin
<1>4. /\ u \in Users /\ members[u].role \in Roles \cup {"none"} /\ billingOwner \in Users
  BY TeamIsTyped DEF Team, TeamInv, TeamTyped
<1>5. PICK as \in Roles \cup {"none"}, payer \in Users, pc \in {"role", "remove", "revoke", "count"} :
        /\ as = members[u].role /\ payer = billingOwner
        /\ pc = IF p.kind = "invite" THEN "count" ELSE p.kind
  BY <1>2, <1>4
<1>6. PICK q : q = [p EXCEPT !.pc = pc, !.actor = u, !.as = as, !.target = target, !.role = role,
                              !.payer = payer]
  OBVIOUS
<1>7. /\ q \in RequestSet /\ q.pc = pc /\ q.kind = p.kind /\ q.target = target /\ q.role = role
      /\ q.actor = u /\ q.payer = payer
  <2>1. PICK a : a = [p EXCEPT !.pc = pc, !.actor = u]
    OBVIOUS
  <2>2. a \in RequestSet /\ a.pc = pc /\ a.kind = p.kind /\ a.actor = u
    BY <1>4, <2>1 DEF RequestSet, InviteSteps
  <2>3. PICK b : b = [a EXCEPT !.as = as, !.target = target]
    OBVIOUS
  <2>4. b \in RequestSet /\ b.pc = a.pc /\ b.kind = a.kind /\ b.actor = a.actor /\ b.target = target
    BY <2>2, <2>3 DEF RequestSet
  <2>5. q = [b EXCEPT !.role = role, !.payer = payer]
    BY <1>6, <2>1, <2>3
  <2>6. /\ q \in RequestSet /\ q.pc = b.pc /\ q.kind = b.kind /\ q.actor = b.actor
        /\ q.target = b.target /\ q.role = role /\ q.payer = payer
    BY <2>4, <2>5 DEF RequestSet
  <2> QED
    BY <2>2, <2>4, <2>6
<1>8. requests' = [requests EXCEPT ![r] = q]
  BY <1>1, <1>3, <1>5, <1>6
<1>9. q.pc \in {"role", "remove", "revoke", "count"}
  BY <1>2, <1>5, <1>7
<1>10. Fits(q)
  BY <1>1, <1>2, <1>3, <1>4, <1>5, <1>7 DEF Fits, ChangeSteps, InviteSteps, AcceptSteps, Roles
<1>11. Early(q) => Early(requests[r])
  BY <1>1, <1>2, <1>7 DEF Early, Changes
<1>12. q.pc \notin (InviteSteps \ {"count"}) \cup AcceptSteps
  BY <1>9 DEF InviteSteps, AcceptSteps
<1> QED
  BY <1>1, <1>2, <1>7, <1>8, <1>9, <1>10, <1>11, <1>12, QuietMove

LEMMA FindStep ==
  ASSUME TeamInv, NEW r \in Handlers, Find(r)
  PROVE  TeamInv'
<1>1. PICK p \in RequestSet : p = requests[r] /\ Fits(p)
  BY RequestIs DEF Fits
<1>2. p.pc \in {"role", "remove"} /\ Kept
  BY <1>1 DEF Find
<1>3. p.kind = p.pc /\ p.target \in Users /\ p.role \in Roles /\ p.payer \in Users
  BY <1>1, <1>2 DEF Fits
<1>4. PICK was \in Roles \cup {"none"}, doc \in Nat :
        was = members[p.target].role /\ doc = members[p.target].doc
  BY <1>3, TeamIsTyped
<1>5. PICK f : f = [p EXCEPT !.was = was, !.doc = doc]
  OBVIOUS
<1>6. requests' = [requests EXCEPT ![r] = Moved(f,
        IF ~ Member(p.target) \/ ~ Allowed(r, was) THEN "done"
        ELSE IF was = "OWNER" THEN "owners" ELSE "apply")]
  BY <1>1, <1>4, <1>5 DEF Find
<1>7. CASE ~ Member(p.target) \/ ~ Allowed(r, was)
  <2>1. requests' = [requests EXCEPT ![r] = Answered]
    BY <1>6, <1>7 DEF Moved
  <2> QED
    BY <1>1, <1>2, <2>1, AnsweredMove
<1>8. CASE Member(p.target) /\ Allowed(r, was)
  <2>1. PICK pc : pc = IF was = "OWNER" THEN "owners" ELSE "apply"
    OBVIOUS
  <2>2. PICK q : q = [f EXCEPT !.pc = pc]
    OBVIOUS
  <2>3. pc # "done" /\ requests' = [requests EXCEPT ![r] = q]
    BY <1>6, <1>8, <2>1, <2>2 DEF Moved
  <2>4. /\ q \in RequestSet /\ q.pc = pc /\ q.kind = p.kind /\ q.target = p.target /\ q.role = p.role
        /\ q.payer = p.payer /\ q.was = was
    <3>1. /\ f \in RequestSet /\ f.kind = p.kind /\ f.target = p.target /\ f.role = p.role
          /\ f.payer = p.payer /\ f.was = was
      BY <1>5 DEF RequestSet
    <3>2. pc \in ChangeSteps
      BY <2>1 DEF ChangeSteps
    <3>3. /\ q \in RequestSet /\ q.pc = pc /\ q.kind = f.kind /\ q.target = f.target
          /\ q.role = f.role /\ q.payer = f.payer /\ q.was = f.was
      BY <2>2, <3>1, <3>2 DEF RequestSet
    <3> QED
      BY <3>1, <3>3
  <2>5. was \in Roles /\ (p.kind = "role" => was # p.role)
    <3>1. was # "none"
      BY <1>4, <1>8 DEF Member
    <3>2. p.kind = "role" => was # p.role
      BY <1>1, <1>8 DEF Allowed
    <3> QED
      BY <3>1, <3>2
  <2>6. Fits(q)
    <3>1. pc \in {"owners", "apply"} /\ (pc = "owners" => was = "OWNER")
      BY <2>1
    <3>2. p.kind \in {"role", "remove"}
      BY <1>2, <1>3
    <3> QED
      BY <1>3, <2>4, <2>5, <3>1, <3>2 DEF Fits, ChangeSteps, InviteSteps, AcceptSteps
  <2>7. Early(requests[r]) /\ q.pc \in {"owners", "apply"} /\ requests[r].pc \notin {"done", "verify", "undo"}
    BY <1>1, <1>2, <1>3, <2>1, <2>4 DEF Early, Changes
  <2>8. q.pc = "apply" => Spares(q) /\ q.target \notin Owners
    BY <1>4, <2>1, <2>4 DEF Owners, Spares
  <2>9. q.pc \notin InviteSteps \cup AcceptSteps
    BY <2>7 DEF InviteSteps, AcceptSteps
  <2>10. BothEarly' /\ LastEarly' /\ NotTaken' /\ UndoIsLast'
    BY <1>2, <2>3, <2>4, <2>7, <2>8, MoveKeepsChanges DEF Kept
  <2>11. NeverAway'
    BY <1>2, <2>3, <2>4, <2>9, MoveKeepsAway DEF Kept
  <2>12. OwnerComesBack'
    BY <1>2, <2>3, <2>4, <2>7, <2>9, MoveKeepsBack DEF Kept
  <2> QED
    BY <1>1, <1>2, <2>3, <2>4, <2>6, <2>7, <2>10, <2>11, <2>12, MoveKeeps
<1> QED
  BY <1>7, <1>8

LEMMA CheckOwnersStep ==
  ASSUME TeamInv, NEW r \in Handlers, CheckOwners(r)
  PROVE  TeamInv'
<1>1. PICK p \in RequestSet : p = requests[r] /\ Fits(p)
  BY RequestIs DEF Fits
<1>2. p.pc = "owners" /\ Kept
  BY <1>1 DEF CheckOwners
<1>3. CASE ~ Cardinality(Owners) > 1
  <2>1. requests' = [requests EXCEPT ![r] = Answered]
    BY <1>3 DEF CheckOwners, MoveIf, MoveTo, Moved
  <2> QED
    BY <1>1, <1>2, <2>1, AnsweredMove
<1>4. CASE Cardinality(Owners) > 1
  <2>1. PICK q : q = [p EXCEPT !.pc = "apply"]
    OBVIOUS
  <2>2. requests' = [requests EXCEPT ![r] = q]
    BY <1>1, <1>4, <2>1 DEF CheckOwners, MoveIf, MoveTo, Moved
  <2>3. /\ q \in RequestSet /\ q.pc = "apply" /\ q.kind = p.kind /\ q.target = p.target
        /\ q.role = p.role /\ q.payer = p.payer /\ q.was = p.was
    BY <1>1, <2>1 DEF RequestSet, ChangeSteps
  <2>4. Fits(q) /\ p.was = "OWNER" /\ Changes(p)
    BY <1>1, <1>2, <2>3 DEF Fits, ChangeSteps, InviteSteps, AcceptSteps, Changes
  <2>5. Early(requests[r]) /\ requests[r].pc \notin {"done", "verify", "undo"}
    BY <1>1, <1>2, <2>4 DEF Early
  <2>6. Spares(q)
    BY <1>4, AnotherOwner DEF Spares
  <2>7. q.pc \notin InviteSteps \cup AcceptSteps
    BY <2>3 DEF InviteSteps, AcceptSteps
  <2>8. BothEarly' /\ LastEarly' /\ NotTaken' /\ UndoIsLast'
    BY <1>2, <2>2, <2>3, <2>4, <2>5, <2>6, MoveKeepsChanges DEF Kept
  <2>9. NeverAway'
    BY <1>2, <2>2, <2>3, <2>7, MoveKeepsAway DEF Kept
  <2>10. OwnerComesBack'
    BY <1>2, <2>2, <2>3, <2>5, <2>7, MoveKeepsBack DEF Kept
  <2> QED
    BY <1>1, <1>2, <2>2, <2>3, <2>4, <2>5, <2>8, <2>9, <2>10, MoveKeeps
<1> QED
  BY <1>3, <1>4

LEMMA VerifyStep ==
  ASSUME TeamInv, NEW r \in Handlers, Verify(r)
  PROVE  TeamInv'
<1>1. PICK p \in RequestSet : p = requests[r] /\ Fits(p)
  BY RequestIs DEF Fits
<1>2. p.pc = "verify" /\ Kept
  BY <1>1 DEF Verify
<1>3. CASE Owners = {}
  <2>1. PICK q : q = [p EXCEPT !.pc = "undo"]
    OBVIOUS
  <2>2. requests' = [requests EXCEPT ![r] = q]
    BY <1>1, <1>3, <2>1 DEF Verify, Undone, MoveTo, Moved
  <2>3. /\ q \in RequestSet /\ q.pc = "undo" /\ q.kind = p.kind /\ q.target = p.target
        /\ q.role = p.role /\ q.payer = p.payer /\ q.was = p.was /\ q.doc = p.doc
    BY <1>1, <2>1 DEF RequestSet, ChangeSteps
  <2>4. p.was = "OWNER"
    BY <1>1, <1>2, <1>3 DEF NotTaken, TeamInv
  <2>5. Fits(q)
    BY <1>1, <1>2, <2>3, <2>4 DEF Fits, ChangeSteps, InviteSteps, AcceptSteps
  <2>6. ~ Early(q) /\ requests[r].pc = "verify"
    BY <1>1, <1>2, <2>3 DEF Early
  <2>7. q.pc \notin InviteSteps \cup AcceptSteps
    BY <2>3 DEF InviteSteps, AcceptSteps
  <2>8. BothEarly' /\ LastEarly' /\ NotTaken' /\ UndoIsLast'
    BY <1>2, <1>3, <2>2, <2>3, <2>6, MoveKeepsChanges DEF Kept
  <2>9. NeverAway'
    BY <1>2, <2>2, <2>3, <2>7, MoveKeepsAway DEF Kept
  <2>10. OwnerComesBack'
    BY <1>1, <1>2, <2>2, <2>3, <2>7, MoveKeepsBack DEF Kept
  <2> QED
    BY <1>1, <1>2, <2>2, <2>3, <2>5, <2>6, <2>8, <2>9, <2>10, MoveKeeps
<1>4. CASE Owners # {} /\ p.was = "OWNER"
  <2>1. PICK q : q = [p EXCEPT !.pc = "payer"]
    OBVIOUS
  <2>2. requests' = [requests EXCEPT ![r] = q]
    BY <1>1, <1>4, <2>1 DEF Verify, Undone, MoveIf, MoveTo, Moved
  <2>3. /\ q \in RequestSet /\ q.pc = "payer" /\ q.kind = p.kind /\ q.target = p.target
        /\ q.role = p.role /\ q.payer = p.payer /\ q.was = p.was
    BY <1>1, <2>1 DEF RequestSet, ChangeSteps
  <2>4. Fits(q) /\ ~ Early(q)
    BY <1>1, <1>2, <2>3 DEF Fits, Early, ChangeSteps, InviteSteps, AcceptSteps
  <2>5. q.pc \notin InviteSteps \cup AcceptSteps
    BY <2>3 DEF InviteSteps, AcceptSteps
  <2> QED
    BY <1>1, <1>2, <1>4, <2>2, <2>3, <2>4, <2>5, QuietMove
<1>5. CASE Owners # {} /\ p.was # "OWNER"
  <2>1. requests' = [requests EXCEPT ![r] = Answered]
    BY <1>1, <1>5 DEF Verify, Undone, MoveIf, MoveTo, Moved
  <2> QED
    BY <1>1, <1>2, <1>5, <2>1, AnsweredMove
<1> QED
  BY <1>3, <1>4, <1>5

LEMMA ChoosePayerStep ==
  ASSUME TeamInv, NEW r \in Handlers, ChoosePayer(r)
  PROVE  TeamInv'
<1>1. PICK p \in RequestSet : p = requests[r] /\ Fits(p)
  BY RequestIs DEF Fits
<1>2. p.pc = "payer" /\ Kept
  BY <1>1 DEF ChoosePayer
<1>3. CASE requests' = [requests EXCEPT ![r] = Answered]
  BY <1>1, <1>2, <1>3, AnsweredMove
<1>4. CASE \E u \in Owners : requests' = [requests EXCEPT ![r].pc = "bill", ![r].payer = u]
  <2>1. PICK u \in Owners : requests' = [requests EXCEPT ![r].pc = "bill", ![r].payer = u]
    BY <1>4
  <2>2. PICK q : q = [p EXCEPT !.pc = "bill", !.payer = u]
    OBVIOUS
  <2>3. requests' = [requests EXCEPT ![r] = q]
    BY <1>1, <2>1, <2>2, TeamIsTyped
  <2>4. u \in Users
    BY DEF Owners
  <2>5. /\ q \in RequestSet /\ q.pc = "bill" /\ q.kind = p.kind /\ q.target = p.target
        /\ q.role = p.role /\ q.payer = u /\ q.was = p.was
    BY <1>1, <2>2, <2>4 DEF RequestSet, ChangeSteps
  <2>6. Fits(q) /\ ~ Early(q)
    BY <1>1, <1>2, <2>4, <2>5 DEF Fits, Early, ChangeSteps, InviteSteps, AcceptSteps
  <2>7. q.pc \notin InviteSteps \cup AcceptSteps
    BY <2>5 DEF InviteSteps, AcceptSteps
  <2> QED
    BY <1>1, <1>2, <2>3, <2>5, <2>6, <2>7, QuietMove
<1> QED
  BY <1>3, <1>4 DEF ChoosePayer, MoveTo, Moved

-----------------------------------------------------------------------------
(* Invitations: requests that only look.                                    *)

LEMMA InvitationsAre ==
  ASSUME TeamInv
  PROVE  /\ invitations \in Seq(InvitationSet) /\ Len(invitations) \in Nat
         /\ DOMAIN invitations = 1..Len(invitations)
         /\ \A i \in DOMAIN invitations :
              i \in Nat /\ invitations[i] \in InvitationSet /\ invitations[i].email \in Users
<1>1. invitations \in Seq(InvitationSet)
  BY DEF TeamInv, TeamTyped
<1>2. \A i \in DOMAIN invitations : invitations[i] \in InvitationSet
  BY <1>1
<1> QED
  BY <1>1, <1>2 DEF InvitationSet

(* A step within a request that keeps what it is about.                     *)
LEMMA InviteMove ==
  ASSUME TeamInv, Kept, NEW r \in Handlers, NEW q \in RequestSet, NEW p \in RequestSet,
         p = requests[r], p.pc \in InviteSteps, q.pc \in InviteSteps \ {"count"},
         q.kind = p.kind, q.actor = p.actor, q.target = p.target, q.role = p.role,
         requests' = [requests EXCEPT ![r] = q],
         p.pc = "count" => ~ Member(p.target)
  PROVE  TeamInv'
<1>1. Fits(p) /\ p.pc \notin {"done", "undo", "verify"}
  BY RequestIs DEF Fits, InviteSteps
<1>2. p.target \in Users /\ p.kind = "invite"
  BY <1>1 DEF Fits
<1>3. Fits(q) /\ ~ Early(q)
  BY <1>1, <1>2 DEF Fits, Early, Changes, ChangeSteps, InviteSteps, AcceptSteps
<1>4. q.pc \notin {"apply", "verify", "undo", "join"} \cup AcceptSteps
  BY DEF InviteSteps, AcceptSteps
<1>5. ~ (Member(q.target) /\ members[q.target].doc = 1)
  BY <1>2 DEF NeverAway, NotInvited, TeamInv
<1> QED
  BY <1>1, <1>2, <1>3, <1>4, <1>5, QuietMove

LEMMA CountReplacedStep ==
  ASSUME TeamInv, NEW r \in Handlers, CountReplaced(r)
  PROVE  TeamInv'
<1>1. PICK p \in RequestSet : p = requests[r] /\ Fits(p)
  BY RequestIs DEF Fits
<1>2. p.pc = "count" /\ Kept
  BY <1>1 DEF CountReplaced
<1>3. PICK f : f = [p EXCEPT !.replacing = Cardinality(PendingFor(p.target))]
  OBVIOUS
<1>4. requests' = [requests EXCEPT ![r] = Moved(f, IF Member(p.target) THEN "done" ELSE "room")]
  BY <1>1, <1>3 DEF CountReplaced
<1>5. CASE Member(p.target)
  <2>1. requests' = [requests EXCEPT ![r] = Answered]
    BY <1>4, <1>5 DEF Moved
  <2> QED
    BY <1>1, <1>2, <2>1, AnsweredMove
<1>6. CASE ~ Member(p.target)
  <2>1. PICK n : n = Cardinality(PendingFor(p.target))
    OBVIOUS
  <2>2. n \in Nat
    <3>1. PendingFor(p.target) \subseteq 1..Len(invitations) /\ Len(invitations) \in Nat
      BY DEF PendingFor, Pending, TeamInv, TeamTyped
    <3>2. IsFiniteSet(1..Len(invitations))
      BY <3>1, FS_Interval
    <3> QED
      BY <2>1, <3>1, <3>2, FS_Subset, FS_CardinalityType
  <2>3. PICK q : q = [f EXCEPT !.pc = "room"]
    OBVIOUS
  <2>4. requests' = [requests EXCEPT ![r] = q]
    BY <1>4, <1>6, <2>3 DEF Moved
  <2>5. /\ f \in RequestSet /\ f.kind = p.kind /\ f.actor = p.actor /\ f.target = p.target
        /\ f.role = p.role
    BY <1>3, <2>1, <2>2 DEF RequestSet
  <2>6. /\ q \in RequestSet /\ q.pc = "room" /\ q.kind = f.kind /\ q.actor = f.actor
        /\ q.target = f.target /\ q.role = f.role
    BY <2>3, <2>5 DEF RequestSet, InviteSteps
  <2>7. p.pc \in InviteSteps /\ q.pc \in InviteSteps \ {"count"}
    BY <1>2, <2>6 DEF InviteSteps
  <2> QED
    BY <1>1, <1>2, <1>6, <2>4, <2>5, <2>6, <2>7, InviteMove
<1> QED
  BY <1>5, <1>6

(* A step of the count of seats, or the decision after it.                  *)
LEMMA CountingMove ==
  ASSUME TeamInv, Kept, NEW r \in Handlers, NEW q \in RequestSet, NEW p \in RequestSet,
         p = requests[r], p.pc \in {"room", "seat"},
         q.pc \in IF p.pc = "room" THEN {"room", "replace"} ELSE {"seat", "claim"},
         q.kind = p.kind, q.actor = p.actor, q.target = p.target, q.role = p.role,
         q.invitation = p.invitation, requests' = [requests EXCEPT ![r] = q]
  PROVE  TeamInv'
<1>1. CASE p.pc = "room"
  <2>1. p.pc \in InviteSteps /\ q.pc \in InviteSteps \ {"count"} /\ p.pc # "count"
    BY <1>1 DEF InviteSteps
  <2> QED
    BY <2>1, InviteMove
<1>2. CASE p.pc = "seat"
  <2>1. Fits(p) /\ p.pc \in AcceptSteps /\ q.pc \in AcceptSteps
    BY <1>2, RequestIs DEF Fits, AcceptSteps
  <2>2. p.target \in Users /\ Fits(q) /\ ~ Early(q)
    BY <1>2, <2>1 DEF Fits, Early, ChangeSteps, InviteSteps, AcceptSteps
  <2>3. ~ (Member(q.target) /\ members[q.target].doc = 1)
    BY <2>1, <2>2 DEF NeverAway, NotInvited, TeamInv
  <2>4. /\ requests[r].pc \in AcceptSteps /\ requests[r].target = q.target
        /\ requests[r].pc \notin {"done", "undo", "verify"} /\ requests[r].kind = q.kind
    BY <1>2, <2>1
  <2>5. q.pc \notin {"apply", "verify", "undo", "join"} /\ q.target \in Users
    BY <1>2, <2>2
  <2> QED
    BY <2>2, <2>3, <2>4, <2>5, QuietMove
<1> QED
  BY <1>1, <1>2

LEMMA AnswerIs ==
  ASSUME TeamInv, NEW query
  PROVE  /\ Answer(query) \subseteq Users /\ IsFiniteSet(Answer(query))
         /\ Cardinality(Answer(query)) \in Nat
<1>1. Answer(query) \subseteq Users
  BY InvitationsAre DEF Answer, Team, Pending
<1> QED
  BY <1>1, TeamAssumption, FS_Subset, FS_CardinalityType

LEMMA CountIs ==
  ASSUME TeamInv, NEW r \in Handlers, ReadPlan(r) \/ CountSeats(r)
  PROVE  \E p \in RequestSet, q \in RequestSet :
           /\ p = requests[r] /\ requests' = [requests EXCEPT ![r] = q] /\ Kept
           /\ p.pc \in {"room", "seat"} /\ q.pc = p.pc /\ q.kind = p.kind /\ q.actor = p.actor
           /\ q.target = p.target /\ q.role = p.role /\ q.invitation = p.invitation /\ q.limit = p.limit
           /\ \/ q.first = p.first /\ q.counted = p.counted
              \/ q.counted = Answer(q.first)
<1>1. PICK p \in RequestSet : p = requests[r]
  BY RequestIs
<1>2. p.pc \in {"room", "seat"} /\ Kept
  BY <1>1 DEF ReadPlan, CountSeats
<1>3. CASE ReadPlan(r)
  <2>1. PICK q : q = [p EXCEPT !.allowed = seats]
    OBVIOUS
  <2>2. requests' = [requests EXCEPT ![r] = q]
    BY <1>1, <1>3, <2>1 DEF ReadPlan
  <2>3. seats \in Nat
    BY TeamAssumption DEF TeamInv, TeamTyped
  <2>4. /\ q \in RequestSet /\ q.pc = p.pc /\ q.kind = p.kind /\ q.actor = p.actor
        /\ q.target = p.target /\ q.role = p.role /\ q.invitation = p.invitation /\ q.limit = p.limit
        /\ q.first = p.first /\ q.counted = p.counted
    BY <2>1, <2>3 DEF RequestSet
  <2> QED
    BY <1>1, <1>2, <2>2, <2>4
<1>4. CASE CountSeats(r)
  <2>1. PICK query \in {"members", "invitations"} :
          requests' = [requests EXCEPT ![r] = [requests[r] EXCEPT
            !.first = query, !.counted = Answer(query)]]
    BY <1>4, Zenon DEF CountSeats
  <2>2. PICK found \in SUBSET Users : found = Answer(query)
    BY AnswerIs
  <2>3. PICK q : q = [p EXCEPT !.first = query, !.counted = found]
    OBVIOUS
  <2>4. requests' = [requests EXCEPT ![r] = q]
    BY <1>1, <2>1, <2>2, <2>3
  <2>5. /\ q \in RequestSet /\ q.pc = p.pc /\ q.kind = p.kind /\ q.actor = p.actor
        /\ q.target = p.target /\ q.role = p.role /\ q.invitation = p.invitation /\ q.limit = p.limit
        /\ q.first = query /\ q.counted = found
    BY <2>3 DEF RequestSet
  <2> QED
    BY <1>1, <1>2, <2>2, <2>4, <2>5
<1> QED
  BY <1>3, <1>4

LEMMA CountStep ==
  ASSUME TeamInv, NEW r \in Handlers, ReadPlan(r) \/ CountSeats(r)
  PROVE  TeamInv'
<1>1. PICK p \in RequestSet, q \in RequestSet :
        /\ p = requests[r] /\ requests' = [requests EXCEPT ![r] = q] /\ Kept
        /\ p.pc \in {"room", "seat"} /\ q.pc = p.pc /\ q.kind = p.kind /\ q.actor = p.actor
        /\ q.target = p.target /\ q.role = p.role /\ q.invitation = p.invitation
  BY CountIs
<1> QED
  BY <1>1, CountingMove

LEMMA DecidedIs ==
  ASSUME NEW p \in RequestSet
  PROVE  /\ Decided(p) \in RequestSet /\ Decided(p).pc = p.pc /\ Decided(p).kind = p.kind
         /\ Decided(p).actor = p.actor /\ Decided(p).target = p.target /\ Decided(p).role = p.role
         /\ Decided(p).invitation = p.invitation /\ Decided(p).limit = p.limit
         /\ Decided(p).first = "none"
<1> DEFINE Same(v, w) == /\ v.pc = w.pc /\ v.kind = w.kind /\ v.actor = w.actor /\ v.target = w.target
                         /\ v.role = w.role /\ v.invitation = w.invitation /\ v.limit = w.limit
<1>1. PICK v : v = [p EXCEPT !.allowed = 0]
  OBVIOUS
<1>2. v \in RequestSet /\ Same(v, p)
  BY <1>1 DEF RequestSet
<1>3. PICK w : w = [v EXCEPT !.first = "none"]
  OBVIOUS
<1>4. w \in RequestSet /\ Same(w, v) /\ w.first = "none"
  BY <1>2, <1>3 DEF RequestSet
<1>5. PICK z : z = [w EXCEPT !.counted = {}]
  OBVIOUS
<1>6. z \in RequestSet /\ Same(z, w) /\ z.first = w.first
  BY <1>4, <1>5 DEF RequestSet
<1>7. Decided(p) = z
  BY <1>1, <1>3, <1>5 DEF Decided
<1> QED
  BY <1>2, <1>4, <1>6, <1>7

(* The decision, and what the request goes on as if there is room.          *)
LEMMA RoomIs ==
  ASSUME TeamInv, NEW r \in Handlers, CheckRoom(r)
  PROVE  \E p \in RequestSet, q \in RequestSet :
           /\ p = requests[r] /\ p.pc = "room" /\ Kept
           /\ requests' = [requests EXCEPT ![r] = Answered] \/ requests' = [requests EXCEPT ![r] = q]
           /\ q.pc = "replace" /\ q.kind = p.kind /\ q.actor = p.actor
           /\ q.target = p.target /\ q.role = p.role /\ q.invitation = p.invitation
<1>1. PICK p \in RequestSet : p = requests[r]
  BY RequestIs
<1>2. PICK f \in RequestSet :
        /\ f = Decided(p) /\ f.kind = p.kind /\ f.actor = p.actor /\ f.target = p.target
        /\ f.role = p.role /\ f.invitation = p.invitation
  BY DecidedIs
<1>3. PICK q : q = [f EXCEPT !.pc = "replace"]
  OBVIOUS
<1>4. /\ q \in RequestSet /\ q.pc = "replace" /\ q.kind = f.kind /\ q.actor = f.actor
      /\ q.target = f.target /\ q.role = f.role /\ q.invitation = f.invitation
  BY <1>3 DEF RequestSet, InviteSteps
<1>5. PICK pc \in {"replace", "done"} : requests' = [requests EXCEPT ![r] = Moved(f, pc)]
  BY <1>1, <1>2 DEF CheckRoom
<1>6. requests' = [requests EXCEPT ![r] = Answered] \/ requests' = [requests EXCEPT ![r] = q]
  BY <1>3, <1>5 DEF Moved
<1>7. p.pc = "room" /\ Kept
  BY <1>1 DEF CheckRoom
<1>8. /\ q.kind = p.kind /\ q.actor = p.actor /\ q.target = p.target /\ q.role = p.role
      /\ q.invitation = p.invitation
  BY <1>2, <1>4
<1> QED
  BY <1>1, <1>4, <1>6, <1>7, <1>8

LEMMA CheckRoomStep ==
  ASSUME TeamInv, NEW r \in Handlers, CheckRoom(r)
  PROVE  TeamInv'
<1>1. PICK p \in RequestSet, q \in RequestSet :
        /\ p = requests[r] /\ p.pc = "room" /\ Kept
        /\ requests' = [requests EXCEPT ![r] = Answered] \/ requests' = [requests EXCEPT ![r] = q]
        /\ q.pc = "replace" /\ q.kind = p.kind /\ q.actor = p.actor
        /\ q.target = p.target /\ q.role = p.role /\ q.invitation = p.invitation
  BY RoomIs
<1> QED
  BY <1>1, AnsweredMove, CountingMove

LEMMA AcceptStep ==
  ASSUME TeamInv, NEW r \in Handlers, Accept(r)
  PROVE  TeamInv'
<1>1. PICK p \in RequestSet : p = requests[r] /\ Fits(p)
  BY RequestIs DEF Fits
<1>2. p.pc = "ready" /\ p.kind = "accept" /\ Kept
  BY <1>1 DEF Accept
<1>3. PICK i \in Pending :
        /\ invitations[i].during \intersect InFlight = {}
        /\ requests' = [requests EXCEPT ![r] = [requests[r] EXCEPT
             !.pc = IF Member(invitations[i].email) THEN "claim" ELSE "seat",
             !.invitation = i, !.target = invitations[i].email]]
  BY Zenon DEF Accept
<1>4. PICK t, pc : t = invitations[i].email /\ pc = IF Member(t) THEN "claim" ELSE "seat"
  OBVIOUS
<1>5. i \in DOMAIN invitations /\ i \in Nat /\ t \in Users
  BY <1>4, InvitationsAre DEF Pending
<1>6. PICK q : q = [p EXCEPT !.pc = pc, !.invitation = i, !.target = t]
  OBVIOUS
<1>7. requests' = [requests EXCEPT ![r] = q]
  BY <1>1, <1>3, <1>4, <1>6
<1>8. pc \in {"claim", "seat"} /\ pc \in AcceptSteps
  BY <1>4 DEF AcceptSteps
<1>9. /\ q \in RequestSet /\ q.pc = pc /\ q.kind = p.kind /\ q.invitation = i /\ q.target = t
  BY <1>5, <1>6, <1>8 DEF RequestSet
<1>10. Fits(q) /\ ~ Early(q)
  BY <1>2, <1>4, <1>5, <1>8, <1>9 DEF Fits, Early, Changes, ChangeSteps, InviteSteps, AcceptSteps
<1>11. ~ (Member(t) /\ members[t].doc = 1)
  BY <1>4, <1>5 DEF NeverAway, NotInvited, TeamInv
<1>12. ASSUME NEW s \in Handlers, Restores(s), requests[s].kind = "remove"
       PROVE  t # requests[s].target
  <2>1. s \in InFlight
    BY <1>12 DEF Restores, InFlight
  <2>2. t = requests[s].target => s \in invitations[i].during
    BY <1>4, <1>5, <1>12 DEF Restores, Barred
  <2> QED
    BY <1>3, <2>1, <2>2
<1> QED
  BY <1>1, <1>2, <1>5, <1>7, <1>8, <1>9, <1>10, <1>11, <1>12, QuietMove

LEMMA UncountedIs ==
  ASSUME NEW q
  PROVE  IsFiniteSet(Uncounted(q)) /\ Cardinality(Uncounted(q)) \in Nat
<1>1. Uncounted(q) \subseteq Users
  BY DEF Uncounted
<1> QED
  BY <1>1, TeamAssumption, FS_Subset, FS_CardinalityType

LEMMA SeatIs ==
  ASSUME TeamInv, NEW r \in Handlers, CheckSeat(r)
  PROVE  \E p \in RequestSet, q \in RequestSet :
           /\ p = requests[r] /\ p.pc = "seat" /\ p.first # "none" /\ Kept
           /\ \/ MoveTo(r, "done") /\ requests' = [requests EXCEPT ![r] = Answered]
              \/ requests' = [requests EXCEPT ![r] = q] /\ Taken(p) <= p.allowed
           /\ q.pc = "claim" /\ q.kind = p.kind /\ q.actor = p.actor /\ q.first = "none"
           /\ q.target = p.target /\ q.role = p.role /\ q.invitation = p.invitation
           /\ q.limit = p.allowed + Cardinality(Uncounted(p))
<1>1. PICK p \in RequestSet : p = requests[r]
  BY RequestIs
<1>2. PICK n \in Nat : n = p.allowed + Cardinality(Uncounted(p))
  BY UncountedIs DEF RequestSet
<1>3. PICK g \in RequestSet :
        /\ g = Decided(p) /\ g.kind = p.kind /\ g.actor = p.actor /\ g.target = p.target
        /\ g.role = p.role /\ g.invitation = p.invitation /\ g.first = "none"
  BY DecidedIs
<1>4. PICK f : f = [g EXCEPT !.limit = n]
  OBVIOUS
<1>5. /\ f \in RequestSet /\ f.kind = g.kind /\ f.actor = g.actor /\ f.target = g.target
      /\ f.role = g.role /\ f.invitation = g.invitation /\ f.first = g.first /\ f.limit = n
  BY <1>4 DEF RequestSet
<1>6. PICK q : q = [f EXCEPT !.pc = "claim"]
  OBVIOUS
<1>7. /\ q \in RequestSet /\ q.pc = "claim" /\ q.kind = f.kind /\ q.actor = f.actor
      /\ q.target = f.target /\ q.role = f.role /\ q.invitation = f.invitation
      /\ q.first = f.first /\ q.limit = f.limit
  BY <1>5, <1>6 DEF RequestSet, AcceptSteps
<1>8. /\ p.pc = "seat" /\ p.first # "none" /\ Kept
      /\ requests' = [requests EXCEPT ![r] = Moved(f, IF Taken(p) <= p.allowed THEN "claim" ELSE "done")]
  BY <1>1, <1>2, <1>3, <1>4 DEF CheckSeat
<1>9. \/ MoveTo(r, "done") /\ requests' = [requests EXCEPT ![r] = Answered]
      \/ requests' = [requests EXCEPT ![r] = q] /\ Taken(p) <= p.allowed
  BY <1>6, <1>8 DEF Moved, MoveTo
<1>10. /\ q.kind = p.kind /\ q.actor = p.actor /\ q.target = p.target /\ q.role = p.role
       /\ q.invitation = p.invitation /\ q.first = "none"
       /\ q.limit = p.allowed + Cardinality(Uncounted(p))
  BY <1>2, <1>3, <1>5, <1>7
<1> QED
  BY <1>1, <1>7, <1>8, <1>9, <1>10

LEMMA CheckSeatStep ==
  ASSUME TeamInv, NEW r \in Handlers, CheckSeat(r)
  PROVE  TeamInv'
<1>1. PICK p \in RequestSet, q \in RequestSet :
        /\ p = requests[r] /\ p.pc = "seat" /\ Kept
        /\ requests' = [requests EXCEPT ![r] = Answered] \/ requests' = [requests EXCEPT ![r] = q]
        /\ q.pc = "claim" /\ q.kind = p.kind /\ q.actor = p.actor
        /\ q.target = p.target /\ q.role = p.role /\ q.invitation = p.invitation
  BY SeatIs
<1> QED
  BY <1>1, AnsweredMove, CountingMove

-----------------------------------------------------------------------------
(* Changes of the members.                                                  *)

LEMMA OnlyThree ==
  ASSUME TeamInv, NEW r \in Handlers, NEW s \in Handlers, NEW t \in Handlers,
         Changes(requests[r]), Changes(requests[s]), Changes(requests[t]), r # s, r # t
  PROVE  s = t
  BY DEF FewChanging, TeamInv

(* A request makes its change.                                              *)
LEMMA ApplyKeepsChanges ==
  ASSUME TeamInv, NEW r \in Handlers, NEW p \in RequestSet, NEW q \in RequestSet,
         p = requests[r], p.pc = "apply", Changes(p), requests' = [requests EXCEPT ![r] = q],
         q.pc = "done" \/ (q.pc = "verify" /\ q.was = p.was),
         NEW new, p.was # "OWNER" \/ new # "OWNER",
         \A u \in Users : members'[u].doc = members[u].doc,
         p.target \in Users, Owners' = IF new = "OWNER" THEN Owners \cup {p.target} ELSE Owners \ {p.target}
  PROVE  /\ BothEarly' /\ LastEarly' /\ NotTaken' /\ UndoIsLast'
         /\ Owners' = {} => /\ p.was = "OWNER" /\ p.target \in Owners
                            /\ members[p.target].doc = 1
<1>1. \A s \in Handlers : requests'[s] = IF s = r THEN q ELSE requests[s]
  BY OneRequestMoves
<1>2. Early(requests[r]) /\ ~ Early(q) /\ Changes(requests[r])
  BY DEF Early
<1>3. \A s \in Handlers : Early(requests[s])' => s # r /\ Early(requests[s]) /\ Changes(requests[s])
  BY <1>1, <1>2 DEF Early, Changes
<1>4. /\ Owners # {}
      /\ Spares(p) \/ (p.was = "OWNER" /\ members[p.target].doc = 1)
  BY <1>2 DEF LastEarly, TeamInv
<1>5. Spares(p) => Owners' # {}
  BY <1>4 DEF Spares
<1>6. \A s \in Handlers :
        s # r /\ Early(requests[s]) =>
          /\ \A u \in Owners : members[u].doc = 1
          /\ Spares(p) /\ (p.was # "OWNER" => p.target \notin Owners)
          /\ requests[s].pc = "apply" =>
               Spares(requests[s]) /\ (requests[s].was # "OWNER" => requests[s].target \notin Owners)
  BY <1>2 DEF BothEarly, TeamInv
<1>7. BothEarly'
  <2> SUFFICES ASSUME NEW s \in Handlers, NEW t \in Handlers, s # t,
                      Early(requests[s])', Early(requests[t])'
               PROVE  FALSE
    BY DEF BothEarly
  <2> QED
    BY <1>2, <1>3, OnlyThree
<1>8. LastEarly'
  <2> SUFFICES ASSUME NEW s \in Handlers, Early(requests[s])'
               PROVE  /\ Owners' # {}
                      /\ requests'[s].pc = "apply" =>
                           Spares(requests[s])'
                             \/ (requests'[s].was = "OWNER" /\ members'[requests'[s].target].doc = 1)
    BY DEF LastEarly
  <2>1. s # r /\ Early(requests[s]) /\ requests'[s] = requests[s]
    BY <1>1, <1>3
  <2>2. Owners' # {}
    BY <1>5, <1>6, <2>1
  <2>3. ASSUME requests[s].pc = "apply", requests[s].target \in Owners',
               \A u \in Owners' : u = requests[s].target
        PROVE  requests[s].was = "OWNER" /\ members'[requests[s].target].doc = 1
    <3>1. requests[s].target # p.target
      BY <1>4, <1>6, <2>1, <2>3
    <3>2. requests[s].target \in Owners /\ requests[s].target \in Users
      BY <2>3, <3>1 DEF Owners
    <3> QED
      BY <1>6, <2>1, <2>3, <3>2
  <2> QED
    BY <2>1, <2>2, <2>3 DEF Spares
<1>9. NotTaken'
  <2> SUFFICES ASSUME NEW s \in Handlers, requests'[s].pc = "verify", requests'[s].was # "OWNER"
               PROVE  /\ Owners' # {}
                      /\ \A z \in Handlers : requests'[z].pc = "apply" => Spares(requests[z])'
    BY DEF NotTaken
  <2>1. \A z \in Handlers : requests'[z].pc = "apply" =>
          z # r /\ Early(requests[z]) /\ Changes(requests[z]) /\ requests'[z] = requests[z]
    <3> SUFFICES ASSUME NEW z \in Handlers, requests'[z].pc = "apply"
                 PROVE  z # r /\ Early(requests[z]) /\ Changes(requests[z]) /\ requests'[z] = requests[z]
      OBVIOUS
    <3>1. z # r /\ requests'[z] = requests[z]
      BY <1>1
    <3>2. Fits(requests[z])
      BY RequestIs
    <3> QED
      BY <3>1, <3>2 DEF Fits, Early, Changes, ChangeSteps
  <2>2. CASE s = r
    <3>1. Spares(p) /\ p.was # "OWNER"
      BY <1>1, <1>4, <2>2
    <3>2. \A z \in Handlers : requests'[z].pc = "apply" => Spares(requests[z])'
      <4> SUFFICES ASSUME NEW z \in Handlers, requests'[z].pc = "apply", requests[z].target \in Owners'
                   PROVE  \E u \in Owners' : u # requests[z].target
        BY <2>1 DEF Spares
      <4>1. p.target \notin Owners /\ Spares(requests[z])
        BY <1>6, <2>1, <3>1
      <4> QED
        BY <1>4, <4>1 DEF Spares
    <3> QED
      BY <1>5, <3>1, <3>2
  <2>3. CASE s # r
    <3>1. requests[s].pc = "verify" /\ requests[s].was # "OWNER"
      BY <1>1, <2>3
    <3>2. Fits(requests[s])
      BY RequestIs
    <3>3. Changes(requests[s])
      BY <3>1, <3>2 DEF Fits, Changes, ChangeSteps
    <3>4. Spares(p)
      BY <3>1 DEF NotTaken, TeamInv
    <3>5. \A z \in Handlers : requests'[z].pc # "apply"
      <4> SUFFICES ASSUME NEW z \in Handlers, requests'[z].pc = "apply" PROVE FALSE
        OBVIOUS
      <4>1. z = s
        BY <1>2, <2>1, <2>3, <3>3, OnlyThree
      <4> QED
        BY <2>1, <3>1, <4>1
    <3> QED
      BY <1>5, <3>4, <3>5
  <2> QED
    BY <2>2, <2>3
<1>10. UndoIsLast'
  <2>1. \A s \in Handlers : requests[s].pc # "undo"
    BY <1>2 DEF UndoIsLast, TeamInv
  <2> QED
    BY <1>1, <2>1 DEF UndoIsLast
<1>11. Owners' = {} => p.was = "OWNER" /\ p.target \in Owners /\ members[p.target].doc = 1
  BY <1>4, <1>5 DEF Spares
<1> QED
  BY <1>7, <1>8, <1>9, <1>10, <1>11

(* The document is saved, or removed: it keeps its number.                  *)
LEMMA ApplyKeeps ==
  ASSUME TeamInv, NEW r \in Handlers, NEW p \in RequestSet, NEW q \in RequestSet,
         p = requests[r], p.pc = "apply", Found(r), requests' = [requests EXCEPT ![r] = q],
         \/ q.pc = "done" /\ q.kind = "none" /\ p.was # "OWNER"
         \/ q.pc = "verify" /\ q.kind = p.kind /\ q.was = p.was /\ q.target = p.target /\ q.doc = p.doc,
         Fits(q),
         NEW new \in Roles \cup {"none"}, p.was # "OWNER" \/ new # "OWNER",
         p.kind = "role" => new # "none", p.kind = "remove" => new = "none",
         members' = [members EXCEPT ![p.target].role = new],
         UNCHANGED <<invitations, billingOwner, seats>>
  PROVE  TeamInv'
<1>1. Fits(p) /\ p.pc \notin InviteSteps \cup AcceptSteps
  BY RequestIs DEF Fits, InviteSteps, AcceptSteps
<1>2. p.target \in Users /\ p.kind \in {"role", "remove"} /\ Changes(p)
  BY <1>1 DEF Fits, ChangeSteps, Changes
<1>3. \A s \in Handlers : requests'[s] = IF s = r THEN q ELSE requests[s]
  BY OneRequestMoves
<1>4. PICK m : m = [members[p.target] EXCEPT !.role = new]
  OBVIOUS
<1>5. m \in MemberSet /\ m.role = new /\ m.doc = members[p.target].doc
  BY <1>2, <1>4, TeamIsTyped DEF MemberSet
<1>6. members' = [members EXCEPT ![p.target] = m]
  BY <1>4
<1>7. /\ members' \in [Users -> MemberSet]
      /\ \A u \in Users : members'[u] = IF u = p.target THEN m ELSE members[u]
  BY <1>2, <1>5, <1>6, TeamIsTyped
<1>8. \A u \in Users : members'[u].doc = members[u].doc
  BY <1>5, <1>7
<1>9. Owners' = IF new = "OWNER" THEN Owners \cup {p.target} ELSE Owners \ {p.target}
  BY <1>2, <1>5, <1>7 DEF Owners
<1>10. /\ BothEarly' /\ LastEarly' /\ NotTaken' /\ UndoIsLast'
       /\ Owners' = {} => /\ p.was = "OWNER" /\ p.target \in Owners
                          /\ members[p.target].doc = 1
  BY <1>2, <1>8, <1>9, ApplyKeepsChanges
<1>11. TeamTyped'
  BY <1>7, OneRequestMoves DEF TeamTyped, TeamInv
<1>12. DocsNumbered'
  BY <1>8, DocsStay
<1>13. RequestsFit'
  <2>1. EmailsStay /\ Fits(q)'
    BY DEF EmailsStay, Fits
  <2> QED
    BY <2>1, RequestsStillFit
<1>14. InvitationsFit'
  <2>1. \A s \in Handlers : \A i : Joining(s, i)' => Joining(s, i)
    BY <1>3 DEF Joining
  <2> QED
    BY <2>1 DEF InvitationsFit, TeamInv
<1>15. FewChanging'
  BY <1>2, FewStay
<1>16. q.pc \notin InviteSteps \cup AcceptSteps
  BY DEF InviteSteps, AcceptSteps
<1>17. NeverAway'
  <2> SUFFICES ASSUME NEW t \in Users, Member(t)', members'[t].doc = 1 PROVE NotInvited(t)'
    BY DEF NeverAway
  <2>1. Member(t) /\ members[t].doc = 1
    BY <1>7, <1>8 DEF Member, Found
  <2>2. NotInvited(t)
    BY <2>1 DEF NeverAway, TeamInv
  <2> QED
    BY <1>3, <1>16, <2>2 DEF NotInvited
<1>18. OwnerComesBack'
  <2> SUFFICES ASSUME Owners' = {} PROVE Restores(r)'
    BY DEF OwnerComesBack
  <2>1. p.was = "OWNER" /\ members[p.target].doc = 1 /\ Member(p.target)
    BY <1>10 DEF Found
  <2>2. requests'[r] = q /\ q.pc = "verify"
    BY <1>3, <2>1
  <2>3. p.kind = "role" => Found(r)'
    BY <1>2, <1>5, <1>7, <2>2 DEF Found, Member
  <2>4. p.kind = "remove" => ~ Member(p.target)'
    BY <1>2, <1>5, <1>7 DEF Member
  <2>5. NotInvited(p.target)
    BY <1>2, <2>1 DEF NeverAway, TeamInv
  <2>6. Barred(r)'
    BY <1>3, <1>16, <2>2, <2>5 DEF Barred, NotInvited
  <2> QED
    BY <2>1, <2>2, <2>3, <2>4, <2>6 DEF Restores, Member
<1> QED
  BY <1>10, <1>11, <1>12, <1>13, <1>14, <1>15, <1>17, <1>18 DEF TeamInv

LEMMA ChangeRoleStep ==
  ASSUME TeamInv, NEW r \in Handlers, ChangeRole(r)
  PROVE  TeamInv'
<1>1. PICK p \in RequestSet : p = requests[r] /\ Fits(p)
  BY RequestIs DEF Fits
<1>2. p.pc = "apply" /\ p.kind = "role" /\ UNCHANGED <<invitations, billingOwner, seats>>
  BY <1>1 DEF ChangeRole
<1>3. p.target \in Users /\ p.role \in Roles /\ p.role # p.was
  BY <1>1, <1>2 DEF Fits, ChangeSteps
<1>4. CASE Found(r)
  <2>1. PICK q : q = [p EXCEPT !.pc = "verify"]
    OBVIOUS
  <2>2. /\ requests' = [requests EXCEPT ![r] = q]
        /\ members' = [members EXCEPT ![p.target].role = p.role]
    BY <1>1, <1>4, <2>1 DEF ChangeRole, MoveIf, MoveTo, Moved
  <2>3. /\ q \in RequestSet /\ q.pc = "verify" /\ q.kind = p.kind /\ q.target = p.target
        /\ q.role = p.role /\ q.payer = p.payer /\ q.was = p.was /\ q.doc = p.doc
    BY <2>1 DEF RequestSet, ChangeSteps
  <2>4. Fits(q)
    BY <1>1, <1>2, <2>3 DEF Fits, ChangeSteps, InviteSteps, AcceptSteps
  <2>5. p.role # "none" /\ (p.was # "OWNER" \/ p.role # "OWNER")
    BY <1>3 DEF Roles
  <2> QED
    BY <1>1, <1>2, <1>3, <1>4, <2>2, <2>3, <2>4, <2>5, ApplyKeeps
<1>5. CASE ~ Found(r)
  <2>1. requests' = [requests EXCEPT ![r] = Answered] /\ Kept
    BY <1>1, <1>5 DEF ChangeRole, MoveIf, MoveTo, Moved, Kept
  <2> QED
    BY <1>1, <1>2, <2>1, AnsweredMove
<1> QED
  BY <1>4, <1>5

(* A removal that finds nobody any more looks for owners all the same.      *)
LEMMA VerifyMove ==
  ASSUME TeamInv, UNCHANGED members, NEW r \in Handlers, NEW q \in RequestSet,
         requests' = [requests EXCEPT ![r] = q],
         requests[r].pc = "apply", ~ Early(q), q.pc = "verify", q.was = "OWNER"
  PROVE  BothEarly' /\ LastEarly' /\ NotTaken' /\ UndoIsLast'
<1>1. \A s \in Handlers : requests'[s] = IF s = r THEN q ELSE requests[s]
  BY OneRequestMoves
<1>2. /\ Owners' = Owners
      /\ \A u \in Users : members'[u].doc = members[u].doc
      /\ \A p : Spares(p)' <=> Spares(p)
  BY OwnersStay
<1>3. \A s \in Handlers : Early(requests[s])' => Early(requests[s])
  BY <1>1 DEF Early, Changes
<1>4. \A s \in Handlers : Spares(requests[s])' <=> Spares(requests'[s])
  BY <1>2 DEF Spares
<1>5. BothEarly'
  BY <1>1, <1>2, <1>3, <1>4 DEF BothEarly, TeamInv, Spares
<1>6. LastEarly'
  BY <1>1, <1>2, <1>3, <1>4 DEF LastEarly, TeamInv, Spares
<1>7. NotTaken'
  BY <1>1, <1>2, <1>3, <1>4 DEF NotTaken, TeamInv, Spares
<1>8. UndoIsLast'
  BY <1>1, <1>3 DEF UndoIsLast, TeamInv
<1> QED
  BY <1>5, <1>6, <1>7, <1>8

LEMMA RemoveMemberStep ==
  ASSUME TeamInv, NEW r \in Handlers, RemoveMember(r)
  PROVE  TeamInv'
<1>1. PICK p \in RequestSet : p = requests[r] /\ Fits(p)
  BY RequestIs DEF Fits
<1>2. p.pc = "apply" /\ p.kind = "remove" /\ UNCHANGED <<invitations, billingOwner, seats>>
  BY <1>1 DEF RemoveMember
<1>3. p.target \in Users /\ p.role \in Roles /\ p.was \in Roles /\ p.payer \in Users
  BY <1>1, <1>2 DEF Fits, ChangeSteps
<1>4. PICK v : v = [p EXCEPT !.pc = "verify"]
  OBVIOUS
<1>5. /\ v \in RequestSet /\ v.pc = "verify" /\ v.kind = p.kind /\ v.target = p.target
      /\ v.role = p.role /\ v.payer = p.payer /\ v.was = p.was /\ v.doc = p.doc
  BY <1>4 DEF RequestSet, ChangeSteps
<1>6. Fits(v) /\ ~ Early(v) /\ v.pc \notin InviteSteps \cup AcceptSteps
  BY <1>2, <1>3, <1>5 DEF Fits, Early, ChangeSteps, InviteSteps, AcceptSteps
<1>7. PICK q \in {v, Answered} : q = IF p.was = "OWNER" THEN v ELSE Answered
  OBVIOUS
<1>8. requests' = [requests EXCEPT ![r] = q]
  BY <1>1, <1>4, <1>7 DEF RemoveMember, MoveIf, MoveTo, Moved
<1>9. /\ q \in RequestSet /\ Fits(q)
      /\ \/ q.pc = "done" /\ q.kind = "none" /\ p.was # "OWNER"
         \/ q.pc = "verify" /\ q.kind = p.kind /\ q.was = p.was /\ q.target = p.target /\ q.doc = p.doc
  BY <1>5, <1>6, <1>7, AnsweredIs, AnsweredFits
<1>10. CASE Found(r)
  <2>1. members' = [members EXCEPT ![p.target].role = "none"]
    BY <1>1, <1>10 DEF RemoveMember
  <2> QED
    BY <1>1, <1>2, <1>8, <1>9, <1>10, <2>1, ApplyKeeps
<1>11. CASE ~ Found(r) /\ p.was # "OWNER"
  <2>1. requests' = [requests EXCEPT ![r] = Answered] /\ Kept
    BY <1>1, <1>2, <1>7, <1>8, <1>11 DEF RemoveMember, Kept
  <2> QED
    BY <1>1, <1>2, <2>1, AnsweredMove
<1>12. CASE ~ Found(r) /\ p.was = "OWNER"
  <2>1. q = v /\ Kept
    BY <1>1, <1>2, <1>7, <1>12 DEF RemoveMember, Kept
  <2>2. Early(requests[r]) /\ Owners # {}
    BY <1>1, <1>2 DEF Early, Changes, LastEarly, TeamInv
  <2>3. BothEarly' /\ LastEarly' /\ NotTaken' /\ UndoIsLast'
    <3>1. /\ requests[r].pc = "apply" /\ ~ Early(q) /\ q.pc = "verify" /\ q.was = "OWNER"
          /\ UNCHANGED members
      BY <1>1, <1>2, <1>5, <1>6, <1>12, <2>1 DEF Kept
    <3> QED
      BY <1>8, <1>9, <3>1, VerifyMove
  <2>4. NeverAway'
    BY <1>6, <1>8, <1>9, <2>1, MoveKeepsAway DEF Kept
  <2>5. OwnerComesBack'
    BY <1>6, <1>8, <1>9, <2>1, <2>2, MoveKeepsBack DEF Kept
  <2> QED
    BY <1>1, <1>2, <1>5, <1>8, <1>9, <2>1, <2>3, <2>4, <2>5, MoveKeeps
<1> QED
  BY <1>10, <1>11, <1>12

LEMMA NewDocKeeps ==
  ASSUME TeamInv, NEW r \in Handlers, requests[r].pc # "done", NEW q \in RequestSet, q.pc = "done",
         requests' = [requests EXCEPT ![r] = q], NEW t \in Users, NEW m, m.doc = NewDoc,
         \A u \in Users : members'[u] = IF u = t THEN m ELSE members[u]
  PROVE  DocsNumbered'
<1>1. /\ NewDoc \in Nat /\ NewDoc >= 2 /\ NewDoc <= 2 + Cardinality(Finished)
      /\ \A u \in Users : members[u].doc < NewDoc
  BY NewDocIsNext
<1>2. PICK n \in Nat : n = NewDoc
  BY <1>1
<1>3. PICK f \in Nat, g \in Nat : f = Cardinality(Finished) /\ g = Cardinality(Finished') /\ g = f + 1
  BY FinishedGrows
<1>4. \A u \in Users : members[u].doc \in Nat /\ members[u].doc < n /\ n <= 2 + f
  BY <1>1, <1>2, <1>3, TeamIsTyped
<1>5. \A u \in Users : members'[u].doc <= 1 + g /\ members'[u].doc <= n
  BY <1>2, <1>3, <1>4
<1>6. members'[t].doc = n
  BY <1>2
<1> QED
  BY <1>3, <1>5, <1>6 DEF DocsNumbered

-----------------------------------------------------------------------------
(* A change is taken back.                                                  *)

LEMMA GiveBackKeeps ==
  ASSUME TeamInv, NEW r \in Handlers, requests[r].pc = "undo",
         requests' = [requests EXCEPT ![r] = Answered],
         NEW t \in Users, NEW m \in MemberSet, m.role = "OWNER", members' = [members EXCEPT ![t] = m],
         m.doc = NewDoc \/ (m.doc = members[t].doc /\ Member(t)),
         UNCHANGED <<invitations, billingOwner, seats>>
  PROVE  TeamInv'
<1>1. PICK q \in RequestSet : q = Answered
  BY AnsweredIs
<1>2. q.pc = "done" /\ q.kind = "none" /\ Fits(q) /\ ~ Early(q)
  BY <1>1, AnsweredIs, AnsweredFits DEF Early, Changes
<1>3. requests' = [requests EXCEPT ![r] = q]
  BY <1>1
<1>4. \A s \in Handlers : requests'[s] = IF s = r THEN q ELSE requests[s]
  BY <1>3, OneRequestMoves
<1>5. /\ members' \in [Users -> MemberSet]
      /\ \A u \in Users : members'[u] = IF u = t THEN m ELSE members[u]
  BY TeamIsTyped
<1>6. TeamTyped'
  BY <1>3, <1>5, OneRequestMoves DEF TeamTyped, TeamInv
<1>7. DocsNumbered'
  <2>1. CASE m.doc = members[t].doc
    <3>1. \A u \in Users : members'[u].doc = members[u].doc
      BY <1>5, <2>1
    <3> QED
      BY <1>3, <3>1, DocsStay
  <2>2. CASE m.doc = NewDoc
    BY <1>2, <1>3, <1>5, <2>2, NewDocKeeps
  <2> QED
    BY <2>1, <2>2
<1>8. RequestsFit'
  <2>1. EmailsStay /\ Fits(q)'
    BY <1>2 DEF EmailsStay, Fits
  <2> QED
    BY <1>3, <2>1, RequestsStillFit
<1>9. InvitationsFit'
  <2>1. \A s \in Handlers : \A i : Joining(s, i)' => Joining(s, i)
    BY <1>2, <1>4 DEF Joining
  <2> QED
    BY <2>1 DEF InvitationsFit, TeamInv
<1>10. FewChanging'
  BY <1>2, <1>3, FewStay
<1>11. \A s \in Handlers : ~ Early(requests[s])'
  <2>1. \A s \in Handlers : ~ Early(requests[s])
    BY DEF UndoIsLast, TeamInv
  <2> QED
    BY <1>2, <1>4, <2>1 DEF Early, Changes
<1>12. t \in Owners'
  BY <1>5 DEF Owners
<1>13. BothEarly' /\ LastEarly' /\ UndoIsLast' /\ OwnerComesBack'
  BY <1>11, <1>12 DEF BothEarly, LastEarly, UndoIsLast, OwnerComesBack
<1>14. NotTaken'
  <2>1. \A z \in Handlers : requests'[z].pc # "apply"
    <3> SUFFICES ASSUME NEW z \in Handlers, requests'[z].pc = "apply" PROVE FALSE
      OBVIOUS
    <3>1. requests'[z] = requests[z] /\ Fits(requests[z])
      BY <1>2, <1>4, RequestIs
    <3>2. Early(requests[z])
      BY <3>1 DEF Fits, Early, Changes, ChangeSteps
    <3> QED
      BY <3>2 DEF UndoIsLast, TeamInv
  <2> QED
    BY <1>12, <2>1 DEF NotTaken
<1>15. NeverAway'
  <2> SUFFICES ASSUME NEW u \in Users, Member(u)', members'[u].doc = 1 PROVE NotInvited(u)'
    BY DEF NeverAway
  <2>1. Member(u) /\ members[u].doc = 1
    BY <1>5, NewDocIsNext DEF Member
  <2>2. NotInvited(u)
    BY <2>1 DEF NeverAway, TeamInv
  <2>3. q.pc \notin InviteSteps \cup AcceptSteps
    BY <1>2 DEF InviteSteps, AcceptSteps
  <2> QED
    BY <1>4, <2>2, <2>3 DEF NotInvited
<1> QED
  BY <1>6, <1>7, <1>8, <1>9, <1>10, <1>13, <1>14, <1>15 DEF TeamInv

LEMMA UndoStep ==
  ASSUME TeamInv, NEW r \in Handlers, Undo(r)
  PROVE  TeamInv'
<1>1. PICK p \in RequestSet : p = requests[r] /\ Fits(p)
  BY RequestIs DEF Fits
<1>2. /\ p.pc = "undo" /\ UNCHANGED <<invitations, billingOwner, seats>>
      /\ requests' = [requests EXCEPT ![r] = Answered]
  BY <1>1 DEF Undo, MoveTo, Moved
<1>3. p.target \in Users /\ p.was = "OWNER" /\ p.kind \in {"role", "remove"}
  BY <1>1, <1>2 DEF Fits, ChangeSteps
<1>4. CASE p.kind = "role" /\ Found(r)
  <2>1. PICK m : m = [members[p.target] EXCEPT !.role = "OWNER"]
    OBVIOUS
  <2>2. m \in MemberSet /\ m.role = "OWNER" /\ m.doc = members[p.target].doc
    BY <1>3, <2>1, TeamIsTyped DEF MemberSet, Roles
  <2>3. members' = [members EXCEPT ![p.target] = m] /\ Member(p.target)
    BY <1>1, <1>3, <1>4, <2>1 DEF Undo, Found
  <2> QED
    BY <1>1, <1>2, <1>3, <2>2, <2>3, GiveBackKeeps
<1>5. CASE p.kind = "remove" /\ ~ Member(p.target)
  <2>1. PICK m : m = [role |-> "OWNER", doc |-> NewDoc]
    OBVIOUS
  <2>2. m \in MemberSet /\ m.role = "OWNER" /\ m.doc = NewDoc
    BY <1>1, <1>2, <2>1, NewDocIsNext DEF MemberSet, Roles
  <2>3. members' = [members EXCEPT ![p.target] = m]
    BY <1>1, <1>3, <1>5, <2>1 DEF Undo
  <2> QED
    BY <1>1, <1>2, <1>3, <2>2, <2>3, GiveBackKeeps
<1>6. CASE (p.kind = "role" /\ ~ Found(r)) \/ (p.kind = "remove" /\ Member(p.target))
  <2>1. Kept
    BY <1>1, <1>2, <1>6 DEF Undo, Kept
  <2>2. ~ Restores(r)
    BY <1>1, <1>6 DEF Restores
  <2>3. PICK q \in RequestSet : q = Answered
    BY AnsweredIs
  <2>4. q.pc = "done" /\ q.kind = "none" /\ Fits(q) /\ ~ Early(q)
    BY <2>3, AnsweredIs, AnsweredFits DEF Early, Changes
  <2>5. requests' = [requests EXCEPT ![r] = q] /\ q.pc \notin InviteSteps \cup AcceptSteps
    BY <1>2, <2>3, <2>4 DEF InviteSteps, AcceptSteps
  <2>6. BothEarly' /\ LastEarly' /\ NotTaken' /\ UndoIsLast'
    BY <2>1, <2>4, <2>5, MoveKeepsChanges DEF Kept
  <2>7. NeverAway'
    BY <2>1, <2>5, MoveKeepsAway DEF Kept
  <2>8. OwnerComesBack'
    <3> SUFFICES ASSUME Owners' = {} PROVE \E s \in Handlers : Restores(s)'
      BY DEF OwnerComesBack
    <3>1. PICK s \in Handlers : Restores(s)
      BY <2>1, OwnersStay DEF OwnerComesBack, TeamInv, Kept
    <3>2. \A z \in Handlers : requests'[z] = IF z = r THEN q ELSE requests[z]
      BY <2>5, OneRequestMoves
    <3>3. requests'[s] = requests[s]
      BY <2>2, <3>1, <3>2
    <3>4. Barred(s) => Barred(s)'
      BY <2>1, <2>5, <3>2, <3>3 DEF Barred, Kept
    <3> QED
      BY <2>1, <3>1, <3>3, <3>4 DEF Restores, Found, Member, Kept
  <2> QED
    BY <1>1, <1>2, <2>1, <2>4, <2>5, <2>6, <2>7, <2>8, MoveKeeps
<1> QED
  BY <1>3, <1>4, <1>5, <1>6

-----------------------------------------------------------------------------
(* Changes of the invitations.                                              *)

(* They keep whom they are for and which requests came before them.         *)
LettersStay ==
  /\ DOMAIN invitations' = DOMAIN invitations
  /\ \A i \in DOMAIN invitations :
       invitations'[i].email = invitations[i].email /\ invitations'[i].during = invitations[i].during

LEMMA LettersKeepBarred ==
  ASSUME LettersStay, NEW r \in Handlers, NEW q \in RequestSet, TeamInv,
         requests' = [requests EXCEPT ![r] = q], q.pc \in AcceptSteps =>
           requests[r].pc \in AcceptSteps /\ requests[r].target = q.target,
         NEW s \in Handlers, s # r, Barred(s)
  PROVE  Barred(s)'
<1>1. \A z \in Handlers : requests'[z] = IF z = r THEN q ELSE requests[z]
  BY OneRequestMoves
<1> QED
  BY <1>1 DEF Barred, LettersStay

LEMMA InvitesMove ==
  ASSUME TeamInv, UNCHANGED members, LettersStay, NEW r \in Handlers, NEW q \in RequestSet,
         requests' = [requests EXCEPT ![r] = q], requests[r].pc \notin {"done", "verify", "undo"},
         Fits(q), q.kind \in {requests[r].kind, "none"},
         ~ Early(q), q.pc \notin {"apply", "verify", "undo"},
         q.pc \in (InviteSteps \ {"count"}) \cup AcceptSteps =>
           /\ requests[r].pc \in (InviteSteps \ {"count"}) \cup AcceptSteps
           /\ q.target = requests[r].target
           /\ q.pc \in AcceptSteps => requests[r].pc \in AcceptSteps
  PROVE  /\ DocsNumbered' /\ RequestsFit' /\ FewChanging'
         /\ BothEarly' /\ LastEarly' /\ NotTaken' /\ UndoIsLast' /\ NeverAway' /\ OwnerComesBack'
<1>1. DocsNumbered' /\ FewChanging'
  BY DocsStay, FewStay
<1>2. RequestsFit'
  <2>1. EmailsStay /\ Fits(q)'
    BY DEF LettersStay, EmailsStay, Fits
  <2> QED
    BY <2>1, RequestsStillFit
<1>3. BothEarly' /\ LastEarly' /\ NotTaken' /\ UndoIsLast'
  BY MoveKeepsChanges
<1>4. \A z \in Handlers : requests'[z] = IF z = r THEN q ELSE requests[z]
  BY OneRequestMoves
<1>5. NeverAway'
  <2> SUFFICES ASSUME NEW t \in Users, Member(t), members[t].doc = 1
               PROVE  NotInvited(t)'
    BY DEF NeverAway, Member
  <2>1. NotInvited(t)
    BY DEF NeverAway, TeamInv
  <2> QED
    BY <1>4, <2>1 DEF NotInvited, LettersStay
<1>6. OwnerComesBack'
  <2> SUFFICES ASSUME Owners' = {} PROVE \E s \in Handlers : Restores(s)'
    BY DEF OwnerComesBack
  <2>1. PICK s \in Handlers : Restores(s)
    BY OwnersStay DEF OwnerComesBack, TeamInv
  <2>2. s # r /\ requests'[s] = requests[s]
    BY <1>4, <2>1 DEF Restores
  <2>3. Barred(s) => Barred(s)'
    BY <2>2, LettersKeepBarred
  <2> QED
    BY <2>1, <2>2, <2>3 DEF Restores, Found, Member
<1> QED
  BY <1>1, <1>2, <1>3, <1>5, <1>6

LEMMA AnsweredInvites ==
  ASSUME TeamInv, UNCHANGED members, LettersStay, NEW r \in Handlers,
         requests' = [requests EXCEPT ![r] = Answered], requests[r].pc \notin {"done", "verify", "undo"}
  PROVE  /\ requests' \in [Handlers -> RequestSet] /\ DocsNumbered' /\ RequestsFit' /\ FewChanging'
         /\ BothEarly' /\ LastEarly' /\ NotTaken' /\ UndoIsLast' /\ NeverAway' /\ OwnerComesBack'
         /\ \A s \in Handlers : \A i : Joining(s, i)' => s # r /\ Joining(s, i)
<1>1. PICK q \in RequestSet : q = Answered
  BY AnsweredIs
<1>2. q.pc = "done" /\ q.kind = "none" /\ Fits(q) /\ ~ Early(q)
  BY <1>1, AnsweredIs, AnsweredFits DEF Early, Changes
<1>3. requests' = [requests EXCEPT ![r] = q] /\ q.pc \notin InviteSteps \cup AcceptSteps
  BY <1>1, <1>2 DEF InviteSteps, AcceptSteps
<1>4. requests' \in [Handlers -> RequestSet]
  BY <1>3, OneRequestMoves
<1>5. \A s \in Handlers : \A i : Joining(s, i)' => s # r /\ Joining(s, i)
  BY <1>2, <1>3, OneRequestMoves DEF Joining
<1>6. /\ DocsNumbered' /\ RequestsFit' /\ FewChanging'
      /\ BothEarly' /\ LastEarly' /\ NotTaken' /\ UndoIsLast' /\ NeverAway' /\ OwnerComesBack'
  BY <1>2, <1>3, InvitesMove
<1> QED
  BY <1>4, <1>5, <1>6

LEMMA BillStep ==
  ASSUME TeamInv, NEW r \in Handlers, Bill(r)
  PROVE  TeamInv'
<1>1. PICK p \in RequestSet : p = requests[r] /\ Fits(p)
  BY RequestIs DEF Fits
<1>2. /\ p.pc = "bill" /\ UNCHANGED <<members, invitations, seats>> /\ billingOwner' = p.payer
      /\ requests' = [requests EXCEPT ![r] = Answered]
  BY <1>1 DEF Bill, MoveTo, Moved
<1>3. p.payer \in Users
  BY <1>1, <1>2 DEF Fits, ChangeSteps
<1>4. LettersStay
  BY <1>2 DEF LettersStay
<1>5. /\ requests' \in [Handlers -> RequestSet] /\ DocsNumbered' /\ RequestsFit' /\ FewChanging'
      /\ BothEarly' /\ LastEarly' /\ NotTaken' /\ UndoIsLast' /\ NeverAway' /\ OwnerComesBack'
      /\ \A s \in Handlers : \A i : Joining(s, i)' => s # r /\ Joining(s, i)
  BY <1>1, <1>2, <1>4, AnsweredInvites
<1>6. TeamTyped'
  BY <1>2, <1>3, <1>5 DEF TeamTyped, TeamInv
<1>7. InvitationsFit'
  BY <1>2, <1>5 DEF InvitationsFit, TeamInv
<1> QED
  BY <1>5, <1>6, <1>7 DEF TeamInv

(* Some invitations are answered.                                           *)
LEMMA RevokedAre ==
  ASSUME TeamInv, NEW chosen, invitations' = Revoked(chosen)
  PROVE  /\ invitations' \in Seq(InvitationSet) /\ LettersStay
         /\ \A i \in DOMAIN invitations :
              /\ invitations'[i].joins = invitations[i].joins
              /\ \/ invitations'[i].status = invitations[i].status
                 \/ invitations[i].status = "pending" /\ invitations'[i].status = "revoked"
<1>1. PICK n \in Nat : n = Len(invitations) /\ DOMAIN invitations = 1..n
  BY InvitationsAre
<1>2. \A i \in 1..n : invitations[i] \in InvitationSet
  BY <1>1, InvitationsAre
<1>3. invitations' = [i \in 1..n |->
        IF i \in chosen /\ invitations[i].status = "pending"
        THEN [invitations[i] EXCEPT !.status = "revoked"] ELSE invitations[i]]
  BY <1>1 DEF Revoked
<1>4. ASSUME NEW i \in 1..n
      PROVE  /\ invitations'[i] \in InvitationSet
             /\ invitations'[i].email = invitations[i].email
             /\ invitations'[i].during = invitations[i].during
             /\ invitations'[i].joins = invitations[i].joins
             /\ \/ invitations'[i].status = invitations[i].status
                \/ invitations[i].status = "pending" /\ invitations'[i].status = "revoked"
  <2>1. PICK v \in InvitationSet : v = invitations[i]
    BY <1>2
  <2>2. PICK w : w = [v EXCEPT !.status = "revoked"]
    OBVIOUS
  <2>3. /\ w \in InvitationSet /\ w.email = v.email /\ w.during = v.during /\ w.joins = v.joins
        /\ w.status = "revoked"
    BY <2>2 DEF InvitationSet
  <2>4. invitations'[i] = v \/ (invitations'[i] = w /\ v.status = "pending")
    BY <1>3, <2>1, <2>2
  <2> QED
    BY <2>1, <2>3, <2>4
<1>5. DOMAIN invitations' = 1..n
  BY <1>3
<1>6. invitations' \in Seq(InvitationSet)
  <2>1. invitations' \in [1..n -> InvitationSet]
    BY <1>3, <1>4
  <2> QED
    BY <2>1
<1> QED
  BY <1>1, <1>4, <1>5, <1>6 DEF LettersStay

LEMMA RevokedFit ==
  ASSUME TeamInv, NEW chosen, invitations' = Revoked(chosen),
         \A s \in Handlers : \A i : Joining(s, i)' => Joining(s, i)
  PROVE  InvitationsFit'
<1>1. /\ LettersStay
      /\ \A i \in DOMAIN invitations :
           /\ invitations'[i].joins = invitations[i].joins
           /\ \/ invitations'[i].status = invitations[i].status
              \/ invitations[i].status = "pending" /\ invitations'[i].status = "revoked"
  BY RevokedAre
<1>2. InvitationsFit
  BY DEF TeamInv
<1> QED
  BY <1>1, <1>2 DEF InvitationsFit, LettersStay

LEMMA ReplaceStep ==
  ASSUME TeamInv, NEW r \in Handlers, Replace(r)
  PROVE  TeamInv'
<1>1. PICK p \in RequestSet : p = requests[r] /\ Fits(p)
  BY RequestIs DEF Fits
<1>2. PICK chosen : invitations' = Revoked(chosen)
  BY DEF Replace
<1>3. PICK q : q = [p EXCEPT !.pc = "create"]
  OBVIOUS
<1>4. /\ p.pc = "replace" /\ UNCHANGED <<members, billingOwner, seats>>
      /\ requests' = [requests EXCEPT ![r] = q]
  BY <1>1, <1>3 DEF Replace, MoveTo, Moved
<1>5. /\ q \in RequestSet /\ q.pc = "create" /\ q.kind = p.kind /\ q.target = p.target
      /\ q.role = p.role /\ q.actor = p.actor
  BY <1>3 DEF RequestSet, InviteSteps
<1>6. Fits(q) /\ ~ Early(q)
  BY <1>1, <1>4, <1>5 DEF Fits, Early, ChangeSteps, InviteSteps, AcceptSteps
<1>7. /\ p.pc \in InviteSteps \ {"count"} /\ q.pc \notin AcceptSteps
  BY <1>4, <1>5 DEF InviteSteps, AcceptSteps
<1>8. invitations' \in Seq(InvitationSet) /\ LettersStay
  BY <1>2, RevokedAre
<1>9. /\ DocsNumbered' /\ RequestsFit' /\ FewChanging'
      /\ BothEarly' /\ LastEarly' /\ NotTaken' /\ UndoIsLast' /\ NeverAway' /\ OwnerComesBack'
  BY <1>1, <1>4, <1>5, <1>6, <1>7, <1>8, InvitesMove
<1>10. TeamTyped'
  BY <1>4, <1>5, <1>8, OneRequestMoves DEF TeamTyped, TeamInv
<1>11. InvitationsFit'
  <2>1. \A s \in Handlers : \A i : Joining(s, i)' => Joining(s, i)
    BY <1>4, <1>5, OneRequestMoves DEF Joining
  <2> QED
    BY <1>2, <2>1, RevokedFit
<1> QED
  BY <1>9, <1>10, <1>11 DEF TeamInv

LEMMA RevokeInvitationStep ==
  ASSUME TeamInv, NEW r \in Handlers, RevokeInvitation(r)
  PROVE  TeamInv'
<1>1. PICK chosen : invitations' = Revoked(chosen)
  BY DEF RevokeInvitation
<1>2. /\ requests[r].pc = "revoke" /\ UNCHANGED <<members, billingOwner, seats>>
      /\ requests' = [requests EXCEPT ![r] = Answered]
  BY DEF RevokeInvitation, MoveTo, Moved
<1>3. invitations' \in Seq(InvitationSet) /\ LettersStay
  BY <1>1, RevokedAre
<1>4. /\ requests' \in [Handlers -> RequestSet] /\ DocsNumbered' /\ RequestsFit' /\ FewChanging'
      /\ BothEarly' /\ LastEarly' /\ NotTaken' /\ UndoIsLast' /\ NeverAway' /\ OwnerComesBack'
      /\ \A s \in Handlers : \A i : Joining(s, i)' => s # r /\ Joining(s, i)
  BY <1>2, <1>3, AnsweredInvites
<1>5. TeamTyped'
  BY <1>2, <1>3, <1>4 DEF TeamTyped, TeamInv
<1>6. InvitationsFit'
  BY <1>1, <1>4, RevokedFit
<1> QED
  BY <1>4, <1>5, <1>6 DEF TeamInv

(* Nothing else moves.                                                      *)
LEMMA LettersAlone ==
  ASSUME TeamInv, UNCHANGED <<members, requests>>, LettersStay
  PROVE  /\ DocsNumbered' /\ RequestsFit' /\ FewChanging'
         /\ BothEarly' /\ LastEarly' /\ NotTaken' /\ UndoIsLast' /\ NeverAway' /\ OwnerComesBack'
<1>1. DocsNumbered' /\ FewChanging' /\ UndoIsLast'
  BY DEF TeamInv, DocsNumbered, Finished, FewChanging, UndoIsLast
<1>2. RequestsFit'
  <2> SUFFICES ASSUME NEW s \in Handlers PROVE Fits(requests[s])'
    BY DEF RequestsFit
  <2>1. Fits(requests[s])
    BY DEF RequestsFit, TeamInv
  <2> QED
    BY <2>1 DEF Fits, LettersStay
<1>3. BothEarly' /\ LastEarly' /\ NotTaken'
  BY DEF TeamInv, BothEarly, LastEarly, NotTaken, Spares, Owners
<1>4. NeverAway'
  BY DEF TeamInv, NeverAway, NotInvited, LettersStay, Member
<1>5. OwnerComesBack'
  <2> SUFFICES ASSUME Owners' = {} PROVE \E s \in Handlers : Restores(s)'
    BY DEF OwnerComesBack
  <2>1. PICK s \in Handlers : Restores(s)
    BY OwnersStay DEF OwnerComesBack, TeamInv
  <2>2. Barred(s) => Barred(s)'
    BY DEF Barred, LettersStay
  <2> QED
    BY <2>1, <2>2 DEF Restores, Found, Member
<1> QED
  BY <1>1, <1>2, <1>3, <1>4, <1>5

LEMMA TeamStays ==
  ASSUME TeamInv, UNCHANGED <<members, invitations, billingOwner, requests>>, seats' \in 1..Seats
  PROVE  TeamInv'
<1>1. LettersStay
  BY DEF LettersStay
<1>2. TeamTyped' /\ InvitationsFit'
  BY DEF TeamInv, TeamTyped, InvitationsFit, Joining
<1> QED
  BY <1>1, <1>2, LettersAlone DEF TeamInv

LEMMA LowerPlanStep ==
  ASSUME TeamInv, LowerPlan
  PROVE  TeamInv'
<1>1. seats' \in 1..Seats
  BY TeamAssumption DEF LowerPlan
<1> QED
  BY <1>1, TeamStays DEF LowerPlan

(* One invitation changes, and stays to whom and from when it is.           *)
LEMMA OneLetter ==
  ASSUME TeamInv, NEW i \in DOMAIN invitations, NEW w \in InvitationSet,
         w.email = invitations[i].email, w.during = invitations[i].during,
         invitations' = [invitations EXCEPT ![i] = w]
  PROVE  /\ invitations' \in Seq(InvitationSet) /\ LettersStay
         /\ \A k \in DOMAIN invitations : invitations'[k] = IF k = i THEN w ELSE invitations[k]
<1>1. PICK n \in Nat : n = Len(invitations) /\ DOMAIN invitations = 1..n
  BY InvitationsAre
<1>2. \A k \in 1..n : invitations[k] \in InvitationSet
  BY <1>1, InvitationsAre
<1>3. /\ DOMAIN invitations' = 1..n
      /\ \A k \in 1..n : invitations'[k] = IF k = i THEN w ELSE invitations[k]
  BY <1>1
<1>4. invitations' \in Seq(InvitationSet)
  <2>1. \A f \in Seq(InvitationSet) : \A k \in DOMAIN f : [f EXCEPT ![k] = w] \in Seq(InvitationSet)
    OBVIOUS
  <2> QED
    BY <2>1, InvitationsAre
<1> QED
  BY <1>1, <1>3, <1>4 DEF LettersStay

LEMMA ExpireStep ==
  ASSUME TeamInv, NEW i \in DOMAIN invitations, Expire(i)
  PROVE  TeamInv'
<1>1. PICK v \in InvitationSet : v = invitations[i]
  BY InvitationsAre
<1>2. PICK w : w = [v EXCEPT !.expired = TRUE]
  OBVIOUS
<1>3. /\ w \in InvitationSet /\ w.email = v.email /\ w.during = v.during /\ w.joins = v.joins
      /\ w.status = v.status
  BY <1>2 DEF InvitationSet
<1>4. invitations' = [invitations EXCEPT ![i] = w] /\ UNCHANGED <<members, billingOwner, seats, requests>>
  BY <1>1, <1>2 DEF Expire
<1>5. /\ invitations' \in Seq(InvitationSet) /\ LettersStay
      /\ \A k \in DOMAIN invitations : invitations'[k] = IF k = i THEN w ELSE invitations[k]
  BY <1>1, <1>3, <1>4, OneLetter
<1>6. TeamTyped'
  BY <1>4, <1>5 DEF TeamInv, TeamTyped
<1>7. InvitationsFit'
  <2>1. \A k \in DOMAIN invitations :
          /\ invitations'[k].status = invitations[k].status /\ invitations'[k].joins = invitations[k].joins
          /\ invitations'[k].email = invitations[k].email
    BY <1>1, <1>3, <1>5
  <2>2. DOMAIN invitations' = DOMAIN invitations
    BY <1>5 DEF LettersStay
  <2> QED
    BY <1>4, <2>1, <2>2 DEF TeamInv, InvitationsFit, Joining
<1> QED
  BY <1>4, <1>5, <1>6, <1>7, LettersAlone DEF TeamInv

LEMMA ClaimInvitationStep ==
  ASSUME TeamInv, NEW r \in Handlers, ClaimInvitation(r)
  PROVE  TeamInv'
<1>1. PICK p \in RequestSet : p = requests[r] /\ Fits(p)
  BY RequestIs DEF Fits
<1>2. p.pc = "claim" /\ UNCHANGED <<members, billingOwner, seats>>
  BY <1>1 DEF ClaimInvitation
<1>3. PICK i \in DOMAIN invitations : i = p.invitation
  BY <1>1, <1>2 DEF Fits, AcceptSteps
<1>4. CASE ~ Claimable(i)
  <2>1. requests' = [requests EXCEPT ![r] = Answered] /\ Kept
    BY <1>1, <1>2, <1>3, <1>4 DEF ClaimInvitation, MoveIf, MoveTo, Moved, Kept
  <2> QED
    BY <1>1, <1>2, <2>1, AnsweredMove
<1>5. CASE Claimable(i)
  <2>1. PICK q : q = [p EXCEPT !.pc = "join"]
    OBVIOUS
  <2>2. requests' = [requests EXCEPT ![r] = q]
    BY <1>1, <1>3, <1>5, <2>1 DEF ClaimInvitation, MoveIf, MoveTo, Moved
  <2>3. /\ q \in RequestSet /\ q.pc = "join" /\ q.kind = p.kind /\ q.target = p.target
        /\ q.invitation = p.invitation
    BY <2>1 DEF RequestSet, AcceptSteps
  <2>4. Fits(q) /\ ~ Early(q)
    BY <1>1, <1>2, <2>3 DEF Fits, Early, ChangeSteps, InviteSteps, AcceptSteps
  <2>5. p.pc \in AcceptSteps
    BY <1>2 DEF AcceptSteps
  <2>6. PICK v \in InvitationSet : v = invitations[i]
    BY InvitationsAre
  <2>7. PICK w : w = [v EXCEPT !.status = "accepted"]
    OBVIOUS
  <2>8. /\ w \in InvitationSet /\ w.email = v.email /\ w.during = v.during /\ w.joins = v.joins
        /\ w.status = "accepted"
    BY <2>7 DEF InvitationSet
  <2>9. invitations' = [invitations EXCEPT ![i] = w]
    BY <1>1, <1>3, <1>5, <2>6, <2>7 DEF ClaimInvitation
  <2>10. /\ invitations' \in Seq(InvitationSet) /\ LettersStay
         /\ \A k \in DOMAIN invitations : invitations'[k] = IF k = i THEN w ELSE invitations[k]
    BY <2>6, <2>8, <2>9, OneLetter
  <2>11. /\ DocsNumbered' /\ RequestsFit' /\ FewChanging'
         /\ BothEarly' /\ LastEarly' /\ NotTaken' /\ UndoIsLast' /\ NeverAway' /\ OwnerComesBack'
    BY <1>1, <1>2, <2>2, <2>3, <2>4, <2>5, <2>10, InvitesMove
  <2>12. TeamTyped'
    BY <1>2, <2>2, <2>3, <2>10, OneRequestMoves DEF TeamTyped, TeamInv
  <2>13. InvitationsFit'
    <3>1. DOMAIN invitations' = DOMAIN invitations
      BY <2>10 DEF LettersStay
    <3>2. \A k \in DOMAIN invitations :
            /\ invitations'[k].email = invitations[k].email /\ invitations'[k].joins = invitations[k].joins
            /\ invitations'[k].status = IF k = i THEN "accepted" ELSE invitations[k].status
      BY <2>6, <2>8, <2>10
    <3>3. \A s \in Handlers : \A k \in DOMAIN invitations :
            Joining(s, k)' <=> IF s = r THEN k = i ELSE Joining(s, k)
      BY <1>3, <2>2, <2>3, OneRequestMoves DEF Joining
    <3>4. invitations[i].status = "pending" /\ invitations[i].joins = 0
          /\ \A s \in Handlers : ~ Joining(s, i)
      BY <1>5 DEF Claimable, InvitationsFit, TeamInv
    <3>5. InvitationsFit
      BY DEF TeamInv
    <3>6. \A k, l \in DOMAIN invitations' :
            k # l /\ invitations'[k].status = "pending" /\ invitations'[l].status = "pending"
              => invitations'[k].email # invitations'[l].email
      BY <3>1, <3>2, <3>5 DEF InvitationsFit
    <3>7. \A k \in DOMAIN invitations' :
            /\ invitations'[k].joins <= 1
            /\ invitations'[k].status = "pending" => invitations'[k].joins = 0
            /\ \A s \in Handlers : Joining(s, k)' =>
                 invitations'[k].status = "accepted" /\ invitations'[k].joins = 0
      BY <3>1, <3>2, <3>3, <3>4, <3>5 DEF InvitationsFit
    <3>8. \A k \in DOMAIN invitations' : \A s, t \in Handlers : Joining(s, k)' /\ Joining(t, k)' => s = t
      BY <3>1, <3>3, <3>4, <3>5 DEF InvitationsFit
    <3> QED
      BY <3>6, <3>7, <3>8 DEF InvitationsFit
  <2> QED
    BY <2>11, <2>12, <2>13 DEF TeamInv
<1> QED
  BY <1>4, <1>5

(* Somebody is invited.                                                     *)
LEMMA CreateStep ==
  ASSUME TeamInv, NEW r \in Handlers, Create(r)
  PROVE  TeamInv'
<1>1. PICK p \in RequestSet : p = requests[r] /\ Fits(p)
  BY RequestIs DEF Fits
<1>2. /\ p.pc = "create" /\ UNCHANGED <<members, billingOwner, seats>>
      /\ requests' = [requests EXCEPT ![r] = Answered]
  BY <1>1 DEF Create, MoveTo, Moved
<1>3. CASE Duplicate(p.target)
  <2>1. Kept
    BY <1>1, <1>2, <1>3 DEF Create, Kept
  <2> QED
    BY <1>1, <1>2, <2>1, AnsweredMove
<1>4. CASE ~ Duplicate(p.target)
  <2>1. PICK q \in RequestSet : q = Answered
    BY AnsweredIs
  <2>2. q.pc = "done" /\ q.kind = "none" /\ ~ Early(q)
    BY <2>1, AnsweredIs DEF Early, Changes
  <2>3. requests' = [requests EXCEPT ![r] = q]
    BY <1>2, <2>1
  <2>4. q.pc \notin InviteSteps \cup AcceptSteps
    BY <2>2 DEF InviteSteps, AcceptSteps
  <2>5. p.target \in Users /\ p.actor \in Users /\ p.role \in {"ADMIN", "EDITOR"}
    BY <1>1, <1>2 DEF Fits, InviteSteps
  <2>6. PICK before \in SUBSET Handlers : before = InFlight \ {r}
    BY DEF InFlight
  <2>7. PICK w : w = Invitation(p.target, p.role, p.actor, before)
    OBVIOUS
  <2>8. /\ w \in InvitationSet /\ w.email = p.target /\ w.during = before
        /\ w.status = "pending" /\ w.joins = 0
    BY <2>5, <2>7 DEF Invitation, InvitationSet
  <2>9. invitations' = Append(invitations, w)
    BY <1>1, <1>4, <2>6, <2>7 DEF Create
  <2>10. PICK n \in Nat : n = Len(invitations) /\ DOMAIN invitations = 1..n
    BY InvitationsAre
  <2>11. /\ invitations' \in Seq(InvitationSet) /\ DOMAIN invitations' = 1..n+1
         /\ invitations'[n+1] = w /\ \A i \in 1..n : invitations'[i] = invitations[i]
    BY <2>8, <2>9, <2>10, InvitationsAre
  <2>12. EmailsStay
    BY <2>10, <2>11 DEF EmailsStay
  <2>13. DocsNumbered' /\ FewChanging'
    BY <1>1, <1>2, <2>2, <2>3, DocsStay, FewStay
  <2>14. RequestsFit'
    <3>1. Fits(q)'
      BY <2>2, <2>4 DEF Fits, ChangeSteps
    <3> QED
      BY <2>3, <2>12, <3>1, RequestsStillFit
  <2>15. BothEarly' /\ LastEarly' /\ NotTaken' /\ UndoIsLast'
    BY <1>2, <2>2, <2>3, MoveKeepsChanges
  <2>16. \A s \in Handlers : requests'[s] = IF s = r THEN q ELSE requests[s]
    BY <2>3, OneRequestMoves
  <2>17. NeverAway'
    <3> SUFFICES ASSUME NEW t \in Users, Member(t), members[t].doc = 1
                 PROVE  NotInvited(t)'
      BY <1>2 DEF NeverAway, Member
    <3>1. NotInvited(t)
      BY DEF NeverAway, TeamInv
    <3>2. p.target # t
      BY <1>1, <1>2, <3>1 DEF NotInvited, InviteSteps
    <3>3. \A i \in DOMAIN invitations' : invitations'[i].email # t
      BY <2>8, <2>10, <2>11, <3>1, <3>2 DEF NotInvited
    <3> QED
      BY <2>4, <2>16, <3>1, <3>3 DEF NotInvited
  <2>18. OwnerComesBack'
    <3> SUFFICES ASSUME Owners' = {} PROVE \E s \in Handlers : Restores(s)'
      BY DEF OwnerComesBack
    <3>1. PICK s \in Handlers : Restores(s)
      BY <1>2, OwnersStay DEF OwnerComesBack, TeamInv
    <3>2. s # r /\ requests'[s] = requests[s] /\ s \in before
      BY <1>1, <1>2, <2>6, <2>16, <3>1 DEF Restores, InFlight
    <3>3. Barred(s) => Barred(s)'
      <4> SUFFICES ASSUME Barred(s) PROVE Barred(s)'
        OBVIOUS
      <4>1. \A i \in DOMAIN invitations' :
              invitations'[i].email = requests[s].target => s \in invitations'[i].during
        BY <2>8, <2>10, <2>11, <3>2 DEF Barred
      <4>2. \A z \in Handlers : requests'[z].pc \in AcceptSteps => requests'[z].target # requests[s].target
        BY <2>4, <2>16 DEF Barred
      <4> QED
        BY <3>2, <4>1, <4>2 DEF Barred
    <3> QED
      BY <1>2, <3>1, <3>2, <3>3 DEF Restores, Found, Member
  <2>19. TeamTyped'
    BY <1>2, <2>3, <2>11, OneRequestMoves DEF TeamTyped, TeamInv
  <2>20. InvitationsFit'
    <3>1. \A s \in Handlers : \A i : Joining(s, i)' => Joining(s, i) /\ i \in 1..n
      <4> SUFFICES ASSUME NEW s \in Handlers, NEW i, Joining(s, i)' PROVE Joining(s, i) /\ i \in 1..n
        OBVIOUS
      <4>1. requests'[s] = requests[s] /\ requests[s].pc = "join" /\ requests[s].invitation = i
        BY <2>2, <2>16 DEF Joining
      <4>2. Fits(requests[s])
        BY RequestIs
      <4> QED
        BY <2>10, <4>1, <4>2 DEF Fits, AcceptSteps, Joining
    <3>2. InvitationsFit
      BY DEF TeamInv
    <3>3. \A i \in 1..n : invitations[i].status = "pending" => invitations[i].email # w.email
      BY <1>4, <2>8, <2>10 DEF Duplicate
    <3>4. \A i, k \in 1..n+1 :
            i # k /\ invitations'[i].status = "pending" /\ invitations'[k].status = "pending"
              => invitations'[i].email # invitations'[k].email
      <4>1. \A i \in 1..n+1 : i \in 1..n \/ i = n+1
        BY <2>10
      <4> QED
        BY <2>10, <2>11, <3>2, <3>3, <4>1 DEF InvitationsFit
    <3>5. \A i \in 1..n :
            /\ invitations'[i].joins <= 1
            /\ invitations'[i].status = "pending" => invitations'[i].joins = 0
            /\ \A s \in Handlers : Joining(s, i)' =>
                 invitations'[i].status = "accepted" /\ invitations'[i].joins = 0
            /\ \A s, t \in Handlers : Joining(s, i)' /\ Joining(t, i)' => s = t
      BY <2>10, <2>11, <3>1, <3>2 DEF InvitationsFit
    <3>6. /\ invitations'[n+1].joins <= 1
          /\ invitations'[n+1].status = "pending" => invitations'[n+1].joins = 0
          /\ \A s \in Handlers : ~ Joining(s, n+1)'
      BY <2>8, <2>11, <3>1
    <3> QED
      BY <2>11, <3>4, <3>5, <3>6 DEF InvitationsFit
  <2> QED
    BY <2>13, <2>14, <2>15, <2>17, <2>18, <2>19, <2>20 DEF TeamInv
<1> QED
  BY <1>3, <1>4

(* Somebody is let in.                                                      *)
LEMMA JoinStep ==
  ASSUME TeamInv, NEW r \in Handlers, Join(r)
  PROVE  TeamInv'
<1>1. PICK p \in RequestSet : p = requests[r] /\ Fits(p)
  BY RequestIs DEF Fits
<1>2. /\ p.pc = "join" /\ UNCHANGED <<billingOwner, seats>>
      /\ requests' = [requests EXCEPT ![r] = Answered]
  BY <1>1 DEF Join, MoveTo, Moved
<1>3. PICK t \in Users, i \in DOMAIN invitations : t = p.target /\ i = p.invitation
  BY <1>1, <1>2 DEF Fits, AcceptSteps
<1>4. CASE Member(t)
  <2>1. Kept
    BY <1>1, <1>2, <1>3, <1>4 DEF Join, Kept
  <2> QED
    BY <1>1, <1>2, <2>1, AnsweredMove
<1>5. CASE ~ Member(t)
  <2>1. PICK q \in RequestSet : q = Answered
    BY AnsweredIs
  <2>2. q.pc = "done" /\ q.kind = "none" /\ ~ Early(q)
    BY <2>1, AnsweredIs DEF Early, Changes
  <2>3. requests' = [requests EXCEPT ![r] = q]
    BY <1>2, <2>1
  <2>4. q.pc \notin InviteSteps \cup AcceptSteps
    BY <2>2 DEF InviteSteps, AcceptSteps
  <2>5. PICK v \in InvitationSet : v = invitations[i]
    BY InvitationsAre
  <2>6. v.status = "accepted" /\ v.joins = 0
    BY <1>1, <1>2, <1>3, <2>5 DEF Joining, InvitationsFit, TeamInv
  <2>7. PICK w : w = [v EXCEPT !.joins = 1]
    OBVIOUS
  <2>8. /\ w \in InvitationSet /\ w.email = v.email /\ w.during = v.during /\ w.joins = 1
        /\ w.status = "accepted"
    BY <2>6, <2>7 DEF InvitationSet
  <2>9. invitations' = [invitations EXCEPT ![i] = w]
    <3>1. invitations' = [invitations EXCEPT ![requests[r].invitation].joins = @ + 1]
      BY <1>1, <1>3, <1>5 DEF Join
    <3>2. invitations' = [invitations EXCEPT ![i].joins = @ + 1]
      BY <1>1, <1>3, <3>1
    <3>3. [v EXCEPT !.joins = v.joins + 1] = w
      BY <2>6, <2>7
    <3> QED
      BY <2>5, <3>2, <3>3
  <2>10. /\ invitations' \in Seq(InvitationSet) /\ LettersStay
         /\ \A k \in DOMAIN invitations : invitations'[k] = IF k = i THEN w ELSE invitations[k]
    BY <2>5, <2>8, <2>9, OneLetter
  <2>11. /\ NewDoc \in Nat /\ NewDoc >= 2
    BY <1>1, <1>2, NewDocIsNext
  <2>12. PICK m : m = [role |-> v.role, doc |-> NewDoc]
    OBVIOUS
  <2>13. m \in MemberSet /\ m.doc = NewDoc /\ m.role \in {"ADMIN", "EDITOR"}
    BY <2>11, <2>12 DEF MemberSet, InvitationSet, Roles
  <2>14. members' = [members EXCEPT ![t] = m]
    BY <1>1, <1>3, <1>5, <2>5, <2>12 DEF Join
  <2>15. \A u \in Users : members'[u] = IF u = t THEN m ELSE members[u]
    BY <2>14, TeamIsTyped
  <2>16. /\ Owners' = Owners /\ t \notin Owners
         /\ \A s : Spares(s)' <=> Spares(s)
    BY <1>5, <2>13, <2>15 DEF Owners, Spares, Member
  <2>17. \A s \in Handlers : requests'[s] = IF s = r THEN q ELSE requests[s]
    BY <2>3, OneRequestMoves
  <2>18. \A s \in Handlers :
           /\ Early(requests[s])' => s # r /\ Early(requests[s])
           /\ Spares(requests[s])' <=> Spares(requests'[s])
    BY <2>2, <2>16, <2>17 DEF Early, Changes, Spares
  <2>19. DocsNumbered'
    BY <1>1, <1>2, <2>2, <2>3, <2>13, <2>15, NewDocKeeps
  <2>20. FewChanging'
    BY <1>1, <2>2, <2>3, FewStay
  <2>21. RequestsFit'
    <3>1. Fits(q)'
      BY <2>2, <2>4 DEF Fits, ChangeSteps
    <3>2. EmailsStay
      BY <2>10 DEF EmailsStay, LettersStay
    <3> QED
      BY <2>3, <3>1, <3>2, RequestsStillFit
  <2>22. BothEarly'
    BY <2>15, <2>16, <2>17, <2>18 DEF BothEarly, TeamInv, Spares, Owners
  <2>23. LastEarly'
    <3> SUFFICES ASSUME NEW s \in Handlers, Early(requests[s])'
                 PROVE  /\ Owners' # {}
                        /\ requests'[s].pc = "apply" =>
                             Spares(requests[s])'
                               \/ (requests'[s].was = "OWNER" /\ members'[requests'[s].target].doc = 1)
      BY DEF LastEarly
    <3>1. s # r /\ Early(requests[s]) /\ requests'[s] = requests[s]
      BY <2>17, <2>18
    <3>2. CASE requests[s].target = t
      BY <2>16, <2>18, <3>1, <3>2 DEF LastEarly, TeamInv, Spares
    <3>3. CASE requests[s].target # t
      <4>1. requests[s].pc = "apply" => requests[s].target \in Users
        BY RequestIs DEF Fits, ChangeSteps
      <4> QED
        BY <2>15, <2>16, <2>18, <3>1, <3>3, <4>1 DEF LastEarly, TeamInv
    <3> QED
      BY <3>2, <3>3
  <2>24. NotTaken'
    BY <2>2, <2>16, <2>17, <2>18 DEF NotTaken, TeamInv, Spares
  <2>25. UndoIsLast'
    BY <2>2, <2>17, <2>18 DEF UndoIsLast, TeamInv
  <2>26. NeverAway'
    <3> SUFFICES ASSUME NEW u \in Users, Member(u)', members'[u].doc = 1
                 PROVE  NotInvited(u)'
      BY DEF NeverAway
    <3>1. u # t
      BY <2>11, <2>13, <2>15
    <3>2. Member(u) /\ members[u].doc = 1
      BY <2>15, <3>1 DEF Member
    <3>3. NotInvited(u)
      BY <3>2 DEF NeverAway, TeamInv
    <3>4. \A k \in DOMAIN invitations' : invitations'[k].email # u
      BY <2>10, <3>3 DEF NotInvited, LettersStay
    <3> QED
      BY <2>4, <2>17, <3>3, <3>4 DEF NotInvited
  <2>27. OwnerComesBack'
    <3> SUFFICES ASSUME Owners' = {} PROVE \E s \in Handlers : Restores(s)'
      BY DEF OwnerComesBack
    <3>1. PICK s \in Handlers : Restores(s)
      BY <2>16 DEF OwnerComesBack, TeamInv
    <3>2. s # r /\ requests'[s] = requests[s] /\ requests[s].kind \in {"role", "remove"}
          /\ requests[s].target \in Users
      BY <1>1, <1>2, <2>17, <3>1, RequestIs DEF Restores, Fits, ChangeSteps
    <3>3. requests[s].target # t
      <4>1. CASE requests[s].kind = "role"
        BY <1>5, <3>1, <4>1 DEF Restores, Found
      <4>2. CASE requests[s].kind = "remove"
        BY <1>1, <1>2, <1>3, <3>1, <4>2 DEF Restores, Barred, AcceptSteps
      <4> QED
        BY <3>2, <4>1, <4>2
    <3>4. Barred(s) => Barred(s)'
      BY <2>3, <2>4, <2>10, <3>2, LettersKeepBarred
    <3>5. members'[requests[s].target] = members[requests[s].target]
      BY <2>15, <3>2, <3>3
    <3> QED
      BY <3>1, <3>2, <3>4, <3>5 DEF Restores, Found, Member
  <2>28. TeamTyped'
    BY <1>2, <2>3, <2>10, <2>13, <2>14, OneRequestMoves DEF TeamTyped, TeamInv
  <2>29. InvitationsFit'
    <3>1. DOMAIN invitations' = DOMAIN invitations
      BY <2>10 DEF LettersStay
    <3>2. \A k \in DOMAIN invitations :
            /\ invitations'[k].email = invitations[k].email
            /\ invitations'[k].status = invitations[k].status
            /\ invitations'[k].joins = IF k = i THEN 1 ELSE invitations[k].joins
      BY <2>5, <2>6, <2>8, <2>10
    <3>3. \A s \in Handlers : \A k : Joining(s, k)' => s # r /\ Joining(s, k)
      BY <2>2, <2>17 DEF Joining
    <3>4. InvitationsFit /\ Joining(r, i) /\ invitations[i].status = "accepted"
      BY <1>1, <1>2, <1>3, <2>5, <2>6 DEF TeamInv, Joining
    <3>5. \A s \in Handlers : ~ Joining(s, i)'
      BY <3>3, <3>4 DEF InvitationsFit
    <3> QED
      BY <3>1, <3>2, <3>3, <3>4, <3>5 DEF InvitationsFit
  <2> QED
    BY <2>19, <2>20, <2>21, <2>22, <2>23, <2>24, <2>25, <2>26, <2>27, <2>28, <2>29 DEF TeamInv
<1> QED
  BY <1>4, <1>5

-----------------------------------------------------------------------------
(* Everything together.                                                     *)

(* No request has begun: what an opening and a team at rest have in common. *)
LEMMA NothingBegun ==
  ASSUME members \in [Users -> MemberSet], invitations \in Seq(InvitationSet), billingOwner \in Users,
         seats \in 1..Seats, requests \in [Handlers -> RequestSet], Owners # {},
         \A u \in Users : members[u].doc = IF Member(u) THEN 1 ELSE 0,
         \A r \in Handlers : requests[r].pc \in {"ready", "done"} /\ Fits(requests[r]),
         \A i \in DOMAIN invitations : invitations[i].joins = 0 /\ ~ Member(invitations[i].email),
         \A i, k \in DOMAIN invitations : i # k => invitations[i].email # invitations[k].email,
         FewChanging
  PROVE  TeamInv
<1>1. \A r \in Handlers : requests[r].pc \notin ChangeSteps \cup InviteSteps \cup AcceptSteps
  BY DEF ChangeSteps, InviteSteps, AcceptSteps
<1>2. TeamTyped /\ RequestsFit
  BY DEF TeamTyped, RequestsFit
<1>3. DocsNumbered
  <2>1. Cardinality(Finished) \in Nat
    <3>1. Finished \subseteq Handlers
      BY DEF Finished
    <3> QED
      BY <3>1, TeamAssumption, FS_Subset, FS_CardinalityType
  <2>2. PICK u \in Users : Member(u)
    BY DEF Owners, Member
  <2>3. \A v \in Users : members[v].doc <= 1
    OBVIOUS
  <2>4. members[u].doc = 1
    BY <2>2
  <2>5. \A v \in Users : members[v].doc <= members[u].doc
    BY <2>3, <2>4
  <2>6. \A v \in Users : members[v].doc <= 1 + Cardinality(Finished)
    BY <2>1
  <2> QED
    BY <2>5, <2>6 DEF DocsNumbered
<1>4. InvitationsFit
  BY <1>1 DEF InvitationsFit, Joining, AcceptSteps
<1>5. BothEarly /\ LastEarly /\ NotTaken /\ UndoIsLast
  <2>1. \A u \in Owners : u \in Users /\ members[u].doc = 1
    BY DEF Owners, Member
  <2> QED
    BY <2>1 DEF BothEarly, LastEarly, NotTaken, UndoIsLast
<1>6. NeverAway
  BY <1>1 DEF NeverAway, NotInvited
<1>7. OwnerComesBack
  BY DEF OwnerComesBack
<1> QED
  BY <1>2, <1>3, <1>4, <1>5, <1>6, <1>7 DEF TeamInv

LEMMA OpeningHolds ==
  ASSUME FewChanges, TeamInit
  PROVE  TeamInv
<1>1. PICK o \in Openings :
        /\ members = [u \in Users |-> [role |-> o.team[u], doc |-> IF o.team[u] = "none" THEN 0 ELSE 1]]
        /\ billingOwner \in {u \in Users : o.team[u] = "OWNER"}
        /\ \E order \in [1..Cardinality(o.invited) -> o.invited] :
             /\ \A i, k \in DOMAIN order : i # k => order[i] # order[k]
             /\ invitations = [i \in DOMAIN order |-> Invitation(order[i], "EDITOR", billingOwner, {})]
        /\ seats = Seats
        /\ requests = [r \in Handlers |-> IF o.kinds[r] = "none" THEN Answered
                                          ELSE [NoRequest EXCEPT !.kind = o.kinds[r]]]
  BY Zenon DEF TeamInit
<1>2. PICK team \in [Users -> {"OWNER", "ADMIN", "EDITOR", "none"}],
           kinds \in [Handlers -> {"role", "remove", "invite", "revoke", "accept", "none"}],
           invited \in SUBSET Users :
        /\ team = o.team /\ kinds = o.kinds /\ invited = o.invited
        /\ \A u \in invited : team[u] = "none"
  BY TeamAssumption
<1>3. /\ members \in [Users -> MemberSet]
      /\ \A u \in Users : members[u].role = team[u] /\ (Member(u) <=> team[u] # "none")
      /\ \A u \in Users : members[u].doc = IF Member(u) THEN 1 ELSE 0
  BY <1>1, <1>2 DEF MemberSet, Roles, Member
<1>4. PICK b \in Users : b = billingOwner /\ team[b] = "OWNER"
  BY <1>1, <1>2
<1>5. PICK n \in Nat : n = Cardinality(invited)
  BY <1>2, TeamAssumption, FS_Subset, FS_CardinalityType
<1>6. PICK order \in [1..n -> invited] :
        /\ \A i, k \in 1..n : i # k => order[i] # order[k]
        /\ invitations = [i \in 1..n |-> Invitation(order[i], "EDITOR", b, {})]
  <2>1. PICK order \in [1..Cardinality(o.invited) -> o.invited] :
          /\ \A i, k \in DOMAIN order : i # k => order[i] # order[k]
          /\ invitations = [i \in DOMAIN order |-> Invitation(order[i], "EDITOR", billingOwner, {})]
    BY <1>1, Zenon
  <2>2. order \in [1..n -> invited]
    BY <1>2, <1>5, <2>1
  <2>3. DOMAIN order = 1..n
    BY <2>2
  <2> QED
    BY <1>4, <2>1, <2>2, <2>3, Zenon
<1>7. /\ invitations \in Seq(InvitationSet) /\ DOMAIN invitations = 1..n
      /\ \A i \in 1..n : invitations[i].email = order[i] /\ invitations[i].joins = 0
  <2>1. ASSUME NEW i \in 1..n
        PROVE  /\ Invitation(order[i], "EDITOR", b, {}) \in InvitationSet
               /\ Invitation(order[i], "EDITOR", b, {}).email = order[i]
               /\ Invitation(order[i], "EDITOR", b, {}).joins = 0
    BY <1>2 DEF Invitation, InvitationSet
  <2>2. invitations \in [1..n -> InvitationSet]
    BY <1>6, <2>1
  <2> QED
    BY <1>6, <2>1, <2>2
<1>8. ASSUME NEW r \in Handlers
      PROVE  /\ requests[r] \in RequestSet /\ requests[r].pc \in {"ready", "done"} /\ Fits(requests[r])
             /\ requests[r].kind = kinds[r]
  <2>1. CASE kinds[r] = "none"
    BY <1>1, <1>2, <2>1, AnsweredIs, AnsweredFits
  <2>2. CASE kinds[r] # "none"
    <3>1. PICK q : q = [NoRequest EXCEPT !.kind = kinds[r]]
      OBVIOUS
    <3>2. q \in RequestSet /\ q.pc = "ready" /\ q.kind = kinds[r]
      BY <1>2, <3>1 DEF NoRequest, RequestSet, Roles
    <3>3. Fits(q)
      BY <2>2, <3>2 DEF Fits, ChangeSteps, InviteSteps, AcceptSteps
    <3>4. requests[r] = q
      BY <1>1, <1>2, <2>2, <3>1
    <3> QED
      BY <3>2, <3>3, <3>4
  <2> QED
    BY <2>1, <2>2
<1>9. requests \in [Handlers -> RequestSet]
  BY <1>1, <1>8
<1>10. FewChanging
  <2> SUFFICES ASSUME NEW r \in Handlers, NEW s \in Handlers, NEW t \in Handlers,
                      {kinds[r], kinds[s], kinds[t]} \subseteq {"role", "remove"}
               PROVE  r = s \/ s = t \/ r = t
    BY <1>8 DEF FewChanging, Changes
  <2> QED
    BY <1>2 DEF FewChanges
<1>11. Owners # {}
  BY <1>3, <1>4 DEF Owners
<1>12. seats \in 1..Seats
  BY <1>1, TeamAssumption
<1>13. \A i \in DOMAIN invitations : invitations[i].joins = 0 /\ ~ Member(invitations[i].email)
  BY <1>2, <1>3, <1>6, <1>7
<1>14. \A i, k \in DOMAIN invitations : i # k => invitations[i].email # invitations[k].email
  BY <1>6, <1>7
<1> QED
  BY <1>3, <1>4, <1>7, <1>8, <1>9, <1>10, <1>11, <1>12, <1>13, <1>14, NothingBegun

LEMMA TeamStepKeeps ==
  ASSUME TeamInv, [TeamNext]_teamVars
  PROVE  TeamInv'
<1>1. ASSUME NEW r \in Handlers, TeamStep(r) PROVE TeamInv'
  <2>1. CASE Begin(r) \/ Find(r) \/ CheckOwners(r) \/ ChangeRole(r) \/ RemoveMember(r)
    BY <2>1, BeginStep, FindStep, CheckOwnersStep, ChangeRoleStep, RemoveMemberStep
  <2>2. CASE Verify(r) \/ Undo(r) \/ ChoosePayer(r) \/ Bill(r)
    BY <2>2, VerifyStep, UndoStep, ChoosePayerStep, BillStep
  <2>3. CASE \/ ReadPlan(r) \/ CountSeats(r)
             \/ CountReplaced(r) \/ CheckRoom(r) \/ Replace(r) \/ Create(r) \/ RevokeInvitation(r)
    BY <2>3, CountStep, CountReplacedStep, CheckRoomStep, ReplaceStep, CreateStep, RevokeInvitationStep
  <2>4. CASE Accept(r) \/ CheckSeat(r) \/ ClaimInvitation(r) \/ Join(r)
    BY <2>4, AcceptStep, CheckSeatStep, ClaimInvitationStep, JoinStep
  <2> QED
    BY <1>1, <2>1, <2>2, <2>3, <2>4 DEF TeamStep
<1>2. ASSUME NEW i \in DOMAIN invitations, Expire(i) PROVE TeamInv'
  BY <1>2, ExpireStep
<1>3. CASE LowerPlan
  BY <1>3, LowerPlanStep
<1>4. CASE UNCHANGED teamVars
  BY <1>4, TeamStays DEF teamVars, TeamInv, TeamTyped
<1> QED
  BY <1>1, <1>2, <1>3, <1>4 DEF TeamNext

LEMMA TeamInvShows == TeamInv => TeamHolds
<1> SUFFICES ASSUME TeamInv PROVE TeamHolds
  OBVIOUS
<1>1. TeamTypeOK
  BY TeamIsTyped DEF TeamInv, TeamTyped, InvitationsFit, TeamTypeOK
<1>2. OwnersRemain
  <2>1. ASSUME InFlight = {}, Owners = {} PROVE FALSE
    BY <2>1 DEF TeamInv, OwnerComesBack, Restores, InFlight
  <2> QED
    BY <2>1 DEF OwnersRemain
<1>3. InvitationsWorkOnce
  BY DEF TeamInv, InvitationsFit, InvitationsWorkOnce
<1> QED
  BY <1>1, <1>2, <1>3 DEF TeamHolds

(* However requests overlap, two of which change roles or remove members:   *)
(* when they are done an owner is left, an address has at most one pending  *)
(* invitation, and an invitation lets somebody in at most once.             *)
THEOREM TeamIsKept == FewChanges => (TeamSpec => []TeamHolds)
<1> SUFFICES ASSUME FewChanges PROVE TeamSpec => []TeamHolds
  OBVIOUS
<1>1. TeamInit => TeamInv
  BY OpeningHolds
<1>2. TeamInv /\ [TeamNext]_teamVars => TeamInv'
  BY TeamStepKeeps
<1>3. TeamInv => TeamHolds
  BY TeamInvShows
<1> QED
  BY <1>1, <1>2, <1>3, PTL DEF TeamSpec

-----------------------------------------------------------------------------
(* Seats: the inductive invariant.                                          *)

(* Who may be in the team by the time a request that was checked is done:   *)
(* invitations made since are opened later.                                 *)
Invited(u, r) == \E i \in Pending : invitations[i].email = u /\ r \notin invitations[i].during
Coming(r) == {u \in Users : Member(u) \/ Returns(u) \/ Invited(u, r)}

(* An invitation knows the requests that were in progress when it was made, *)
(* and whoever accepts it began after them.                                 *)
LettersKnown == \A i \in DOMAIN invitations : \A r \in invitations[i].during : requests[r].pc # "ready"
Late(i) ==
  /\ i \in DOMAIN invitations /\ ~ invitations[i].expired
  /\ \A s \in invitations[i].during : requests[s].pc = "done"
OpenedLate == \A r \in Handlers : requests[r].pc \in AcceptSteps => Late(requests[r].invitation)

(* The seats a request was checked against suffice for all of them.         *)
SeatsSuffice ==
  \A r \in Handlers :
    requests[r].pc \in {"claim", "join"} /\ Checked(requests[r]) =>
      Cardinality(Coming(r)) <= requests[r].limit

(* Whose invitations were counted first is not invited behind its back.      *)
Counting(q) == q.pc = "seat" /\ q.first = "invitations"
CountedFirst ==
  \A r \in Handlers : Counting(requests[r]) =>
    \A i \in Pending : r \notin invitations[i].during => invitations[i].email \in requests[r].counted

(* A request that has not begun has not read anything.                      *)
Unread == \A r \in Handlers : requests[r].pc = "ready" => requests[r].limit = 0 /\ requests[r].first = "none"

SeatedInv == LettersKnown /\ OpenedLate /\ SeatsSuffice /\ CountedFirst /\ Unread

LEMMA ComingIsFinite ==
  ASSUME NEW r
  PROVE  /\ IsFiniteSet(Coming(r)) /\ Cardinality(Coming(r)) \in Nat
         /\ \A S : S \subseteq Coming(r) =>
              IsFiniteSet(S) /\ Cardinality(S) \in Nat /\ Cardinality(S) <= Cardinality(Coming(r))
<1>1. Coming(r) \subseteq Users /\ IsFiniteSet(Users)
  BY TeamAssumption DEF Coming
<1>2. IsFiniteSet(Coming(r))
  BY <1>1, FS_Subset
<1> QED
  BY <1>2, FS_Subset, FS_CardinalityType

(* Nobody new is coming.                                                    *)
LEMMA FewerCome ==
  ASSUME NEW r, Coming(r)' \subseteq Coming(r), NEW n \in Nat, Cardinality(Coming(r)) <= n
  PROVE  Cardinality(Coming(r)') <= n
<1>1. /\ Cardinality(Coming(r)) \in Nat /\ Cardinality(Coming(r)') \in Nat
      /\ Cardinality(Coming(r)') <= Cardinality(Coming(r))
  BY ComingIsFinite
<1> QED
  BY <1>1

(* What invitations do while a request makes a step.                        *)
LettersKeep(r, done) ==
  /\ DOMAIN invitations \subseteq DOMAIN invitations'
  /\ \A i \in DOMAIN invitations :
       /\ invitations'[i].email = invitations[i].email /\ invitations'[i].during = invitations[i].during
       /\ invitations'[i].expired = invitations[i].expired
       /\ invitations'[i].status = "pending" => invitations[i].status = "pending"
  /\ \A i \in DOMAIN invitations' : i \notin DOMAIN invitations =>
       done /\ invitations'[i].during = InFlight \ {r}

LEMMA SeatedStep ==
  ASSUME TeamInv, SeatedInv, NEW r \in Handlers, NEW p \in RequestSet, NEW q \in RequestSet,
         p = requests[r], requests' = [requests EXCEPT ![r] = q],
         q.pc # "ready", p.pc # "done", LettersKeep(r, q.pc = "done"),
         \A u \in Users : Member(u)' => Member(u) \/ Returns(u),
         MayReturn(q) => \/ q.target \in Users /\ Member(q.target)
                         \/ MayReturn(p) /\ q.target = p.target
                         \/ p.pc = "claim" /\ p.invitation \in Pending /\ q.target = p.target,
         q.pc \in AcceptSteps => Late(q.invitation),
         q.pc \in {"claim", "join"} /\ Checked(q) => Cardinality(Coming(r)) <= q.limit,
         Counting(q) => \A i \in Pending :
                          r \notin invitations[i].during => invitations[i].email \in q.counted
  PROVE  SeatedInv'
<1>1. \A s \in Handlers : requests'[s] = IF s = r THEN q ELSE requests[s]
  BY OneRequestMoves
<1>2. LettersKnown'
  <2> SUFFICES ASSUME NEW i \in DOMAIN invitations', NEW s \in invitations'[i].during
               PROVE  requests'[s].pc # "ready"
    BY DEF LettersKnown
  <2>1. s \in Handlers
    <3>1. CASE i \in DOMAIN invitations
      BY <3>1, InvitationsAre DEF InvitationSet, LettersKeep
    <3>2. CASE i \notin DOMAIN invitations
      BY <3>2 DEF LettersKeep, InFlight
    <3> QED
      BY <3>1, <3>2
  <2>2. s = r \/ requests[s].pc # "ready"
    BY DEF LettersKeep, InFlight, SeatedInv, LettersKnown
  <2> QED
    BY <1>1, <2>1, <2>2
<1>3. ASSUME NEW i, Late(i) PROVE Late(i)'
  <2>1. i \in DOMAIN invitations /\ i \in DOMAIN invitations' /\ ~ invitations'[i].expired
    BY <1>3 DEF Late, LettersKeep
  <2>2. ASSUME NEW s \in invitations'[i].during PROVE requests'[s].pc = "done"
    <3>1. s \in invitations[i].during /\ requests[s].pc = "done" /\ s \in Handlers
      BY <1>3, <2>1, <2>2, InvitationsAre DEF Late, LettersKeep, InvitationSet
    <3> QED
      BY <1>1, <3>1
  <2> QED
    BY <2>1, <2>2 DEF Late
<1>4. OpenedLate'
  <2> SUFFICES ASSUME NEW s \in Handlers, requests'[s].pc \in AcceptSteps
               PROVE  Late(requests[s].invitation)'
    BY DEF OpenedLate
  <2>1. PICK i : i = requests'[s].invitation
    OBVIOUS
  <2>2. Late(i)
    BY <1>1, <2>1 DEF SeatedInv, OpenedLate
  <2>3. Late(i)'
    BY <1>3, <2>2
  <2> QED
    BY <2>1, <2>3
<1>5. ASSUME NEW s \in Handlers, requests'[s].pc \in {"claim", "join"}
      PROVE  Coming(s)' \subseteq Coming(s)
  <2> SUFFICES ASSUME NEW u \in Users, Member(u)' \/ Returns(u)' \/ Invited(u, s)'
               PROVE  Member(u) \/ Returns(u) \/ Invited(u, s)
    BY DEF Coming
  <2>1. CASE Member(u)'
    BY <2>1
  <2>2. CASE Returns(u)'
    <3>1. PICK z \in Handlers : requests'[z].target = u /\ MayReturn(requests'[z])
      BY <2>2 DEF Returns, MayReturn
    <3>2. CASE z # r
      BY <1>1, <3>1, <3>2 DEF Returns
    <3>3. CASE z = r
      <4>1. q.target = u /\ MayReturn(q)
        BY <1>1, <3>1, <3>3
      <4>2. CASE MayReturn(p) /\ q.target = p.target
        BY <4>1, <4>2 DEF Returns
      <4>3. CASE p.pc = "claim" /\ p.invitation \in Pending /\ q.target = p.target
        <5>1. invitations[p.invitation].email = u /\ Late(p.invitation)
          BY <4>1, <4>3, RequestIs DEF Fits, AcceptSteps, SeatedInv, OpenedLate
        <5>2. s \notin invitations[p.invitation].during
          BY <1>1, <1>5, <4>3, <5>1 DEF Late
        <5> QED
          BY <4>3, <5>1, <5>2 DEF Invited
      <4> QED
        BY <4>1, <4>2, <4>3
    <3> QED
      BY <3>2, <3>3
  <2>3. CASE Invited(u, s)'
    <3>1. PICK i \in DOMAIN invitations' :
            /\ invitations'[i].status = "pending" /\ ~ invitations'[i].expired
            /\ invitations'[i].email = u /\ s \notin invitations'[i].during
      BY <2>3 DEF Invited, Pending, Usable
    <3>2. i \in DOMAIN invitations
      BY <1>1, <1>5, <3>1 DEF LettersKeep, InFlight
    <3> QED
      BY <3>1, <3>2 DEF Invited, Pending, Usable, LettersKeep
  <2> QED
    BY <2>1, <2>2, <2>3
<1>6. SeatsSuffice'
  <2> SUFFICES ASSUME NEW s \in Handlers, requests'[s].pc \in {"claim", "join"}, Checked(requests'[s])
               PROVE  Cardinality(Coming(s)') <= requests'[s].limit
    BY DEF SeatsSuffice, Checked
  <2>1. PICK n \in Nat : n = requests'[s].limit
    BY OneRequestMoves DEF RequestSet
  <2>2. Cardinality(Coming(s)) <= n
    BY <1>1, <2>1 DEF SeatedInv, SeatsSuffice
  <2>3. Cardinality(Coming(s)') <= n
    BY <1>5, <2>2, FewerCome
  <2> QED
    BY <2>1, <2>3
<1>7. Unread'
  BY <1>1 DEF SeatedInv, Unread
<1>8. CountedFirst'
  <2> SUFFICES ASSUME NEW s \in Handlers, Counting(requests'[s]), NEW i \in DOMAIN invitations',
                      invitations'[i].status = "pending", ~ invitations'[i].expired,
                      s \notin invitations'[i].during
               PROVE  invitations'[i].email \in requests'[s].counted
    BY DEF CountedFirst, Counting, Pending, Usable
  <2>1. i \in DOMAIN invitations
    BY <1>1 DEF LettersKeep, InFlight, Counting
  <2>2. i \in Pending /\ invitations'[i].email = invitations[i].email /\ s \notin invitations[i].during
    BY <2>1 DEF LettersKeep, Pending, Usable
  <2> QED
    BY <1>1, <2>2 DEF SeatedInv, CountedFirst
<1> QED
  BY <1>2, <1>4, <1>6, <1>7, <1>8 DEF SeatedInv

-----------------------------------------------------------------------------
(* Seats: the steps.                                                        *)

LEMMA MoveToIs ==
  ASSUME TeamInv, NEW r \in Handlers, NEW p \in RequestSet, p = requests[r],
         NEW pc \in {"done"} \cup ChangeSteps \cup InviteSteps \cup AcceptSteps, MoveTo(r, pc)
  PROVE  \E q \in RequestSet :
           /\ requests' = [requests EXCEPT ![r] = q] /\ q.pc = pc
           /\ pc # "done" => /\ q.kind = p.kind /\ q.was = p.was /\ q.target = p.target
                             /\ q.invitation = p.invitation /\ q.limit = p.limit
<1>1. CASE pc = "done"
  <2>1. requests' = [requests EXCEPT ![r] = Answered]
    BY <1>1 DEF MoveTo, Moved
  <2> QED
    BY <1>1, <2>1, AnsweredIs
<1>2. CASE pc # "done"
  <2>1. PICK q : q = [p EXCEPT !.pc = pc]
    OBVIOUS
  <2>2. requests' = [requests EXCEPT ![r] = q]
    BY <1>2, <2>1 DEF MoveTo, Moved
  <2>3. /\ q \in RequestSet /\ q.pc = pc /\ q.kind = p.kind /\ q.was = p.was /\ q.target = p.target
        /\ q.invitation = p.invitation /\ q.limit = p.limit
    BY <2>1 DEF RequestSet
  <2> QED
    BY <2>2, <2>3
<1> QED
  BY <1>1, <1>2

LEMMA SeatedMoveTo ==
  ASSUME TeamInv, SeatedInv, NEW r \in Handlers, NEW p \in RequestSet, p = requests[r],
         NEW pc \in {"done"} \cup ChangeSteps \cup InviteSteps \cup AcceptSteps, MoveTo(r, pc),
         p.pc # "done", LettersKeep(r, pc = "done"),
         \A u \in Users : Member(u)' => Member(u) \/ Returns(u),
         pc \in {"owners", "apply", "verify", "undo"} => p.pc \in {"owners", "apply", "verify"},
         pc # "seat", pc \in AcceptSteps => p.pc \in AcceptSteps,
         pc \in {"claim", "join"} => p.pc = "claim" /\ p.invitation \in Pending
  PROVE  SeatedInv'
<1>1. PICK q \in RequestSet :
        /\ requests' = [requests EXCEPT ![r] = q] /\ q.pc = pc
        /\ pc # "done" => /\ q.kind = p.kind /\ q.was = p.was /\ q.target = p.target
                          /\ q.invitation = p.invitation /\ q.limit = p.limit
  BY MoveToIs
<1>2. q.pc # "ready"
  BY <1>1 DEF ChangeSteps, InviteSteps, AcceptSteps
<1>3. MayReturn(q) => \/ MayReturn(p) /\ q.target = p.target
                      \/ p.pc = "claim" /\ p.invitation \in Pending /\ q.target = p.target
  BY <1>1 DEF MayReturn
<1>4. q.pc \in AcceptSteps => Late(q.invitation)
  <2> SUFFICES ASSUME q.pc \in AcceptSteps PROVE Late(q.invitation)
    OBVIOUS
  <2>1. q.invitation = p.invitation /\ p.pc \in AcceptSteps
    BY <1>1 DEF AcceptSteps
  <2>2. Late(p.invitation)
    BY <2>1 DEF SeatedInv, OpenedLate
  <2> QED
    BY <2>1, <2>2
<1>5. q.pc \in {"claim", "join"} /\ Checked(q) => Cardinality(Coming(r)) <= q.limit
  BY <1>1 DEF SeatedInv, SeatsSuffice, Checked
<1>6. LettersKeep(r, q.pc = "done") /\ ~ Counting(q)
  BY <1>1 DEF LettersKeep, Counting
<1> QED
  BY <1>1, <1>2, <1>3, <1>4, <1>5, <1>6, SeatedStep

LEMMA NothingMoves ==
  ASSUME UNCHANGED <<members, invitations>>, NEW r, NEW done
  PROVE  LettersKeep(r, done) /\ \A u \in Users : Member(u)' => Member(u) \/ Returns(u)
  BY DEF LettersKeep, Member

LEMMA SeatedChanges ==
  ASSUME TeamInv, SeatedInv, NEW r \in Handlers,
         CheckOwners(r) \/ ChangeRole(r) \/ RemoveMember(r) \/ Verify(r) \/ Undo(r)
  PROVE  SeatedInv'
<1>1. PICK p \in RequestSet : p = requests[r] /\ Fits(p)
  BY RequestIs DEF Fits
<1>2. p.pc \in {"owners", "apply", "verify", "undo"} /\ UNCHANGED invitations
  BY <1>1 DEF CheckOwners, ChangeRole, RemoveMember, Verify, Undo, Kept
<1>3. PICK pc \in {"done", "apply", "verify", "undo", "payer"} :
        MoveTo(r, pc) /\ (p.pc = "undo" => pc = "done")
  BY <1>1 DEF CheckOwners, ChangeRole, RemoveMember, Verify, Undo, MoveIf
<1>4. pc \in {"done"} \cup ChangeSteps \cup InviteSteps \cup AcceptSteps /\ pc \notin AcceptSteps
  BY <1>3 DEF ChangeSteps, InviteSteps, AcceptSteps
<1>5. LettersKeep(r, pc = "done")
  BY <1>2 DEF LettersKeep
<1>6. p.target \in Users /\ p.kind \in {"role", "remove"}
  BY <1>1, <1>2 DEF Fits, ChangeSteps
<1>7. ASSUME NEW u \in Users, Member(u)' PROVE Member(u) \/ Returns(u)
  <2>1. CASE u # p.target
    <3>1. members'[u] = members[u]
      BY <1>1, <1>6, <2>1, TeamIsTyped DEF CheckOwners, ChangeRole, RemoveMember, Verify, Undo, Kept
    <3> QED
      BY <1>7, <3>1 DEF Member
  <2>2. CASE u = p.target /\ p.pc = "undo" /\ p.kind = "remove"
    <3>1. p.was = "OWNER"
      BY <1>1, <2>2 DEF Fits
    <3> QED
      BY <1>1, <2>2, <3>1 DEF Returns, MayReturn
  <2>3. CASE u = p.target /\ ~ (p.pc = "undo" /\ p.kind = "remove")
    <3>1. UNCHANGED members \/ Found(r)
      BY <1>1, <2>3 DEF CheckOwners, ChangeRole, RemoveMember, Verify, Undo, Kept
    <3> QED
      BY <1>1, <1>7, <2>3, <3>1 DEF Found, Member
  <2> QED
    BY <2>1, <2>2, <2>3
<1> QED
  BY <1>1, <1>2, <1>3, <1>4, <1>5, <1>7, SeatedMoveTo

(* A request goes on, and nobody is let in by it.                           *)
LEMMA SeatedQuiet ==
  ASSUME TeamInv, SeatedInv, UNCHANGED <<members, invitations>>, NEW r \in Handlers, NEW q \in RequestSet,
         requests' = [requests EXCEPT ![r] = q], requests[r].pc # "done",
         q.pc \notin {"ready"} \cup AcceptSteps,
         MayReturn(q) => q.target \in Users /\ Member(q.target)
  PROVE  SeatedInv'
<1>1. PICK p \in RequestSet : p = requests[r]
  BY RequestIs
<1>2. /\ LettersKeep(r, q.pc = "done")
      /\ \A u \in Users : Member(u)' => Member(u) \/ Returns(u)
  BY NothingMoves
<1>3. q.pc \notin {"claim", "join"} /\ ~ Counting(q)
  BY DEF AcceptSteps, Counting
<1> QED
  BY <1>1, <1>2, <1>3, SeatedStep

LEMMA SeatedBegin ==
  ASSUME TeamInv, SeatedInv, NEW r \in Handlers, Begin(r)
  PROVE  SeatedInv'
<1>1. PICK p \in RequestSet : p = requests[r] /\ Fits(p)
  BY RequestIs DEF Fits
<1>2. p.pc = "ready" /\ p.kind \in {"role", "remove", "invite", "revoke"} /\ Kept
  BY <1>1 DEF Begin, RequestSet, Fits
<1>3. PICK q : q = requests'[r] /\ q.pc = IF p.kind = "invite" THEN "count" ELSE p.kind
  <2>1. PICK u \in Team, target \in Users, role \in Roles :
          /\ requests[r].kind = "invite" => role # "OWNER" /\ canAssignRole(members[u].role, role)
          /\ requests' = [requests EXCEPT ![r] = [requests[r] EXCEPT
               !.pc = IF requests[r].kind = "invite" THEN "count" ELSE requests[r].kind, !.actor = u,
               !.as = members[u].role, !.target = target, !.role = role, !.payer = billingOwner]]
    BY Zenon DEF Begin
  <2>2. PICK pc, as : pc = (IF p.kind = "invite" THEN "count" ELSE p.kind) /\ as = members[u].role
    OBVIOUS
  <2>3. PICK q : q = [p EXCEPT !.pc = pc, !.actor = u, !.as = as, !.target = target, !.role = role,
                               !.payer = billingOwner]
    OBVIOUS
  <2>4. requests' = [requests EXCEPT ![r] = q]
    BY <1>1, <2>1, <2>2, <2>3
  <2>5. q.pc = pc
    BY <2>3 DEF RequestSet
  <2> QED
    BY <2>2, <2>4, <2>5, TeamIsTyped
<1>4. q \in RequestSet
  <2>1. TeamInv'
    BY BeginStep
  <2>2. requests' \in [Handlers -> RequestSet]
    BY <2>1 DEF TeamInv, TeamTyped
  <2> QED
    BY <1>3, <2>2
<1>5. requests' = [requests EXCEPT ![r] = q]
  BY <1>3, TeamIsTyped DEF Begin
<1>6. q.pc \in {"role", "remove", "revoke", "count"}
  BY <1>2, <1>3
<1>7. q.pc \notin {"ready"} \cup AcceptSteps /\ ~ MayReturn(q)
  BY <1>6 DEF AcceptSteps, MayReturn
<1> QED
  BY <1>1, <1>2, <1>4, <1>5, <1>7, SeatedQuiet DEF Kept

LEMMA SeatedFind ==
  ASSUME TeamInv, SeatedInv, NEW r \in Handlers, Find(r)
  PROVE  SeatedInv'
<1>1. PICK p \in RequestSet : p = requests[r] /\ Fits(p)
  BY RequestIs DEF Fits
<1>2. p.pc \in {"role", "remove"} /\ p.target \in Users /\ Kept
  BY <1>1 DEF Find, Fits
<1>3. PICK was, doc : was = members[p.target].role /\ doc = members[p.target].doc
  OBVIOUS
<1>4. PICK f : f = [p EXCEPT !.was = was, !.doc = doc]
  OBVIOUS
<1>5. PICK pc \in {"done", "owners", "apply"} :
        /\ requests' = [requests EXCEPT ![r] = Moved(f, pc)]
        /\ ~ Member(p.target) => pc = "done"
  BY <1>1, <1>3, <1>4 DEF Find
<1>6. CASE pc = "done"
  <2>1. PICK q \in RequestSet : q = Answered
    BY AnsweredIs
  <2>2. requests' = [requests EXCEPT ![r] = q] /\ q.pc = "done"
    BY <1>5, <1>6, <2>1, AnsweredIs DEF Moved
  <2>3. q.pc \notin {"ready"} \cup AcceptSteps /\ ~ MayReturn(q)
    BY <2>2 DEF AcceptSteps, MayReturn
  <2> QED
    BY <1>1, <1>2, <2>2, <2>3, SeatedQuiet DEF Kept
<1>7. CASE pc # "done"
  <2>1. PICK q : q = [f EXCEPT !.pc = pc]
    OBVIOUS
  <2>2. requests' = [requests EXCEPT ![r] = q]
    BY <1>5, <1>7, <2>1 DEF Moved
  <2>3. f.target = p.target
    BY <1>4 DEF RequestSet
  <2>4. q.pc = pc /\ q.target = p.target
    BY <1>4, <2>1, <2>3 DEF RequestSet
  <2>5. q \in RequestSet
    <3>1. TeamInv'
      BY FindStep
    <3>2. requests'[r] = q /\ requests' \in [Handlers -> RequestSet]
      BY <2>2, <3>1, TeamIsTyped DEF TeamInv, TeamTyped
    <3> QED
      BY <3>2
  <2>6. q.pc \notin {"ready"} \cup AcceptSteps /\ q.target \in Users /\ Member(q.target)
    BY <1>2, <1>5, <1>7, <2>4 DEF AcceptSteps
  <2> QED
    BY <1>1, <1>2, <2>2, <2>5, <2>6, SeatedQuiet DEF Kept
<1> QED
  BY <1>6, <1>7

LEMMA SeatedPayer ==
  ASSUME TeamInv, SeatedInv, NEW r \in Handlers, ChoosePayer(r) \/ Bill(r)
  PROVE  SeatedInv'
<1>1. PICK p \in RequestSet : p = requests[r] /\ Fits(p)
  BY RequestIs DEF Fits
<1>2. p.pc \in {"payer", "bill"} /\ UNCHANGED <<members, invitations>>
  BY <1>1 DEF ChoosePayer, Bill, Kept
<1>3. TeamInv'
  BY ChoosePayerStep, BillStep
<1>4. PICK q : q = requests'[r]
  OBVIOUS
<1>5. q \in RequestSet
  BY <1>3, <1>4 DEF TeamInv, TeamTyped
<1>6. q.pc \in {"done", "bill"}
  <2>1. CASE MoveTo(r, "done")
    BY <1>4, <2>1, AnsweredIs, TeamIsTyped DEF MoveTo, Moved
  <2>2. CASE \E u \in Owners : requests' = [requests EXCEPT ![r].pc = "bill", ![r].payer = u]
    <3>1. PICK u \in Owners : requests' = [requests EXCEPT ![r].pc = "bill", ![r].payer = u]
      BY <2>2
    <3>2. PICK a : a = [p EXCEPT !.pc = "bill"]
      OBVIOUS
    <3>3. q = [a EXCEPT !.payer = u] /\ a.pc = "bill" /\ a \in RequestSet
      BY <1>1, <1>4, <3>1, <3>2, TeamIsTyped DEF RequestSet, ChangeSteps
    <3>4. q.pc = "bill"
      BY <3>3 DEF RequestSet
    <3> QED
      BY <3>4
  <2> QED
    BY <2>1, <2>2 DEF ChoosePayer, Bill
<1>7. requests' = [requests EXCEPT ![r] = q]
  BY <1>4, TeamIsTyped DEF ChoosePayer, Bill, MoveTo
<1>8. q.pc \notin {"ready"} \cup AcceptSteps /\ ~ MayReturn(q)
  BY <1>6 DEF AcceptSteps, MayReturn
<1> QED
  BY <1>1, <1>2, <1>5, <1>7, <1>8, SeatedQuiet

LEMMA SeatedRoom ==
  ASSUME TeamInv, SeatedInv, NEW r \in Handlers, CheckRoom(r)
  PROVE  SeatedInv'
<1>1. PICK p \in RequestSet, z \in RequestSet :
        /\ p = requests[r] /\ p.pc = "room" /\ Kept /\ z.pc = "replace"
        /\ requests' = [requests EXCEPT ![r] = Answered] \/ requests' = [requests EXCEPT ![r] = z]
  BY RoomIs
<1>2. PICK q \in RequestSet : q.pc \in {"done", "replace"} /\ requests' = [requests EXCEPT ![r] = q]
  BY <1>1, AnsweredIs
<1>3. q.pc \notin {"ready"} \cup AcceptSteps /\ ~ MayReturn(q)
  BY <1>2 DEF AcceptSteps, MayReturn
<1> QED
  BY <1>1, <1>2, <1>3, SeatedQuiet DEF Kept

LEMMA SeatedReplaced ==
  ASSUME TeamInv, SeatedInv, NEW r \in Handlers, CountReplaced(r)
  PROVE  SeatedInv'
<1>1. PICK p \in RequestSet : p = requests[r]
  BY RequestIs
<1>2. p.pc = "count" /\ UNCHANGED <<members, invitations>>
  BY <1>1 DEF CountReplaced, Kept
<1>3. TeamInv'
  BY CountReplacedStep
<1>4. PICK q : q = requests'[r]
  OBVIOUS
<1>5. q \in RequestSet
  BY <1>3, <1>4 DEF TeamInv, TeamTyped
<1>6. PICK n : n = Cardinality(PendingFor(p.target))
  OBVIOUS
<1>7. PICK f : f = [p EXCEPT !.replacing = n]
  OBVIOUS
<1>8. PICK pc \in {"room", "done"} : requests' = [requests EXCEPT ![r] = Moved(f, pc)]
  BY <1>1, <1>6, <1>7 DEF CountReplaced
<1>9. q = Moved(f, pc) /\ requests' = [requests EXCEPT ![r] = q]
  BY <1>4, <1>8, TeamIsTyped
<1>10. q.pc = pc
  <2>1. "pc" \in DOMAIN f
    BY <1>7 DEF RequestSet
  <2> QED
    BY <1>9, <2>1, AnsweredIs DEF Moved
<1>11. q.pc \notin {"ready"} \cup AcceptSteps /\ ~ MayReturn(q)
  BY <1>10 DEF AcceptSteps, MayReturn
<1> QED
  BY <1>1, <1>2, <1>5, <1>9, <1>11, SeatedQuiet

LEMMA SeatedCount ==
  ASSUME TeamInv, SeatedInv, NEW r \in Handlers, ReadPlan(r) \/ CountSeats(r)
  PROVE  SeatedInv'
<1>1. PICK p \in RequestSet, q \in RequestSet :
        /\ p = requests[r] /\ requests' = [requests EXCEPT ![r] = q] /\ Kept
        /\ p.pc \in {"room", "seat"} /\ q.pc = p.pc /\ q.invitation = p.invitation
        /\ \/ q.first = p.first /\ q.counted = p.counted
           \/ q.counted = Answer(q.first)
  BY CountIs
<1>2. q.pc \in AcceptSteps => Late(q.invitation)
  BY <1>1 DEF SeatedInv, OpenedLate
<1>3. q.pc \notin {"ready", "claim", "join"} /\ ~ MayReturn(q)
  BY <1>1 DEF MayReturn
<1>4. Counting(q) => \A i \in Pending :
                       r \notin invitations[i].during => invitations[i].email \in q.counted
  <2> SUFFICES ASSUME Counting(q), NEW i \in Pending, r \notin invitations[i].during
               PROVE  invitations[i].email \in q.counted
    OBVIOUS
  <2>1. CASE q.first = p.first /\ q.counted = p.counted
    <3>1. Counting(p)
      BY <1>1, <2>1 DEF Counting
    <3> QED
      BY <1>1, <2>1, <3>1 DEF SeatedInv, CountedFirst
  <2>2. CASE q.counted = Answer(q.first)
    BY <2>2 DEF Counting, Answer
  <2> QED
    BY <1>1, <2>1, <2>2
<1>5. /\ LettersKeep(r, q.pc = "done")
      /\ \A u \in Users : Member(u)' => Member(u) \/ Returns(u)
  BY <1>1, NothingMoves DEF Kept
<1> QED
  BY <1>1, <1>2, <1>3, <1>4, <1>5, SeatedStep

LEMMA RevokedKeep ==
  ASSUME TeamInv, NEW chosen, invitations' = Revoked(chosen), NEW r, NEW done
  PROVE  LettersKeep(r, done)
<1>1. DOMAIN invitations' = DOMAIN invitations
  BY DEF Revoked
<1>2. ASSUME NEW i \in DOMAIN invitations
      PROVE  /\ invitations'[i].email = invitations[i].email
             /\ invitations'[i].during = invitations[i].during
             /\ invitations'[i].expired = invitations[i].expired
             /\ invitations'[i].status = "pending" => invitations[i].status = "pending"
  <2>1. PICK v \in InvitationSet : v = invitations[i]
    BY InvitationsAre
  <2>2. PICK w : w = [v EXCEPT !.status = "revoked"]
    OBVIOUS
  <2>3. w.email = v.email /\ w.during = v.during /\ w.expired = v.expired /\ w.status = "revoked"
    BY <2>2 DEF InvitationSet
  <2>4. invitations'[i] = v \/ invitations'[i] = w
    BY <2>1, <2>2 DEF Revoked
  <2> QED
    BY <2>1, <2>3, <2>4
<1> QED
  BY <1>1, <1>2 DEF LettersKeep

LEMMA SeatedInvites ==
  ASSUME TeamInv, SeatedInv, NEW r \in Handlers, Replace(r) \/ Create(r) \/ RevokeInvitation(r)
  PROVE  SeatedInv'
<1>1. PICK p \in RequestSet : p = requests[r]
  BY RequestIs
<1>2. p.pc \in {"replace", "create", "revoke"} /\ UNCHANGED members
  BY <1>1 DEF Replace, Create, RevokeInvitation
<1>3. PICK pc \in {"create", "done"} : MoveTo(r, pc) /\ (Create(r) => pc = "done")
  <2>1. CASE Create(r)
    BY <2>1 DEF Create
  <2>2. CASE ~ Create(r)
    BY <2>2 DEF Replace, RevokeInvitation
  <2> QED
    BY <2>1, <2>2
<1>4. LettersKeep(r, pc = "done")
  <2>1. CASE Replace(r) \/ RevokeInvitation(r)
    <3>1. PICK chosen : invitations' = Revoked(chosen)
      BY <2>1 DEF Replace, RevokeInvitation
    <3> QED
      BY <3>1, RevokedKeep
  <2>2. CASE Create(r) /\ UNCHANGED invitations
    BY <2>2 DEF LettersKeep
  <2>3. CASE Create(r) /\ ~ UNCHANGED invitations
    <3>1. PICK w : /\ w = Invitation(p.target, p.role, p.actor, InFlight \ {r})
                   /\ invitations' = Append(invitations, w)
      BY <1>1, <2>3 DEF Create
    <3>2. w.during = InFlight \ {r}
      BY <3>1 DEF Invitation
    <3>3. PICK n \in Nat : n = Len(invitations) /\ DOMAIN invitations = 1..n
      BY InvitationsAre
    <3>4. /\ DOMAIN invitations' = 1..n+1
          /\ invitations'[n+1] = w /\ \A i \in 1..n : invitations'[i] = invitations[i]
      BY <3>1, <3>3, InvitationsAre
    <3>5. \A i \in 1..n+1 : i \notin 1..n => i = n+1
      BY <3>3
    <3> QED
      BY <1>3, <2>3, <3>2, <3>3, <3>4, <3>5 DEF LettersKeep
  <2> QED
    BY <2>1, <2>2, <2>3
<1>5. pc \in {"done"} \cup ChangeSteps \cup InviteSteps \cup AcceptSteps /\ pc \notin AcceptSteps
  BY DEF ChangeSteps, InviteSteps, AcceptSteps
<1>6. \A u \in Users : Member(u)' => Member(u)
  BY <1>2 DEF Member
<1> QED
  BY <1>1, <1>2, <1>3, <1>4, <1>5, <1>6, SeatedMoveTo

LEMMA UnionCounts ==
  ASSUME NEW S, NEW T, IsFiniteSet(S), IsFiniteSet(T)
  PROVE  /\ IsFiniteSet(S \cup T) /\ Cardinality(S \cup T) \in Nat
         /\ Cardinality(S) \in Nat /\ Cardinality(T) \in Nat
         /\ Cardinality(S \cup T) <= Cardinality(S) + Cardinality(T)
<1>1. IsFiniteSet(S \cup T) /\ IsFiniteSet(S \cap T)
  BY FS_Union, FS_Subset
<1>2. /\ Cardinality(S \cap T) \in Nat /\ Cardinality(S \cup T) \in Nat
      /\ Cardinality(S) \in Nat /\ Cardinality(T) \in Nat
  BY <1>1, FS_CardinalityType
<1>3. Cardinality(S \cup T) = Cardinality(S) + Cardinality(T) - Cardinality(S \cap T)
  BY FS_Union
<1> QED
  BY <1>1, <1>2, <1>3

(* Whoever comes was found by one of the two queries, or by neither.        *)
LEMMA CheckedSuffices ==
  ASSUME TeamInv, SeatedInv, NEW r \in Handlers, NEW p \in RequestSet, p = requests[r],
         p.pc = "seat", p.first # "none", Taken(p) <= p.allowed
  PROVE  Cardinality(Coming(r)) <= p.allowed + Cardinality(Uncounted(p))
<1>1. PICK A \in SUBSET Users, B \in SUBSET Users, C \in SUBSET Users :
        A = p.counted /\ B = Answer(Other(p.first)) /\ C = Uncounted(p)
  BY AnswerIs DEF RequestSet, Uncounted
<1>2. IsFiniteSet(A) /\ IsFiniteSet(B) /\ IsFiniteSet(C)
  BY TeamAssumption, FS_Subset
<1>3. Coming(r) \subseteq (A \cup B) \cup C
  <2> SUFFICES ASSUME NEW u \in Users, Member(u) \/ Returns(u) \/ Invited(u, r)
               PROVE  u \in (A \cup B) \cup C
    BY DEF Coming
  <2>1. CASE Member(u) \/ Returns(u)
    BY <1>1, <2>1 DEF Uncounted
  <2>2. CASE Invited(u, r)
    <3>1. PICK i \in Pending : invitations[i].email = u /\ r \notin invitations[i].during
      BY <2>2 DEF Invited
    <3>2. CASE p.first = "members"
      BY <1>1, <3>1, <3>2 DEF Answer, Other
    <3>3. CASE p.first = "invitations"
      BY <1>1, <3>1, <3>3 DEF SeatedInv, CountedFirst, Counting
    <3> QED
      BY <3>2, <3>3 DEF RequestSet
  <2> QED
    BY <2>1, <2>2
<1>4. PICK D : D = A \cup B
  OBVIOUS
<1>5. /\ IsFiniteSet(D) /\ Cardinality(D) \in Nat
      /\ Cardinality(A) \in Nat /\ Cardinality(B) \in Nat
      /\ Cardinality(D) <= Cardinality(A) + Cardinality(B)
  BY <1>2, <1>4, UnionCounts
<1>6. /\ IsFiniteSet(D \cup C) /\ Cardinality(D \cup C) \in Nat /\ Cardinality(C) \in Nat
      /\ Cardinality(D \cup C) <= Cardinality(D) + Cardinality(C)
  BY <1>2, <1>5, UnionCounts
<1>7. /\ Cardinality(Coming(r)) <= Cardinality(D \cup C) /\ Cardinality(Coming(r)) \in Nat
  BY <1>3, <1>4, <1>6, FS_Subset, FS_CardinalityType
<1>8. Cardinality(A) + Cardinality(B) <= p.allowed /\ p.allowed \in Nat
  BY <1>1 DEF Taken, RequestSet
<1> QED
  BY <1>1, <1>5, <1>6, <1>7, <1>8

LEMMA SeatedAccept ==
  ASSUME TeamInv, SeatedInv, NEW r \in Handlers, Accept(r)
  PROVE  SeatedInv'
<1>1. PICK p \in RequestSet : p = requests[r]
  BY RequestIs
<1>2. p.pc = "ready" /\ UNCHANGED <<members, invitations>>
  BY <1>1 DEF Accept, Kept
<1>3. PICK i \in Pending :
        /\ invitations[i].during \intersect InFlight = {}
        /\ requests' = [requests EXCEPT ![r] = [requests[r] EXCEPT
             !.pc = IF Member(invitations[i].email) THEN "claim" ELSE "seat",
             !.invitation = i, !.target = invitations[i].email]]
  BY Zenon DEF Accept
<1>4. PICK t, pc : t = invitations[i].email /\ pc = IF Member(t) THEN "claim" ELSE "seat"
  OBVIOUS
<1>5. PICK q : q = [p EXCEPT !.pc = pc, !.invitation = i, !.target = t]
  OBVIOUS
<1>6. requests' = [requests EXCEPT ![r] = q]
  BY <1>1, <1>3, <1>4, <1>5
<1>7. i \in DOMAIN invitations /\ i \in Nat /\ t \in Users /\ pc \in AcceptSteps
  BY <1>4, InvitationsAre DEF Pending, AcceptSteps
<1>8. q \in RequestSet /\ q.pc = pc /\ q.invitation = i /\ q.limit = p.limit /\ q.first = p.first
  BY <1>5, <1>7 DEF RequestSet
<1>9. Late(i)
  <2>1. ~ invitations[i].expired
    BY DEF Pending, Usable
  <2>2. ASSUME NEW s \in invitations[i].during PROVE requests[s].pc = "done"
    <3>1. s \in Handlers /\ s \notin InFlight
      BY <1>3, <1>7, InvitationsAre DEF InvitationSet
    <3>2. requests[s].pc # "ready"
      BY <1>7 DEF SeatedInv, LettersKnown
    <3> QED
      BY <3>1, <3>2 DEF InFlight
  <2> QED
    BY <1>7, <2>1, <2>2 DEF Late
<1>10. ~ Checked(q) /\ ~ Counting(q)
  <2>1. p.limit = 0 /\ p.first = "none"
    BY <1>1, <1>2 DEF SeatedInv, Unread
  <2> QED
    BY <1>8, <2>1 DEF Checked, Counting
<1>11. q.pc # "ready" /\ ~ MayReturn(q)
  BY <1>4, <1>8 DEF MayReturn
<1>12. /\ LettersKeep(r, q.pc = "done")
       /\ \A u \in Users : Member(u)' => Member(u) \/ Returns(u)
  BY <1>2, NothingMoves
<1> QED
  BY <1>1, <1>2, <1>6, <1>8, <1>9, <1>10, <1>11, <1>12, SeatedStep

LEMMA SeatedCheck ==
  ASSUME TeamInv, SeatedInv, NEW r \in Handlers, CheckSeat(r)
  PROVE  SeatedInv'
<1>1. PICK p \in RequestSet, q \in RequestSet :
        /\ p = requests[r] /\ p.pc = "seat" /\ p.first # "none" /\ Kept
        /\ MoveTo(r, "done") \/ (requests' = [requests EXCEPT ![r] = q] /\ Taken(p) <= p.allowed)
        /\ q.pc = "claim" /\ q.invitation = p.invitation
        /\ q.limit = p.allowed + Cardinality(Uncounted(p))
  BY SeatIs
<1>2. CASE MoveTo(r, "done")
  <2>1. "done" \in {"done"} \cup ChangeSteps \cup InviteSteps \cup AcceptSteps /\ "done" \notin AcceptSteps
    BY DEF AcceptSteps
  <2>2. LettersKeep(r, "done" = "done") /\ \A u \in Users : Member(u)' => Member(u) \/ Returns(u)
    BY <1>1, NothingMoves DEF Kept
  <2> QED
    BY <1>1, <1>2, <2>1, <2>2, SeatedMoveTo
<1>3. CASE requests' = [requests EXCEPT ![r] = q] /\ Taken(p) <= p.allowed
  <2>1. Late(q.invitation)
    BY <1>1 DEF SeatedInv, OpenedLate, AcceptSteps
  <2>2. Cardinality(Coming(r)) <= q.limit
    BY <1>1, <1>3, CheckedSuffices
  <2>3. q.pc # "ready" /\ ~ MayReturn(q) /\ ~ Counting(q)
    BY <1>1 DEF MayReturn, Counting
  <2>4. /\ LettersKeep(r, q.pc = "done")
        /\ \A u \in Users : Member(u)' => Member(u) \/ Returns(u)
    BY <1>1, NothingMoves DEF Kept
  <2> QED
    BY <1>1, <1>3, <2>1, <2>2, <2>3, <2>4, SeatedStep
<1> QED
  BY <1>1, <1>2, <1>3

(* An invitation is claimed, or lets somebody in.                           *)
LEMMA OneLetterKeeps ==
  ASSUME TeamInv, NEW i \in DOMAIN invitations, NEW w \in InvitationSet,
         w.email = invitations[i].email, w.during = invitations[i].during,
         w.expired = invitations[i].expired, w.status = "accepted",
         invitations' = [invitations EXCEPT ![i] = w], NEW r, NEW done
  PROVE  LettersKeep(r, done)
<1>1. /\ DOMAIN invitations' = DOMAIN invitations
      /\ \A k \in DOMAIN invitations : invitations'[k] = IF k = i THEN w ELSE invitations[k]
  BY OneLetter DEF LettersStay
<1> QED
  BY <1>1 DEF LettersKeep

LEMMA SeatedClaim ==
  ASSUME TeamInv, SeatedInv, NEW r \in Handlers, ClaimInvitation(r)
  PROVE  SeatedInv'
<1>1. PICK p \in RequestSet : p = requests[r] /\ Fits(p)
  BY RequestIs DEF Fits
<1>2. p.pc = "claim" /\ UNCHANGED members /\ p.pc \in AcceptSteps
  BY <1>1 DEF ClaimInvitation, AcceptSteps
<1>3. PICK i \in DOMAIN invitations : i = p.invitation
  BY <1>1, <1>2 DEF Fits
<1>4. PICK pc \in {"join", "done"} :
        MoveTo(r, pc) /\ (pc = "join" <=> Claimable(i))
  BY <1>1, <1>3 DEF ClaimInvitation, MoveIf
<1>5. pc = "join" => i \in Pending
  <2>1. ~ invitations[i].expired
    BY <1>1, <1>2, <1>3 DEF SeatedInv, OpenedLate, Late
  <2> QED
    BY <1>4, <2>1 DEF Claimable, Pending, Usable
<1>6. LettersKeep(r, pc = "done")
  <2>1. CASE Claimable(i)
    <3>1. PICK v \in InvitationSet : v = invitations[i]
      BY InvitationsAre
    <3>2. PICK w : w = [v EXCEPT !.status = "accepted"]
      OBVIOUS
    <3>3. /\ w \in InvitationSet /\ w.email = v.email /\ w.during = v.during /\ w.expired = v.expired
          /\ w.status = "accepted"
      BY <3>2 DEF InvitationSet
    <3>4. invitations' = [invitations EXCEPT ![i] = w]
      BY <1>1, <1>3, <2>1, <3>1, <3>2 DEF ClaimInvitation
    <3> QED
      BY <3>1, <3>3, <3>4, OneLetterKeeps
  <2>2. CASE ~ Claimable(i)
    <3>1. UNCHANGED invitations
      BY <1>1, <1>3, <2>2 DEF ClaimInvitation
    <3> QED
      BY <3>1 DEF LettersKeep
  <2> QED
    BY <2>1, <2>2
<1>7. \A u \in Users : Member(u)' => Member(u) \/ Returns(u)
  BY <1>2 DEF Member
<1>8. pc \in {"done"} \cup ChangeSteps \cup InviteSteps \cup AcceptSteps
  BY DEF AcceptSteps
<1> QED
  BY <1>1, <1>2, <1>3, <1>4, <1>5, <1>6, <1>7, <1>8, SeatedMoveTo

LEMMA JoinIs ==
  ASSUME TeamInv, NEW r \in Handlers, Join(r)
  PROVE  /\ requests[r].pc = "join" /\ MoveTo(r, "done")
         /\ requests[r].target \in Users /\ requests[r].invitation \in DOMAIN invitations
         /\ \A u \in Users : u # requests[r].target => members'[u] = members[u]
         /\ \/ UNCHANGED invitations
            \/ invitations' = [invitations EXCEPT ![requests[r].invitation].joins = @ + 1]
<1>1. PICK p \in RequestSet : p = requests[r] /\ Fits(p)
  BY RequestIs DEF Fits
<1>2. p.pc = "join" /\ MoveTo(r, "done")
  BY <1>1 DEF Join
<1>3. p.target \in Users /\ p.invitation \in DOMAIN invitations
  BY <1>1, <1>2 DEF Fits, AcceptSteps
<1>4. \A u \in Users : u # p.target => members'[u] = members[u]
  BY <1>1, TeamIsTyped DEF Join
<1>5. \/ UNCHANGED invitations
      \/ invitations' = [invitations EXCEPT ![requests[r].invitation].joins = @ + 1]
  BY DEF Join
<1> QED
  BY <1>1, <1>2, <1>3, <1>4, <1>5

LEMMA SeatedJoin ==
  ASSUME TeamInv, SeatedInv, NEW r \in Handlers, Join(r)
  PROVE  SeatedInv'
<1>1. PICK p \in RequestSet : p = requests[r]
  BY RequestIs
<1>2. /\ p.pc = "join" /\ MoveTo(r, "done") /\ p.target \in Users
      /\ \A u \in Users : u # p.target => members'[u] = members[u]
  BY <1>1, JoinIs
<1>3. PICK i \in DOMAIN invitations : i = p.invitation
  BY <1>1, JoinIs
<1>4. LettersKeep(r, "done" = "done")
  <2>1. CASE UNCHANGED invitations
    BY <2>1 DEF LettersKeep
  <2>2. CASE invitations' = [invitations EXCEPT ![i].joins = @ + 1]
    <3>1. PICK v \in InvitationSet : v = invitations[i]
      BY InvitationsAre
    <3>2. v.joins = 0 /\ v.status = "accepted"
      BY <1>1, <1>2, <1>3, <3>1 DEF TeamInv, InvitationsFit, Joining
    <3>3. PICK w : w = [v EXCEPT !.joins = v.joins + 1]
      OBVIOUS
    <3>4. /\ w \in InvitationSet /\ w.email = v.email /\ w.during = v.during /\ w.expired = v.expired
          /\ w.status = "accepted"
      BY <3>2, <3>3 DEF InvitationSet
    <3>5. invitations' = [invitations EXCEPT ![i] = w]
      BY <2>2, <3>1, <3>3
    <3> QED
      BY <3>1, <3>4, <3>5, OneLetterKeeps
  <2> QED
    BY <1>1, <1>3, <2>1, <2>2, JoinIs
<1>5. \A u \in Users : Member(u)' => Member(u) \/ Returns(u)
  BY <1>1, <1>2 DEF Member, Returns, MayReturn
<1>6. "done" \in {"done"} \cup ChangeSteps \cup InviteSteps \cup AcceptSteps /\ "done" \notin AcceptSteps
  BY DEF AcceptSteps
<1> QED
  BY <1>1, <1>2, <1>4, <1>5, <1>6, SeatedMoveTo

(* Nobody's request moves.                                                  *)
LEMMA SeatedAlone ==
  ASSUME TeamInv, SeatedInv, UNCHANGED <<members, requests>>,
         UNCHANGED invitations \/ \E i \in DOMAIN invitations : Expire(i)
  PROVE  SeatedInv'
<1>1. /\ DOMAIN invitations' = DOMAIN invitations
      /\ \A i \in DOMAIN invitations :
           /\ invitations'[i].email = invitations[i].email /\ invitations'[i].during = invitations[i].during
           /\ invitations'[i].status = invitations[i].status
           /\ invitations[i].expired => invitations'[i].expired
           /\ \A r \in Handlers : requests[r].pc \in AcceptSteps /\ requests[r].invitation = i =>
                invitations'[i].expired = invitations[i].expired
  <2>1. CASE UNCHANGED invitations
    BY <2>1
  <2>2. CASE \E i \in DOMAIN invitations : Expire(i)
    <3>1. PICK i \in DOMAIN invitations : Expire(i)
      BY <2>2
    <3>2. PICK v \in InvitationSet : v = invitations[i]
      BY InvitationsAre
    <3>3. PICK w : w = [v EXCEPT !.expired = TRUE]
      OBVIOUS
    <3>4. /\ w.email = v.email /\ w.during = v.during /\ w.status = v.status /\ w.expired
      BY <3>3 DEF InvitationSet
    <3>5. /\ DOMAIN invitations' = DOMAIN invitations
          /\ \A k \in DOMAIN invitations : invitations'[k] = IF k = i THEN w ELSE invitations[k]
      BY <3>1, <3>2, <3>3, InvitationsAre DEF Expire
    <3>6. \A r \in Handlers : requests[r].pc \in AcceptSteps => requests[r].invitation # i
      BY <3>1 DEF Expire, InFlight, AcceptSteps
    <3> QED
      BY <3>2, <3>4, <3>5, <3>6
  <2> QED
    BY <2>1, <2>2
<1>2. LettersKnown' /\ Unread' /\ CountedFirst'
  BY <1>1 DEF SeatedInv, LettersKnown, Unread, CountedFirst, Pending, Usable
<1>3. OpenedLate'
  BY <1>1 DEF SeatedInv, OpenedLate, Late
<1>4. ASSUME NEW r \in Handlers PROVE Coming(r)' \subseteq Coming(r)
  <2>1. \A u \in Users : (Member(u)' <=> Member(u)) /\ (Returns(u)' <=> Returns(u))
    BY DEF Member, Returns, MayReturn
  <2>2. \A u \in Users : Invited(u, r)' => Invited(u, r)
    BY <1>1 DEF Invited, Pending, Usable
  <2> QED
    BY <2>1, <2>2 DEF Coming
<1>5. SeatsSuffice'
  <2> SUFFICES ASSUME NEW s \in Handlers, requests[s].pc \in {"claim", "join"}, Checked(requests[s])
               PROVE  Cardinality(Coming(s)') <= requests[s].limit
    BY DEF SeatsSuffice, Checked
  <2>1. PICK n \in Nat : n = requests[s].limit
    BY TeamIsTyped DEF RequestSet
  <2>2. Cardinality(Coming(s)) <= n
    BY <2>1 DEF SeatedInv, SeatsSuffice
  <2> QED
    BY <1>4, <2>1, <2>2, FewerCome
<1> QED
  BY <1>2, <1>3, <1>5 DEF SeatedInv

LEMMA SeatedBeginning ==
  ASSUME \A i \in DOMAIN invitations : invitations[i].during = {},
         \A r \in Handlers :
           requests[r].pc \in {"ready", "done"} /\ requests[r].limit = 0 /\ requests[r].first = "none"
  PROVE  SeatedInv
  BY DEF SeatedInv, LettersKnown, OpenedLate, SeatsSuffice, CountedFirst, Counting, Unread, AcceptSteps

LEMMA SeatedOpening ==
  ASSUME TeamInit
  PROVE  SeatedInv
<1>1. PICK o \in Openings :
        /\ members = [u \in Users |-> [role |-> o.team[u], doc |-> IF o.team[u] = "none" THEN 0 ELSE 1]]
        /\ billingOwner \in {u \in Users : o.team[u] = "OWNER"}
        /\ \E order \in [1..Cardinality(o.invited) -> o.invited] :
             /\ \A i, k \in DOMAIN order : i # k => order[i] # order[k]
             /\ invitations = [i \in DOMAIN order |-> Invitation(order[i], "EDITOR", billingOwner, {})]
        /\ seats = Seats
        /\ requests = [r \in Handlers |-> IF o.kinds[r] = "none" THEN Answered
                                          ELSE [NoRequest EXCEPT !.kind = o.kinds[r]]]
  BY Zenon DEF TeamInit
<1>2. \A i \in DOMAIN invitations : invitations[i].during = {}
  <2>1. PICK order \in [1..Cardinality(o.invited) -> o.invited] :
          /\ \A i, k \in DOMAIN order : i # k => order[i] # order[k]
          /\ invitations = [i \in DOMAIN order |-> Invitation(order[i], "EDITOR", billingOwner, {})]
    BY <1>1, Zenon
  <2>2. DOMAIN invitations = DOMAIN order
    BY <2>1, Zenon
  <2>3. ASSUME NEW i \in DOMAIN invitations PROVE invitations[i].during = {}
    <3>1. invitations[i] = Invitation(order[i], "EDITOR", billingOwner, {})
      BY <2>1, <2>2, Zenon
    <3> QED
      BY <3>1 DEF Invitation
  <2> QED
    BY <2>3
<1>3. requests = [r \in Handlers |-> IF o.kinds[r] = "none" THEN Answered
                                     ELSE [NoRequest EXCEPT !.kind = o.kinds[r]]]
  BY <1>1
<1>4. ASSUME NEW r \in Handlers
      PROVE  requests[r].pc \in {"ready", "done"} /\ requests[r].limit = 0 /\ requests[r].first = "none"
  <2>1. CASE o.kinds[r] = "none"
    <3>1. requests[r] = Answered
      BY <1>3, <2>1
    <3> QED
      BY <3>1 DEF Answered, NoRequest
  <2>2. CASE o.kinds[r] # "none"
    <3>1. PICK k : k = o.kinds[r]
      OBVIOUS
    <3>2. requests[r] = [NoRequest EXCEPT !.kind = k]
      BY <1>3, <2>2, <3>1
    <3> QED
      BY <3>2 DEF NoRequest
  <2> QED
    BY <2>1, <2>2
<1> QED
  BY <1>2, <1>4, SeatedBeginning

LEMMA SeatedKeeps ==
  ASSUME TeamInv, SeatedInv, [TeamNext]_teamVars
  PROVE  SeatedInv'
<1>1. ASSUME NEW r \in Handlers, TeamStep(r) PROVE SeatedInv'
  <2>1. CASE \/ Begin(r) \/ Find(r) \/ ChoosePayer(r) \/ Bill(r)
             \/ ReadPlan(r) \/ CountSeats(r) \/ CountReplaced(r) \/ CheckRoom(r)
    BY <2>1, SeatedBegin, SeatedFind, SeatedPayer, SeatedCount, SeatedReplaced, SeatedRoom
  <2>2. CASE CheckOwners(r) \/ ChangeRole(r) \/ RemoveMember(r) \/ Verify(r) \/ Undo(r)
    BY <2>2, SeatedChanges
  <2>3. CASE Replace(r) \/ Create(r) \/ RevokeInvitation(r)
    BY <2>3, SeatedInvites
  <2>4. CASE Accept(r) \/ CheckSeat(r) \/ ClaimInvitation(r) \/ Join(r)
    BY <2>4, SeatedAccept, SeatedCheck, SeatedClaim, SeatedJoin
  <2> QED
    BY <1>1, <2>1, <2>2, <2>3, <2>4 DEF TeamStep
<1>2. ASSUME NEW i \in DOMAIN invitations, Expire(i) PROVE SeatedInv'
  BY <1>2, SeatedAlone DEF Expire
<1>3. CASE LowerPlan \/ UNCHANGED teamVars
  BY <1>3, SeatedAlone DEF LowerPlan, teamVars
<1> QED
  BY <1>1, <1>2, <1>3 DEF TeamNext

(* Only a join ends a request at that step and changes the members.         *)
LEMMA JoinsFit ==
  ASSUME TeamInv, SeatedInv, [TeamNext]_teamVars, NEW r \in Handlers,
         requests[r].pc = "join", Checked(requests[r]), members' # members, requests'[r].pc = "done"
  PROVE  Cardinality(Team') <= requests[r].limit
<1>1. Join(r)
  <2>1. PICK s \in Handlers : TeamStep(s)
    BY DEF TeamNext, Expire, LowerPlan, teamVars
  <2>2. s = r
    <3>1. s # r => requests'[r] = requests[r]
      BY <2>1, TeamIsTyped DEF TeamStep, Begin, Find, CheckOwners, ChangeRole, RemoveMember, Verify, Undo,
         ChoosePayer, Bill, ReadPlan, CountSeats, CountReplaced, CheckRoom, Replace, Create, RevokeInvitation, Accept, CheckSeat,
         ClaimInvitation, Join, MoveIf, MoveTo
    <3> QED
      BY <3>1
  <2> QED
    BY <2>1, <2>2 DEF TeamStep, Begin, Find, CheckOwners, ChangeRole, RemoveMember, Verify, Undo,
       ChoosePayer, Bill, ReadPlan, CountSeats, CountReplaced, CheckRoom, Replace, Create, RevokeInvitation, Accept, CheckSeat,
       ClaimInvitation
<1>2. /\ requests[r].target \in Users
      /\ \A u \in Users : u # requests[r].target => members'[u] = members[u]
  BY <1>1, JoinIs
<1>3. Team' \subseteq Coming(r)
  <2>1. \A u \in Users : Member(u)' => Member(u) \/ Returns(u)
    BY <1>2 DEF Member, Returns, MayReturn
  <2> QED
    BY <2>1 DEF Team, Coming
<1>4. PICK n \in Nat : n = requests[r].limit
  BY TeamIsTyped DEF RequestSet
<1>5. Cardinality(Coming(r)) <= n
  BY <1>4 DEF SeatedInv, SeatsSuffice
<1>6. /\ Cardinality(Coming(r)) \in Nat /\ Cardinality(Team') \in Nat
      /\ Cardinality(Team') <= Cardinality(Coming(r))
  BY <1>3, ComingIsFinite
<1> QED
  BY <1>4, <1>5, <1>6

(* However invitations, acceptances and a smaller plan race, nobody joins   *)
(* beyond the seats his acceptance was checked against, but for those whom  *)
(* neither query of countTeamSeats found.                                   *)
THEOREM SeatsAreKept == FewChanges => (TeamSpec => TeamWithinPlan)
<1> SUFFICES ASSUME FewChanges PROVE TeamSpec => TeamWithinPlan
  OBVIOUS
<1>1. TeamInit => TeamInv /\ SeatedInv
  BY OpeningHolds, SeatedOpening
<1>2. TeamInv /\ SeatedInv /\ [TeamNext]_teamVars => TeamInv' /\ SeatedInv'
  BY TeamStepKeeps, SeatedKeeps
<1>3. TeamInv /\ SeatedInv /\ [TeamNext]_teamVars =>
        [\A r \in Handlers :
           requests[r].pc = "join" /\ Checked(requests[r]) /\ members' # members /\ requests'[r].pc = "done"
             => Cardinality(Team') <= requests[r].limit]_teamVars
  BY JoinsFit
<1> QED
  BY <1>1, <1>2, <1>3, PTL DEF TeamSpec, TeamWithinPlan

-----------------------------------------------------------------------------
(* The parts together: the one rests while the other goes on.               *)

LEMMA SessionsRestHolds == ASSUME SessionsRest PROVE SessionsInv
<1>1. tokens \in Seq(TokenSet) /\ Tokens = {} /\ Families = {} /\ Families = 1..0
  BY DEF SessionsRest, Tokens, Families
<1>2. FamiliesInv
  BY <1>1 DEF FamiliesInv
<1>3. account \in AccountSet /\ account.version = 0
  BY DEF SessionsRest, AccountSet
<1>4. /\ Over.seen = 0 /\ Over.token = None /\ Over.got = None /\ Over.next = None
      /\ Over.pc = "done" /\ Over.late = FALSE
  BY DEF Over, Idle
<1>5. jobs \in [Requests -> JobSet] /\ \A r \in Requests : jobs[r] = Over
  BY IdleIs DEF SessionsRest
<1>6. ASSUME NEW r \in Requests PROVE JobInv(r)
  <2>1. /\ jobs[r].seen = 0 /\ jobs[r].token = None /\ jobs[r].got = None /\ jobs[r].next = None
        /\ jobs[r].pc = "done" /\ jobs[r].late = FALSE
    BY <1>4, <1>5, Zenon
  <2> QED
    BY <1>3, <2>1 DEF JobInv, RefreshSteps
<1>7. held = {} /\ ended = {} /\ revoked = 0 /\ abused = FALSE
  BY DEF SessionsRest
<1>8. NoRefreshEscapes /\ \A t \in Tokens : TokenInv(t)
  BY <1>1, <1>7 DEF NoRefreshEscapes
<1>9. revoked \in 0..account.version /\ held \subseteq Tokens /\ \A f \in ended : Closed(f)
  BY <1>3, <1>7
<1> QED
  BY <1>1, <1>2, <1>3, <1>5, <1>6, <1>7, <1>8, <1>9, Zenon DEF SessionsInv

LEMMA TeamRestHolds == ASSUME TeamRests PROVE TeamInv
<1>1. PICK u \in Users : u = (CHOOSE v \in Users : TRUE)
  BY TeamAssumption
<1>2. billingOwner \in Users /\ seats \in 1..Seats /\ invitations = <<>>
  BY <1>1, TeamAssumption DEF TeamRests
<1>3. /\ members \in [Users -> MemberSet]
      /\ \A v \in Users : Member(v) /\ members[v].doc = 1 /\ members[v].role = "OWNER"
  BY DEF TeamRests, MemberSet, Roles, Member
<1>4. Owners # {}
  BY <1>1, <1>3 DEF Owners
<1>5. /\ requests \in [Handlers -> RequestSet]
      /\ \A r \in Handlers : requests[r] = Answered
  BY AnsweredIs DEF TeamRests
<1>6. \A r \in Handlers : requests[r].pc = "done" /\ requests[r].kind = "none" /\ Fits(requests[r])
  BY <1>5, AnsweredIs, AnsweredFits
<1>7. FewChanging
  BY <1>6 DEF FewChanging, Changes
<1>8. invitations \in Seq(InvitationSet) /\ DOMAIN invitations = {}
  BY <1>2
<1> QED
  BY <1>2, <1>3, <1>4, <1>5, <1>6, <1>7, <1>8, NothingBegun

LEMMA SeatedRest == ASSUME TeamRests PROVE SeatedInv
<1>1. \A r \in Handlers : requests[r] = Answered
  BY DEF TeamRests
<1>2. Answered.pc = "done" /\ Answered.limit = 0 /\ Answered.first = "none"
  BY DEF Answered, NoRequest
<1> QED
  BY <1>1, <1>2, SeatedBeginning DEF TeamRests

LEMMA AccountsStepKeeps ==
  ASSUME SessionsInv, TeamInv, SeatedInv, [UserAccountsNext]_<<vars, teamVars>>
  PROVE  SessionsInv' /\ TeamInv' /\ SeatedInv'
<1>1. [Next]_vars /\ [TeamNext]_teamVars
  BY DEF UserAccountsNext
<1> QED
  BY <1>1, NextKeeps, TeamStepKeeps, SeatedKeeps

(* All that the run of UserAccounts checks holds for every instance.        *)
THEOREM AccountsHold ==
  FewChanges => (UserAccountsSpec =>
                   [](RevokedStaysRevoked /\ OnlyReuseIsPunished /\ TeamHolds) /\ TeamWithinPlan)
<1> SUFFICES ASSUME FewChanges
             PROVE  UserAccountsSpec =>
                      [](RevokedStaysRevoked /\ OnlyReuseIsPunished /\ TeamHolds) /\ TeamWithinPlan
  OBVIOUS
<1>1. UserAccountsInit => SessionsInv /\ TeamInv /\ SeatedInv
  BY InitHolds, TeamRestHolds, SeatedRest, OpeningHolds, SeatedOpening, SessionsRestHolds DEF UserAccountsInit
<1>2. SessionsInv /\ TeamInv /\ SeatedInv /\ [UserAccountsNext]_<<vars, teamVars>> =>
        SessionsInv' /\ TeamInv' /\ SeatedInv'
  BY AccountsStepKeeps
<1>3. TeamInv /\ SeatedInv /\ [UserAccountsNext]_<<vars, teamVars>> =>
        [\A r \in Handlers :
           requests[r].pc = "join" /\ Checked(requests[r]) /\ members' # members /\ requests'[r].pc = "done"
             => Cardinality(Team') <= requests[r].limit]_teamVars
  <2>1. [UserAccountsNext]_<<vars, teamVars>> => [TeamNext]_teamVars
    BY DEF UserAccountsNext
  <2> QED
    BY <2>1, JoinsFit
<1> QED
  BY <1>1, <1>2, <1>3, InvShows, TeamInvShows, PTL DEF UserAccountsSpec, TeamWithinPlan
==============================================================================
