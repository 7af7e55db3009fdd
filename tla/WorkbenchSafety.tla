---------------------------- MODULE WorkbenchSafety ----------------------------
(***************************************************************************)
(* Proofs about the workbench: a post's versions, files and sending, the   *)
(* workspaces of an account, the media of a draft and the brand profile,   *)
(* for any number of requests, versions, files, workspaces and calls.      *)
(***************************************************************************)
EXTENDS Workbench, FiniteSetTheorems, WellFoundedInduction, TLAPS


-----------------------------------------------------------------------------
(* Posts: the inductive invariant.                                          *)

(* Files come to the library once their objects are all stored.             *)
UploadFits ==
  /\ upload.waiting \subseteq Files \ Stored
  /\ \A f \in Files \ Stored : file[f].record => upload.pc = "done"
  /\ upload.pc = "insert" => \A f \in Files \ Stored : file[f].object
  /\ upload.pc = "put" /\ ~upload.failed => \A f \in Files \ Stored : file[f].object \/ f \in upload.waiting
  /\ RecordsHaveObjects

OnItsWay == {"PUBLISHING", "PUBLISHED"}
Upcoming == {"live", "sending"}
Writing == {"write", "number", "create", "save"}
StoredBy(n, author) == version[n].stored /\ version[n].author = author
(* Where a request stands to the post, its history and the library.         *)
Fits(q) ==
  /\ q.pc \in {"write", "number"} => q.tries < MaxTries
  /\ q.pc \in {"create", "save"} => q.number \in Numbers
  /\ q.pc = "removeObject" => \A f \in q.media : ~file[f].record /\ (f \in Stored \/ upload.pc = "done")
  /\ q.pc \in Writing /\ post.status \in OnItsWay => q.late
  /\ q.pc \in {"deleteVersions", "deletePost"} => schedule \notin Upcoming
  /\ Readable /\ q.pc = "prune" => q.count <= Latest
  /\ Readable /\ q.pc = "save" =>
       q.number <= Latest /\ (TooOld(q.number, Latest) \/ StoredBy(q.number, q.author))

WorkerFits ==
  /\ worker.pc = "idle" <=> schedule # "sending"
  /\ worker.pc # "idle" => post.status = "PUBLISHING"
  /\ ~post.exists => schedule \notin Upcoming

PostsInv ==
  /\ PostsTypeOK /\ UploadFits /\ WorkerFits /\ EditsAreKept
  /\ \A h \in Requests : Fits(request[h])

-----------------------------------------------------------------------------
(* The latest version there is.                                             *)

LEMMA LargestIs ==
  ASSUME NEW M \in Nat, NEW S, S \subseteq 0 .. M, S # {}
  PROVE  Max(S) \in S /\ \A y \in S : y <= Max(S)
<1>1. IsWellFoundedOn({p \in Nat \X Nat : p[1] < p[2]}, Nat)
  BY NatLessThanWellFounded DEF OpToRel
<1>2. PICK R : R = {p \in Nat \X Nat : p[1] < p[2]} /\ IsWellFoundedOn(R, Nat)
  BY <1>1
<1>3. PICK T : T = {d \in Nat : \E x \in S : d = M - x}
  OBVIOUS
<1>4. T \subseteq Nat
  BY <1>3
<1>5. PICK x0 : x0 \in S
  OBVIOUS
<1>6. M - x0 \in T
  <2>1. x0 \in 0 .. M
    BY <1>5
  <2> QED
    BY <1>3, <1>5, <2>1
<1>7. PICK d \in T : \A y \in T : ~ (<<y, d>> \in R)
  BY <1>2, <1>4, <1>6, WFMin
<1>8. PICK m \in S : d = M - m
  BY <1>3
<1>9. ASSUME NEW y \in S PROVE y <= m
  <2>1. y \in 0 .. M /\ m \in 0 .. M
    OBVIOUS
  <2>2. PICK a \in Nat : a = M - y /\ a \in T
    BY <1>3, <2>1
  <2>3. PICK b \in Nat : b = M - m /\ b = d
    BY <1>8, <2>1
  <2>4. <<a, b>> \notin R
    BY <1>7, <2>2, <2>3
  <2>5. <<a, b>> \in Nat \X Nat /\ <<a, b>>[1] = a /\ <<a, b>>[2] = b
    OBVIOUS
  <2>6. ~ (a < b)
    BY <1>2, <2>4, <2>5
  <2> QED
    BY <2>1, <2>2, <2>3, <2>6
<1> DEFINE IsMax(z) == \A y \in S : z >= y
<1>10. Max(S) = CHOOSE z \in S : \A y \in S : z >= y
  BY DEF Max
<1>11. \E z \in S : \A y \in S : z >= y
  BY <1>9
<1>12. Max(S) \in S /\ \A y \in S : Max(S) >= y
  BY <1>10, <1>11
<1> QED
  BY <1>12

Top(v) == Max({0} \cup {n \in Numbers : v[n].stored})

LEMMA TopIs ==
  ASSUME NEW v
  PROVE  /\ Top(v) \in 0 .. MaxVersion /\ Top(v) \in Nat
         /\ \A n \in Numbers : v[n].stored => n <= Top(v)
         /\ Top(v) = 0 \/ (Top(v) \in Numbers /\ v[Top(v)].stored)
<1>1. PICK S : S = {0} \cup {n \in Numbers : v[n].stored}
  OBVIOUS
<1>2. MaxVersion \in Nat
  BY BoundsAssumption
<1>3. S \subseteq 0 .. MaxVersion /\ S # {}
  BY <1>1, <1>2 DEF Numbers
<1>4. Max(S) \in S /\ \A y \in S : y <= Max(S)
  BY <1>2, <1>3, LargestIs
<1>5. Top(v) = Max(S)
  BY <1>1 DEF Top
<1> QED
  BY <1>1, <1>2, <1>3, <1>4, <1>5

LEMMA LatestIs == Latest = Top(version) /\ Latest' = Top(version')
  BY DEF Latest, Top

LEMMA LatestTyped ==
  /\ Latest \in Nat /\ Latest \in 0 .. MaxVersion
  /\ Latest' \in Nat /\ Latest' \in 0 .. MaxVersion
  BY LatestIs, TopIs

-----------------------------------------------------------------------------
(* What a step leaves of the history: nothing young is lost.                *)
HistoryStays ==
  Readable' =>
    /\ Readable /\ Latest <= Latest'
    /\ \A n \in Numbers : version[n].stored /\ ~TooOld(n, Latest') =>
         version'[n].stored /\ version'[n].author = version[n].author

LEMMA ReadableStays ==
  ASSUME post'.exists => post.exists,
         \A h \in Requests : request[h].pc = "deletePost" =>
           request'[h].pc = "deletePost" \/ ~ post'.exists
  PROVE  Readable' => Readable
  BY DEF Readable, BeingDeleted, At

LEMMA SameHistory ==
  ASSUME UNCHANGED version, Readable' => Readable
  PROVE  HistoryStays
  BY LatestIs, LatestTyped DEF HistoryStays

LEMMA EditsStay ==
  ASSUME PostsInv, HistoryStays, UNCHANGED kept
  PROVE  EditsAreKept'
<1> SUFFICES ASSUME Readable', NEW k \in kept, ~TooOld(k[1], Latest')
             PROVE  version'[k[1]].stored /\ version'[k[1]].author = k[2]
  BY DEF EditsAreKept, TooOld
<1>1. k[1] \in Numbers /\ k[1] \in Nat
  BY DEF PostsInv, PostsTypeOK, Numbers
<1>2. Readable /\ Latest <= Latest'
  BY DEF HistoryStays
<1>3. ~TooOld(k[1], Latest)
  BY <1>1, <1>2, LatestTyped, BoundsAssumption DEF TooOld
<1>4. version[k[1]].stored /\ version[k[1]].author = k[2]
  BY <1>2, <1>3 DEF PostsInv, EditsAreKept
<1> QED
  BY <1>1, <1>4 DEF HistoryStays

(* A step that asks nothing new of a request.                               *)
Steady ==
  /\ HistoryStays
  /\ \A f \in Files : file'[f].record => file[f].record \/ (f \notin Stored /\ upload.pc # "done")
  /\ upload.pc = "done" => upload'.pc = "done"
  /\ post'.status \in OnItsWay => post.status \in OnItsWay
  /\ schedule' \in Upcoming => schedule \in Upcoming

LEMMA FitsStays ==
  ASSUME PostsInv, Steady, NEW q \in Request, Fits(q)
  PROVE  Fits(q)'
<1>1. q.pc = "removeObject" => \A f \in q.media : ~file'[f].record /\ (f \in Stored \/ upload'.pc = "done")
  BY DEF Fits, Steady, Request
<1>2. Readable' /\ q.pc = "prune" => q.count <= Latest'
  <2>1. q.count \in Nat
    BY BoundsAssumption DEF Request
  <2> QED
    BY <2>1, LatestTyped DEF Fits, Steady, HistoryStays
<1>3. ASSUME Readable', q.pc = "save"
      PROVE  q.number <= Latest' /\ (TooOld(q.number, Latest') \/ StoredBy(q.number, q.author)')
  <2>1. q.number \in Numbers /\ q.number \in Nat
    BY <1>3 DEF Fits, Numbers
  <2>2. Readable /\ Latest <= Latest'
    BY <1>3 DEF Steady, HistoryStays
  <2>3. q.number <= Latest /\ (TooOld(q.number, Latest) \/ StoredBy(q.number, q.author))
    BY <1>3, <2>2 DEF Fits
  <2>4. q.number <= Latest'
    BY <2>1, <2>2, <2>3, LatestTyped
  <2>5. TooOld(q.number, Latest) => TooOld(q.number, Latest')
    BY <2>1, <2>2, LatestTyped, BoundsAssumption DEF TooOld
  <2>6. StoredBy(q.number, q.author) /\ ~TooOld(q.number, Latest') => StoredBy(q.number, q.author)'
    BY <1>3, <2>1 DEF Steady, HistoryStays, StoredBy
  <2> QED
    BY <2>3, <2>4, <2>5, <2>6
<1>4. q.pc \in Writing /\ post'.status \in OnItsWay => q.late
  BY DEF Fits, Steady
<1>5. q.pc \in {"deleteVersions", "deletePost"} => schedule' \notin Upcoming
  BY DEF Fits, Steady
<1>6. /\ q.pc \in {"write", "number"} => q.tries < MaxTries
      /\ q.pc \in {"create", "save"} => q.number \in Numbers
  BY DEF Fits
<1>7. Readable' /\ q.pc = "prune" => q.count <= Latest'
  BY <1>2
<1> QED
  BY <1>1, <1>3, <1>4, <1>5, <1>6, <1>7 DEF Fits, TooOld

LEMMA TypeIs ==
  ASSUME PostsInv
  PROVE  /\ post \in Post /\ version \in [Numbers -> Version]
         /\ file \in [Files -> [record : BOOLEAN, object : BOOLEAN]]
         /\ request \in [Requests -> Request]
         /\ upload \in [pc : {"ready", "put", "insert", "rollback", "done"},
                        waiting : SUBSET Files, failed : BOOLEAN]
         /\ worker \in [pc : {"idle", "load", "send", "finish", "fail"},
                        number : 0..MaxVersion, media : SUBSET Files]
         /\ schedule \in {"none", "live", "sending", "cancelled", "published", "failed"}
         /\ sent \in [number : 0..MaxVersion, media : SUBSET Files]
         /\ kept \subseteq (Numbers \X Nat)
         /\ budget \in [Events -> Nat]
  BY DEF PostsInv, PostsTypeOK

LEMMA RequestIs ==
  ASSUME PostsInv, NEW h \in Requests
  PROVE  request[h] \in Request /\ Fits(request[h])
  BY DEF PostsInv, PostsTypeOK

(* Every step of the program keeps the invariant this way.                  *)
LEMMA SteadyKeeps ==
  ASSUME PostsInv, PostsTypeOK', UploadFits', WorkerFits', EditsAreKept', Steady,
         \A g \in Requests :
           request'[g] = request[g] \/ \E q \in Request : request'[g] = q /\ Fits(q)'
  PROVE  PostsInv'
<1>1. ASSUME NEW g \in Requests PROVE \E q \in Request : request'[g] = q /\ Fits(q)'
  <2>1. PICK q \in Request : q = request[g] /\ Fits(q)
    BY RequestIs
  <2>2. Fits(q)'
    BY <2>1, FitsStays
  <2> QED
    BY <2>1, <2>2
<1>2. ASSUME NEW g \in Requests PROVE Fits(request[g])'
  <2>1. PICK q \in Request : request'[g] = q /\ Fits(q)'
    BY <1>1
  <2> QED
    BY <2>1 DEF Fits
<1> QED
  BY <1>2 DEF PostsInv

-----------------------------------------------------------------------------
(* Steps of a request.                                                      *)

LEMMA OneMoves ==
  ASSUME PostsInv, NEW h \in Requests, NEW q \in Request, request' = [request EXCEPT ![h] = q]
  PROVE  /\ request' \in [Requests -> Request] /\ request'[h] = q
         /\ \A g \in Requests : g # h => request'[g] = request[g]
  BY TypeIs

LEMMA DoneIs ==
  ASSUME PostsInv, NEW h \in Requests, Done(h)
  PROVE  \E q \in Request : request' = [request EXCEPT ![h] = q] /\ q.pc = "idle"
<1>1. MaxVersion \in Nat
  BY BoundsAssumption
<1>2. Idle \in Request /\ Idle.pc = "idle"
  BY <1>1 DEF Idle, Request, Steps
<1> QED
  BY <1>2 DEF Done

LEMMA GotoIs ==
  ASSUME PostsInv, NEW h \in Requests, NEW step \in Steps, Goto(h, step)
  PROVE  \E q \in Request :
           /\ request' = [request EXCEPT ![h] = q] /\ q.pc = step
           /\ q.number = request[h].number /\ q.count = request[h].count /\ q.media = request[h].media
           /\ q.tries = request[h].tries /\ q.author = request[h].author /\ q.late = request[h].late
<1>1. PICK p \in Request : p = request[h]
  BY RequestIs
<1>2. PICK q : q = [p EXCEPT !.pc = step]
  OBVIOUS
<1>3. /\ q \in Request /\ q.pc = step /\ q.number = p.number /\ q.count = p.count /\ q.media = p.media
      /\ q.tries = p.tries /\ q.author = p.author /\ q.late = p.late
  BY <1>2 DEF Request
<1>4. request' = [request EXCEPT ![h] = q]
  BY <1>1, <1>2 DEF Goto
<1> QED
  BY <1>1, <1>3, <1>4

LEMMA SpendIs ==
  ASSUME PostsInv, NEW what \in Events, Spend(what)
  PROVE  budget' \in [Events -> Nat]
<1>1. budget \in [Events -> Nat] /\ budget[what] \in Nat
  BY TypeIs
<1>2. budget[what] - 1 \in Nat
  BY <1>1 DEF Spend
<1> QED
  BY <1>1, <1>2 DEF Spend

(* A request that only moves on.                                            *)
LEMMA OnlyMoves ==
  ASSUME PostsInv, NEW h \in Requests, NEW q \in Request, request' = [request EXCEPT ![h] = q], Fits(q),
         UNCHANGED <<post, version, file, upload, worker, schedule, sent, kept>>,
         budget' \in [Events -> Nat], request[h].pc # "deletePost"
  PROVE  PostsInv'
<1>1. request' \in [Requests -> Request] /\ request'[h] = q
      /\ \A g \in Requests : g # h => request'[g] = request[g]
  BY OneMoves
<1>2. PostsTypeOK'
  BY <1>1, TypeIs DEF PostsTypeOK
<1>3. HistoryStays
  <2>1. Readable' => Readable
    BY <1>1, ReadableStays
  <2> QED
    BY <2>1, SameHistory
<1>4. Steady
  BY <1>3 DEF Steady
<1>5. Fits(q)'
  BY <1>4, FitsStays
<1>6. UploadFits' /\ WorkerFits'
  BY DEF PostsInv, UploadFits, WorkerFits, RecordsHaveObjects
<1>7. EditsAreKept'
  BY <1>3, EditsStay
<1>8. \A g \in Requests :
        request'[g] = request[g] \/ \E r \in Request : request'[g] = r /\ Fits(r)'
  BY <1>1, <1>5
<1> QED
  BY <1>2, <1>4, <1>6, <1>7, <1>8, SteadyKeeps

LEMMA BeginIs ==
  ASSUME PostsInv, NEW h \in Requests, NEW step \in Steps, NEW media \in SUBSET Files, Begin(h, step, media)
  PROVE  /\ request[h].pc = "idle" /\ post.exists
         /\ \E q \in Request :
              /\ request' = [request EXCEPT ![h] = q] /\ q.pc = step /\ q.tries = 0 /\ q.media = media
              /\ q.count = post.count
<1>1. PICK p \in Post, a \in Nat : p = post /\ a = budget.edit
  <2>1. budget["edit"] \in Nat
    BY TypeIs DEF Events
  <2> QED
    BY <2>1, TypeIs
<1>2. MaxVersion \in Nat
  BY BoundsAssumption
<1>3. PICK i \in Request : i = Idle /\ i.tries = 0
  <2>1. Idle \in Request /\ Idle.tries = 0
    BY <1>2 DEF Idle, Request, Steps
  <2> QED
    BY <2>1
<1>4. PICK q \in Request :
        /\ q = [i EXCEPT !.pc = step, !.current = p.current, !.count = p.count, !.media = media, !.author = a]
        /\ q.pc = step /\ q.tries = 0 /\ q.media = media /\ q.count = p.count
  <2>1. PICK q1 : q1 = [i EXCEPT !.pc = step, !.current = p.current]
    OBVIOUS
  <2>2. q1 \in Request /\ q1.pc = step /\ q1.tries = 0
    BY <1>1, <1>3, <2>1 DEF Request, Post
  <2>3. PICK q2 : q2 = [q1 EXCEPT !.count = p.count, !.media = media]
    OBVIOUS
  <2>4. q2 \in Request /\ q2.pc = step /\ q2.tries = 0 /\ q2.media = media /\ q2.count = p.count
    BY <1>1, <2>2, <2>3 DEF Request, Post
  <2>5. PICK q3 : q3 = [q2 EXCEPT !.author = a]
    OBVIOUS
  <2>6. q3 \in Request /\ q3.pc = step /\ q3.tries = 0 /\ q3.media = media /\ q3.count = p.count
    BY <1>1, <2>4, <2>5 DEF Request
  <2>7. q3 = [i EXCEPT !.pc = step, !.current = p.current, !.count = p.count, !.media = media, !.author = a]
    BY <2>1, <2>3, <2>5
  <2> QED
    BY <2>6, <2>7
<1>5. q = [Idle EXCEPT !.pc = step, !.current = post.current, !.count = post.count,
                       !.media = media, !.author = budget.edit]
  BY <1>1, <1>3, <1>4
<1>6. request' = [request EXCEPT ![h] = q]
  BY <1>5 DEF Begin
<1> QED
  BY <1>1, <1>4, <1>6 DEF Begin, At

(* A request that begins may write only what is not on its way.             *)
LEMMA BeginStep ==
  ASSUME PostsInv, NEW h \in Requests, NEW step \in {"number", "write", "cancel"},
         NEW media \in SUBSET Files, Begin(h, step, media), step # "cancel" => Editable,
         NEW what \in Events, Spend(what),
         UNCHANGED <<post, version, file, upload, worker, schedule, sent, kept>>
  PROVE  PostsInv'
<1>1. step \in Steps
  BY DEF Steps
<1>2. PICK q \in Request : request' = [request EXCEPT ![h] = q] /\ q.pc = step /\ q.tries = 0
  BY <1>1, BeginIs
<1>3. request[h].pc = "idle"
  BY <1>1, BeginIs
<1>4. step # "cancel" => post.status \notin OnItsWay
  BY DEF Editable, OnItsWay
<1>5. Fits(q)
  BY <1>2, <1>4 DEF Fits, Writing, MaxTries
<1>6. budget' \in [Events -> Nat]
  BY SpendIs
<1> QED
  BY <1>2, <1>3, <1>5, <1>6, OnlyMoves

LEMMA EditStep ==
  ASSUME PostsInv, NEW h \in Requests, Edit(h)
  PROVE  PostsInv'
<1>1. PICK media \in SUBSET Library : Begin(h, "number", media)
  BY DEF Edit
<1>2. media \in SUBSET Files
  BY <1>1 DEF Library
<1>3. /\ Spend("edit") /\ "edit" \in Events /\ Editable
      /\ UNCHANGED <<post, version, file, upload, worker, schedule, sent, kept>>
  BY DEF Edit, Events
<1> QED
  BY <1>1, <1>2, <1>3, BeginStep

LEMMA RestoreStep ==
  ASSUME PostsInv, NEW h \in Requests, Restore(h)
  PROVE  PostsInv'
<1>1. PICK n \in Numbers : version[n].media \subseteq Library /\ Begin(h, "number", version[n].media)
  BY DEF Restore
<1>2. PICK media \in SUBSET Files : media = version[n].media
  BY <1>1 DEF Library
<1>3. /\ Spend("edit") /\ "edit" \in Events /\ Editable
      /\ UNCHANGED <<post, version, file, upload, worker, schedule, sent, kept>>
  BY DEF Restore, Events
<1> QED
  BY <1>1, <1>2, <1>3, BeginStep

LEMMA RewriteStep ==
  ASSUME PostsInv, NEW h \in Requests, Rewrite(h)
  PROVE  PostsInv'
<1>1. PICK media \in SUBSET Files : media = {}
  OBVIOUS
<1>2. /\ Begin(h, "write", media) /\ Spend("edit") /\ "edit" \in Events /\ Editable
      /\ UNCHANGED <<post, version, file, upload, worker, schedule, sent, kept>>
  BY <1>1 DEF Rewrite, Events
<1> QED
  BY <1>2, BeginStep

LEMMA DeleteStep ==
  ASSUME PostsInv, NEW h \in Requests, Delete(h)
  PROVE  PostsInv'
<1>1. PICK media \in SUBSET Files : media = {}
  OBVIOUS
<1>2. /\ Begin(h, "cancel", media) /\ Spend("delete") /\ "delete" \in Events
      /\ UNCHANGED <<post, version, file, upload, worker, schedule, sent, kept>>
  BY <1>1 DEF Delete, Events
<1> QED
  BY <1>2, BeginStep

LEMMA IdleFits ==
  ASSUME NEW q, q.pc = "idle"
  PROVE  Fits(q)
  BY DEF Fits, Writing

LEMMA WrittenStep ==
  ASSUME PostsInv, NEW h \in Requests, Written(h)
  PROVE  PostsInv'
<1>1. PICK p \in Request : p = request[h] /\ Fits(p)
  BY RequestIs
<1>2. p.pc = "write" /\ UNCHANGED <<post, version, file, upload, worker, schedule, sent, kept, budget>>
  BY <1>1 DEF Written, At
<1>3. budget' \in [Events -> Nat]
  BY <1>2, TypeIs
<1>4. CASE Done(h)
  BY <1>1, <1>2, <1>3, <1>4, DoneIs, IdleFits, OnlyMoves
<1>5. CASE ~ Done(h)
  <2>1. PICK media : request' = [request EXCEPT ![h].pc = "number", ![h].media = media \cap Library]
    BY <1>5 DEF Written
  <2>2. PICK left : left = media \cap Library
    OBVIOUS
  <2>3. left \subseteq Files
    BY <2>2 DEF Library
  <2>4. PICK q : q = [p EXCEPT !.pc = "number", !.media = left]
    OBVIOUS
  <2>5. q \in Request /\ q.pc = "number" /\ q.tries = p.tries /\ q.late = p.late
    BY <2>3, <2>4 DEF Request, Steps
  <2>6. request' = [request EXCEPT ![h] = q]
    BY <1>1, <2>1, <2>2, <2>4
  <2>7. Fits(q)
    BY <1>1, <1>2, <2>5 DEF Fits, Writing
  <2> QED
    BY <1>1, <1>2, <1>3, <2>5, <2>6, <2>7, OnlyMoves
<1> QED
  BY <1>4, <1>5

LEMMA NumberStep ==
  ASSUME PostsInv, NEW h \in Requests, Number(h)
  PROVE  PostsInv'
<1>1. PICK p \in Request : p = request[h] /\ Fits(p)
  BY RequestIs
<1>2. PICK next : /\ next = Larger(Latest, p.count) + 1 /\ next <= MaxVersion
                  /\ request' = [request EXCEPT ![h].pc = "create", ![h].number = next, ![h].tries = @ + 1]
  BY <1>1 DEF Number
<1>3. /\ p.pc = "number"
      /\ UNCHANGED <<post, version, file, upload, worker, schedule, sent, kept, budget>>
  BY <1>1 DEF Number, At
<1>4. next \in Numbers /\ MaxVersion \in Nat
  <2>1. MaxVersion \in Nat
    BY BoundsAssumption
  <2>2. p.count \in Nat
    BY <2>1 DEF Request
  <2>3. Larger(Latest, p.count) \in Nat
    BY <2>2, LatestTyped DEF Larger
  <2> QED
    BY <1>2, <2>1, <2>3 DEF Numbers
<1>5. p.tries + 1 \in 0 .. 3
  BY <1>1, <1>3 DEF Fits, MaxTries, Request
<1>6. PICK q : q = [p EXCEPT !.pc = "create", !.number = next, !.tries = p.tries + 1]
  OBVIOUS
<1>7. q \in Request /\ q.pc = "create" /\ q.number = next /\ q.late = p.late
  <2>1. PICK q1 : q1 = [p EXCEPT !.pc = "create", !.number = next]
    OBVIOUS
  <2>2. q1 \in Request /\ q1.pc = "create" /\ q1.number = next /\ q1.late = p.late
    <3>1. next \in 0 .. MaxVersion
      BY <1>4 DEF Numbers
    <3> QED
      BY <2>1, <3>1 DEF Request, Steps
  <2>3. q = [q1 EXCEPT !.tries = p.tries + 1]
    BY <1>6, <2>1
  <2> QED
    BY <1>5, <2>2, <2>3 DEF Request
<1>8. request' = [request EXCEPT ![h] = q]
  BY <1>1, <1>2, <1>6
<1>9. Fits(q)
  BY <1>1, <1>3, <1>4, <1>7 DEF Fits, Writing
<1>10. budget' \in [Events -> Nat]
  BY <1>3, TypeIs
<1> QED
  BY <1>1, <1>3, <1>7, <1>8, <1>9, <1>10, OnlyMoves

(* A step of a request that leaves the others and the library alone.        *)
LEMMA RequestKeeps ==
  ASSUME PostsInv, NEW h \in Requests, NEW q \in Request, request' = [request EXCEPT ![h] = q], Fits(q)',
         UNCHANGED <<file, upload, worker, sent, budget>>,
         post' \in Post, post'.status = post.status,
         version' \in [Numbers -> Version], kept' \subseteq Numbers \X Nat,
         schedule' \in {"none", "live", "sending", "cancelled", "published", "failed"},
         schedule' \in Upcoming => schedule' = schedule, schedule = "sending" => schedule' = schedule,
         ~post'.exists => schedule' \notin Upcoming,
         HistoryStays, EditsAreKept'
  PROVE  PostsInv'
<1>1. request' \in [Requests -> Request] /\ request'[h] = q
      /\ \A g \in Requests : g # h => request'[g] = request[g]
  BY OneMoves
<1>2. PostsTypeOK'
  BY <1>1, TypeIs DEF PostsTypeOK
<1>3. Steady
  BY DEF Steady, OnItsWay
<1>4. UploadFits'
  BY DEF PostsInv, UploadFits, RecordsHaveObjects
<1>5. WorkerFits'
  BY DEF PostsInv, WorkerFits, Upcoming
<1>6. \A g \in Requests :
        request'[g] = request[g] \/ \E r \in Request : request'[g] = r /\ Fits(r)'
  BY <1>1
<1> QED
  BY <1>2, <1>3, <1>4, <1>5, <1>6, SteadyKeeps

(* An index of the history grows, and loses nothing.                        *)
LEMMA HistoryGrows ==
  ASSUME PostsInv, NEW n \in Numbers, NEW v \in Version, v.stored, ~version[n].stored,
         version' = [version EXCEPT ![n] = v], Readable' => Readable
  PROVE  HistoryStays /\ n <= Latest' /\ Latest <= Latest'
<1>1. version'[n] = v /\ \A m \in Numbers : m # n => version'[m] = version[m]
  BY TypeIs
<1>2. n <= Latest'
  BY <1>1, LatestIs, TopIs
<1>3. Latest <= Latest'
  <2>1. Latest = 0 \/ (Latest \in Numbers /\ version[Latest].stored)
    BY LatestIs, TopIs
  <2>2. CASE Latest = 0
    BY <2>2, LatestTyped
  <2>3. CASE Latest \in Numbers /\ version[Latest].stored
    <3>1. version'[Latest].stored
      BY <1>1, <2>3
    <3> QED
      BY <2>3, <3>1, LatestIs, TopIs
  <2> QED
    BY <2>1, <2>2, <2>3
<1>4. \A m \in Numbers : version[m].stored => version'[m] = version[m]
  BY <1>1
<1> QED
  BY <1>2, <1>3, <1>4 DEF HistoryStays

LEMMA CreateStep ==
  ASSUME PostsInv, NEW h \in Requests, Create(h)
  PROVE  PostsInv'
<1>1. PICK p \in Request : p = request[h] /\ Fits(p)
  BY RequestIs
<1>2. /\ p.pc = "create" /\ p.number \in Numbers
      /\ UNCHANGED <<post, file, upload, worker, schedule, sent, kept, budget>>
  BY <1>1 DEF Create, At, Fits
<1>3. CASE version[p.number].stored
  <2>1. UNCHANGED version /\ IF p.tries < MaxTries THEN Goto(h, "number") ELSE Done(h)
    BY <1>1, <1>3 DEF Create, Duplicate
  <2>2. budget' \in [Events -> Nat]
    BY <1>2, TypeIs
  <2>3. CASE Done(h)
    BY <1>1, <1>2, <2>1, <2>2, <2>3, DoneIs, IdleFits, OnlyMoves
  <2>4. CASE p.tries < MaxTries /\ Goto(h, "number")
    <3>1. "number" \in Steps
      BY DEF Steps
    <3>2. PICK q \in Request : /\ request' = [request EXCEPT ![h] = q] /\ q.pc = "number"
                               /\ q.tries = p.tries /\ q.late = p.late
      BY <1>1, <2>4, <3>1, GotoIs
    <3>3. Fits(q)
      BY <1>1, <1>2, <2>4, <3>2 DEF Fits, Writing
    <3> QED
      BY <1>1, <1>2, <2>1, <2>2, <3>2, <3>3, OnlyMoves
  <2> QED
    BY <2>1, <2>3, <2>4
<1>4. CASE ~version[p.number].stored
  <2>1. PICK v : v = [stored |-> TRUE, author |-> p.author, media |-> p.media]
    OBVIOUS
  <2>2. v \in Version /\ v.stored /\ v.author = p.author
    BY <2>1 DEF Version, Request
  <2>3. version' = [version EXCEPT ![p.number] = v] /\ Goto(h, "save")
    BY <1>1, <1>4, <2>1 DEF Create, Duplicate
  <2>4. "save" \in Steps
    BY DEF Steps
  <2>5. PICK q \in Request : /\ request' = [request EXCEPT ![h] = q] /\ q.pc = "save"
                             /\ q.number = p.number /\ q.author = p.author /\ q.late = p.late
    BY <1>1, <2>3, <2>4, GotoIs
  <2>6. Readable' => Readable
    <3>1. request'[h].pc # "deletePost" /\ request[h].pc # "deletePost"
      BY <1>1, <1>2, <2>5, OneMoves
    <3>2. \A g \in Requests : g # h => request'[g] = request[g]
      BY <2>5, OneMoves
    <3> QED
      BY <1>2, <3>1, <3>2, ReadableStays
  <2>7. HistoryStays /\ p.number <= Latest'
    BY <1>2, <1>4, <2>2, <2>3, <2>6, HistoryGrows
  <2>8. version' \in [Numbers -> Version] /\ version'[p.number] = v
    BY <1>2, <2>2, <2>3, TypeIs
  <2>9. Fits(q)'
    <3>1. q.number <= Latest' /\ StoredBy(q.number, q.author)'
      BY <2>2, <2>5, <2>7, <2>8 DEF StoredBy
    <3>2. q.pc \in Writing /\ post'.status \in OnItsWay => q.late
      BY <1>1, <1>2, <2>5 DEF Fits, Writing
    <3> QED
      BY <1>2, <2>5, <3>1, <3>2 DEF Fits
  <2>10. EditsAreKept'
    BY <1>2, <2>7, EditsStay
  <2>11. /\ post' \in Post /\ post'.status = post.status /\ kept' \subseteq Numbers \X Nat
         /\ schedule' \in {"none", "live", "sending", "cancelled", "published", "failed"}
         /\ ~post'.exists => schedule' \notin Upcoming
    BY <1>2, TypeIs DEF PostsInv, WorkerFits
  <2> QED
    BY <1>2, <2>5, <2>7, <2>8, <2>9, <2>10, <2>11, RequestKeeps
<1> QED
  BY <1>3, <1>4

LEMMA SavingStep ==
  ASSUME PostsInv, NEW h \in Requests, Save(h)
  PROVE  PostsInv'
<1>1. PICK p \in Request : p = request[h] /\ Fits(p)
  BY RequestIs
<1>2. /\ p.pc = "save" /\ p.number \in Numbers
      /\ UNCHANGED <<version, file, upload, worker, schedule, sent, budget>>
  BY <1>1 DEF Save, At, Fits
<1>3. CASE ~post.exists
  <2>1. Done(h) /\ UNCHANGED <<post, kept>>
    BY <1>3 DEF Save
  <2>2. budget' \in [Events -> Nat]
    BY <1>2, TypeIs
  <2> QED
    BY <1>1, <1>2, <2>1, <2>2, DoneIs, IdleFits, OnlyMoves
<1>4. CASE post.exists
  <2>1. PICK w \in Post : w = post
    BY TypeIs
  <2>2. PICK n \in Numbers, a \in Nat : n = p.number /\ a = p.author
    BY <1>2 DEF Request
  <2>3. /\ post' = [post EXCEPT !.current = n, !.count = n] /\ kept' = kept \cup {<<n, a>>}
        /\ request' = [request EXCEPT ![h].pc = "prune", ![h].count = n]
    BY <1>1, <1>4, <2>2 DEF Save
  <2>4. n \in 0 .. MaxVersion /\ n \in Nat
    BY <2>2, BoundsAssumption DEF Numbers
  <2>5. PICK x : x = [w EXCEPT !.current = n, !.count = n]
    OBVIOUS
  <2>6. post' = x /\ x \in Post /\ x.status = w.status /\ x.exists = w.exists
    BY <2>1, <2>3, <2>4, <2>5 DEF Post
  <2>7. PICK q : q = [p EXCEPT !.pc = "prune", !.count = n]
    OBVIOUS
  <2>8. q \in Request /\ q.pc = "prune" /\ q.count = n
    BY <2>4, <2>7 DEF Request, Steps
  <2>9. request' = [request EXCEPT ![h] = q]
    BY <1>1, <2>3, <2>7
  <2>10. Readable' => Readable
    <3>1. request'[h].pc # "deletePost" /\ request[h].pc # "deletePost"
      BY <1>1, <1>2, <2>8, <2>9, OneMoves
    <3>2. \A g \in Requests : g # h => request'[g] = request[g]
      BY <2>8, <2>9, OneMoves
    <3>3. post'.exists => post.exists
      BY <1>4
    <3> QED
      BY <3>1, <3>2, <3>3, ReadableStays
  <2>11. HistoryStays
    BY <1>2, <2>10, SameHistory
  <2>12. Latest' = Latest
    BY <1>2, LatestIs
  <2>13. Readable => n <= Latest /\ (TooOld(n, Latest) \/ StoredBy(n, a))
    BY <1>1, <1>2, <2>2 DEF Fits
  <2>14. Fits(q)'
    BY <2>8, <2>10, <2>12, <2>13 DEF Fits, Writing
  <2>15. EditsAreKept'
    <3> SUFFICES ASSUME Readable', NEW k \in kept', ~TooOld(k[1], Latest')
                 PROVE  version'[k[1]].stored /\ version'[k[1]].author = k[2]
      BY DEF EditsAreKept, TooOld
    <3>1. Readable /\ ~TooOld(k[1], Latest)
      BY <2>10, <2>12
    <3>2. CASE k \in kept
      BY <1>2, <3>1, <3>2 DEF PostsInv, EditsAreKept
    <3>3. CASE k = <<n, a>>
      <4>1. k[1] = n /\ k[2] = a
        BY <3>3
      <4> QED
        BY <1>2, <2>13, <3>1, <4>1 DEF StoredBy
    <3> QED
      BY <2>3, <3>2, <3>3
  <2>16. /\ version' \in [Numbers -> Version] /\ kept' \subseteq Numbers \X Nat
         /\ schedule' \in {"none", "live", "sending", "cancelled", "published", "failed"}
    BY <1>2, <2>2, <2>3, TypeIs
  <2>17. ~post'.exists => schedule' \notin Upcoming
    BY <1>4, <2>1, <2>6
  <2>18. post' \in Post /\ post'.status = post.status
    BY <2>1, <2>6
  <2> QED
    BY <1>2, <2>8, <2>9, <2>11, <2>14, <2>15, <2>16, <2>17, <2>18, RequestKeeps
<1> QED
  BY <1>3, <1>4

LEMMA PruneHistory ==
  ASSUME PostsInv, NEW h \in Requests, Prune(h)
  PROVE  /\ HistoryStays /\ version' \in [Numbers -> Version]
         /\ \E q \in Request : request' = [request EXCEPT ![h] = q] /\ q.pc = "idle"
<1>1. PICK p \in Request : p = request[h] /\ Fits(p)
  BY RequestIs
<1>2. PICK c \in Nat : c = p.count
  BY BoundsAssumption DEF Request
<1>3. /\ p.pc = "prune" /\ Done(h)
      /\ version' = [n \in Numbers |-> IF TooOld(n, c) THEN NoVersion ELSE version[n]]
      /\ UNCHANGED <<post, file, upload, worker, schedule, sent, kept, budget>>
  BY <1>1, <1>2 DEF Prune, At
<1>4. PICK q \in Request : request' = [request EXCEPT ![h] = q] /\ q.pc = "idle"
  BY <1>3, DoneIs
<1>5. Readable' => Readable
  <2>1. request'[h].pc # "deletePost" /\ request[h].pc # "deletePost"
    BY <1>1, <1>3, <1>4, OneMoves
  <2>2. \A g \in Requests : g # h => request'[g] = request[g]
    BY <1>4, OneMoves
  <2> QED
    BY <1>3, <2>1, <2>2, ReadableStays
<1>6. version' \in [Numbers -> Version]
  <2>1. NoVersion \in Version
    BY DEF NoVersion, Version
  <2> QED
    BY <1>3, <2>1, TypeIs
<1>7. Limit \in Nat /\ Limit >= 1
  BY BoundsAssumption
<1>8. HistoryStays
  <2> SUFFICES ASSUME Readable'
               PROVE  /\ Readable /\ Latest <= Latest'
                      /\ \A n \in Numbers : version[n].stored /\ ~TooOld(n, Latest') =>
                           version'[n].stored /\ version'[n].author = version[n].author
    BY DEF HistoryStays
  <2>1. Readable /\ c <= Latest
    BY <1>1, <1>2, <1>3, <1>5 DEF Fits
  <2>2. Latest <= Latest'
    <3>1. Latest = 0 \/ (Latest \in Numbers /\ version[Latest].stored)
      BY LatestIs, TopIs
    <3>2. CASE Latest = 0
      BY <3>2, LatestTyped
    <3>3. CASE Latest \in Numbers /\ version[Latest].stored
      <4>1. ~TooOld(Latest, c)
        BY <1>7, <2>1, LatestTyped DEF TooOld
      <4>2. version'[Latest].stored
        BY <1>3, <3>3, <4>1
      <4> QED
        BY <3>3, <4>2, LatestIs, TopIs
    <3> QED
      BY <3>1, <3>2, <3>3
  <2>3. ASSUME NEW n \in Numbers, version[n].stored, ~TooOld(n, Latest')
        PROVE  version'[n].stored /\ version'[n].author = version[n].author
    <3>1. ~TooOld(n, c)
      BY <1>7, <2>1, <2>2, <2>3, LatestTyped DEF TooOld, Numbers
    <3>2. version'[n] = version[n]
      BY <1>3, <3>1
    <3> QED
      BY <2>3, <3>2
  <2> QED
    BY <2>1, <2>2, <2>3
<1> QED
  BY <1>4, <1>6, <1>8

LEMMA PruneStep ==
  ASSUME PostsInv, NEW h \in Requests, Prune(h)
  PROVE  PostsInv'
<1>1. UNCHANGED <<post, file, upload, worker, schedule, sent, kept, budget>>
  BY DEF Prune
<1>2. PICK q \in Request : request' = [request EXCEPT ![h] = q] /\ q.pc = "idle"
  BY PruneHistory
<1>3. version' \in [Numbers -> Version]
  BY PruneHistory
<1>4. HistoryStays
  BY PruneHistory
<1>5. Fits(q)'
  BY <1>2 DEF Fits, Writing
<1>6. EditsAreKept'
  BY <1>1, <1>4, EditsStay
<1>7. /\ post' \in Post /\ post'.status = post.status /\ kept' \subseteq Numbers \X Nat
      /\ schedule' \in {"none", "live", "sending", "cancelled", "published", "failed"}
      /\ ~post'.exists => schedule' \notin Upcoming
  BY <1>1, TypeIs DEF PostsInv, WorkerFits
<1>8. /\ schedule' \in Upcoming => schedule' = schedule
      /\ schedule = "sending" => schedule' = schedule
      /\ UNCHANGED <<file, upload, worker, sent, budget>>
  BY <1>1
<1>9. PICK r \in Request : r = q /\ request' = [request EXCEPT ![h] = r]
  BY <1>2
<1>10. Fits(r)'
  BY <1>5, <1>9
<1> QED
  BY <1>3, <1>4, <1>6, <1>7, <1>8, <1>9, <1>10, RequestKeeps

LEMMA CancelStep ==
  ASSUME PostsInv, NEW h \in Requests, Cancel(h)
  PROVE  PostsInv'
<1>1. PICK p \in Request : p = request[h] /\ Fits(p)
  BY RequestIs
<1>2. p.pc = "cancel" /\ UNCHANGED <<post, version, file, upload, worker, sent, kept, budget>>
  BY <1>1 DEF Cancel, At
<1>3. CASE schedule = "sending"
  <2>1. Done(h) /\ UNCHANGED schedule
    BY <1>3 DEF Cancel, BeingSent
  <2>2. budget' \in [Events -> Nat]
    BY <1>2, TypeIs
  <2> QED
    BY <1>1, <1>2, <2>1, <2>2, DoneIs, IdleFits, OnlyMoves
<1>4. CASE schedule # "sending"
  <2>1. /\ schedule' = IF schedule = "live" THEN "cancelled" ELSE schedule
        /\ Goto(h, "deleteVersions") /\ "deleteVersions" \in Steps
    BY <1>4 DEF Cancel, BeingSent, Steps
  <2>2. PICK q \in Request : request' = [request EXCEPT ![h] = q] /\ q.pc = "deleteVersions"
    BY <2>1, GotoIs
  <2>3. /\ schedule' \in {"none", "live", "sending", "cancelled", "published", "failed"}
        /\ schedule' \notin Upcoming
    BY <1>4, <2>1, TypeIs DEF Upcoming
  <2>4. Fits(q)'
    BY <2>2, <2>3 DEF Fits, Writing
  <2>5. Readable' => Readable
    <3>1. request'[h].pc # "deletePost" /\ request[h].pc # "deletePost"
      BY <1>1, <1>2, <2>2, OneMoves
    <3>2. \A g \in Requests : g # h => request'[g] = request[g]
      BY <2>2, OneMoves
    <3> QED
      BY <1>2, <3>1, <3>2, ReadableStays
  <2>6. HistoryStays
    BY <1>2, <2>5, SameHistory
  <2>7. EditsAreKept'
    BY <1>2, <2>6, EditsStay
  <2>8. /\ post' \in Post /\ post'.status = post.status /\ kept' \subseteq Numbers \X Nat
        /\ version' \in [Numbers -> Version]
    BY <1>2, TypeIs
  <2> QED
    BY <1>2, <1>4, <2>2, <2>3, <2>4, <2>6, <2>7, <2>8, RequestKeeps
<1> QED
  BY <1>3, <1>4

LEMMA DeleteVersionsStep ==
  ASSUME PostsInv, NEW h \in Requests, DeleteVersions(h)
  PROVE  PostsInv'
<1>1. PICK p \in Request : p = request[h] /\ Fits(p)
  BY RequestIs
<1>2. /\ p.pc = "deleteVersions" /\ version' = [n \in Numbers |-> NoVersion]
      /\ Goto(h, "deletePost") /\ "deletePost" \in Steps
      /\ UNCHANGED <<post, file, upload, worker, schedule, sent, kept, budget>>
  BY <1>1 DEF DeleteVersions, At, Steps
<1>3. PICK q \in Request : request' = [request EXCEPT ![h] = q] /\ q.pc = "deletePost"
  BY <1>2, GotoIs
<1>4. schedule' \notin Upcoming
  BY <1>1, <1>2 DEF Fits
<1>5. Fits(q)'
  BY <1>3, <1>4 DEF Fits, Writing
<1>6. ~ Readable'
  <2>1. request'[h].pc = "deletePost"
    BY <1>3, OneMoves
  <2> QED
    BY <2>1 DEF Readable, BeingDeleted, At
<1>7. HistoryStays
  BY <1>6 DEF HistoryStays
<1>8. EditsAreKept'
  BY <1>2, <1>7, EditsStay
<1>9. version' \in [Numbers -> Version]
  <2>1. NoVersion \in Version
    BY DEF NoVersion, Version
  <2> QED
    BY <1>2, <2>1
<1>10. /\ post' \in Post /\ post'.status = post.status /\ kept' \subseteq Numbers \X Nat
       /\ schedule' \in {"none", "live", "sending", "cancelled", "published", "failed"}
  BY <1>2, TypeIs
<1> QED
  BY <1>2, <1>3, <1>4, <1>5, <1>7, <1>8, <1>9, <1>10, RequestKeeps

LEMMA DeletePostStep ==
  ASSUME PostsInv, NEW h \in Requests, DeletePost(h)
  PROVE  PostsInv'
<1>1. PICK p \in Request : p = request[h] /\ Fits(p)
  BY RequestIs
<1>2. /\ p.pc = "deletePost" /\ post' = [post EXCEPT !.exists = FALSE] /\ Done(h)
      /\ UNCHANGED <<version, file, upload, worker, schedule, sent, kept, budget>>
  BY <1>1 DEF DeletePost, At
<1>3. PICK q \in Request : request' = [request EXCEPT ![h] = q] /\ q.pc = "idle"
  BY <1>2, DoneIs
<1>4. schedule' \notin Upcoming
  BY <1>1, <1>2 DEF Fits
<1>5. Fits(q)'
  BY <1>3 DEF Fits, Writing
<1>6. PICK w \in Post : w = post
  BY TypeIs
<1>7. PICK x : x = [w EXCEPT !.exists = FALSE]
  OBVIOUS
<1>8. post' = x /\ x \in Post /\ x.status = w.status /\ x.exists = FALSE
  BY <1>2, <1>6, <1>7 DEF Post
<1>9. ~ Readable'
  BY <1>8 DEF Readable
<1>10. HistoryStays
  BY <1>9 DEF HistoryStays
<1>11. EditsAreKept'
  BY <1>2, <1>10, EditsStay
<1>12. /\ post' \in Post /\ post'.status = post.status /\ kept' \subseteq Numbers \X Nat
       /\ schedule' \in {"none", "live", "sending", "cancelled", "published", "failed"}
       /\ version' \in [Numbers -> Version]
  BY <1>2, <1>6, <1>8, TypeIs
<1> QED
  BY <1>2, <1>3, <1>4, <1>5, <1>10, <1>11, <1>12, RequestKeeps

(* Files come and go: the history of the post is not touched.               *)
LEMMA LibraryKeeps ==
  ASSUME PostsInv, request' \in [Requests -> Request],
         UNCHANGED <<post, version, worker, schedule, sent, kept>>,
         file' \in [Files -> [record : BOOLEAN, object : BOOLEAN]],
         upload' \in [pc : {"ready", "put", "insert", "rollback", "done"},
                      waiting : SUBSET Files, failed : BOOLEAN],
         budget' \in [Events -> Nat],
         \A f \in Files : file'[f].record => file[f].record \/ (f \notin Stored /\ upload.pc # "done"),
         upload.pc = "done" => upload'.pc = "done", UploadFits',
         \A g \in Requests : \/ request'[g] = request[g]
                             \/ \E q \in Request :
                                  request'[g] = q /\ Fits(q)' /\ request[g].pc # "deletePost"
  PROVE  PostsInv'
<1>1. PostsTypeOK'
  BY TypeIs DEF PostsTypeOK
<1>2. Readable' => Readable
  BY ReadableStays
<1>3. HistoryStays
  BY <1>2, SameHistory
<1>4. Steady
  BY <1>3 DEF Steady
<1>5. EditsAreKept'
  BY <1>3, EditsStay
<1>6. WorkerFits'
  BY DEF PostsInv, WorkerFits
<1>7. \A g \in Requests :
        request'[g] = request[g] \/ \E r \in Request : request'[g] = r /\ Fits(r)'
  OBVIOUS
<1> QED
  BY <1>1, <1>4, <1>5, <1>6, <1>7, SteadyKeeps

FileEntry == [record : BOOLEAN, object : BOOLEAN]

LEMMA RemoveFileStep ==
  ASSUME PostsInv, NEW h \in Requests, RemoveFile(h)
  PROVE  PostsInv'
<1>1. /\ request[h].pc = "idle" /\ Spend("removeFile") /\ "removeFile" \in Events
      /\ UNCHANGED <<post, version, upload, worker, schedule, sent, kept>>
  BY DEF RemoveFile, At, Events
<1>2. PICK f \in Files :
        /\ file[f].record /\ file' = [file EXCEPT ![f].record = FALSE]
        /\ request' = [request EXCEPT ![h] = [Idle EXCEPT !.pc = "removeObject", !.media = {f}]]
  BY DEF RemoveFile, Library
<1>3. PICK e \in FileEntry : e = file[f] /\ e.record
  BY <1>2, TypeIs DEF FileEntry
<1>4. PICK x : x = [e EXCEPT !.record = FALSE]
  OBVIOUS
<1>5. x \in FileEntry /\ ~x.record /\ x.object = e.object
  BY <1>4 DEF FileEntry
<1>6. file' = [file EXCEPT ![f] = x]
  BY <1>2, <1>3, <1>4
<1>7. /\ file' \in [Files -> FileEntry] /\ file'[f] = x
      /\ \A g \in Files : g # f => file'[g] = file[g]
  BY <1>5, <1>6, TypeIs DEF FileEntry
<1>8. MaxVersion \in Nat
  BY BoundsAssumption
<1>9. PICK i \in Request : i = Idle
  <2>1. Idle \in Request
    BY <1>8 DEF Idle, Request, Steps
  <2> QED
    BY <2>1
<1>10. PICK q : q = [i EXCEPT !.pc = "removeObject", !.media = {f}]
  OBVIOUS
<1>11. q \in Request /\ q.pc = "removeObject" /\ q.media = {f}
  BY <1>10 DEF Request, Steps
<1>12. request' = [request EXCEPT ![h] = q]
  BY <1>2, <1>9, <1>10
<1>13. f \in Stored \/ upload.pc = "done"
  BY <1>3 DEF PostsInv, UploadFits
<1>14. Fits(q)'
  BY <1>1, <1>5, <1>7, <1>11, <1>13 DEF Fits, Writing
<1>15. UploadFits'
  BY <1>1, <1>3, <1>5, <1>7 DEF PostsInv, UploadFits, RecordsHaveObjects
<1>16. /\ request' \in [Requests -> Request] /\ request'[h] = q
       /\ \A g \in Requests : g # h => request'[g] = request[g]
  BY <1>11, <1>12, OneMoves
<1>17. budget' \in [Events -> Nat]
  BY <1>1, SpendIs
<1>18. \A g \in Files : file'[g].record => file[g].record
  BY <1>3, <1>7
<1>19. \A g \in Requests : \/ request'[g] = request[g]
                           \/ \E r \in Request : request'[g] = r /\ Fits(r)' /\ request[g].pc # "deletePost"
  BY <1>1, <1>11, <1>14, <1>16
<1>20. /\ file' \in [Files -> [record : BOOLEAN, object : BOOLEAN]]
       /\ upload' \in [pc : {"ready", "put", "insert", "rollback", "done"},
                      waiting : SUBSET Files, failed : BOOLEAN]
       /\ upload.pc = "done" => upload'.pc = "done"
  BY <1>1, <1>7, TypeIs DEF FileEntry
<1> QED
  BY <1>1, <1>15, <1>16, <1>17, <1>18, <1>19, <1>20, LibraryKeeps

LEMMA RemoveObjectStep ==
  ASSUME PostsInv, NEW h \in Requests, RemoveObject(h)
  PROVE  PostsInv'
<1>1. PICK p \in Request : p = request[h] /\ Fits(p)
  BY RequestIs
<1>2. /\ p.pc = "removeObject" /\ Done(h)
      /\ UNCHANGED <<post, version, upload, worker, schedule, sent, kept, budget>>
  BY <1>1 DEF RemoveObject, At
<1>3. PICK q \in Request : request' = [request EXCEPT ![h] = q] /\ q.pc = "idle"
  BY <1>2, DoneIs
<1>4. /\ request' \in [Requests -> Request] /\ request'[h] = q
      /\ \A g \in Requests : g # h => request'[g] = request[g]
  BY <1>3, OneMoves
<1>5. Fits(q)'
  BY <1>3 DEF Fits, Writing
<1>6. \A f \in p.media : ~file[f].record /\ (f \in Stored \/ upload.pc = "done")
  BY <1>1, <1>2 DEF Fits
<1>7. /\ file' \in [Files -> FileEntry]
      /\ \A f \in Files : /\ file'[f].record = file[f].record
                          /\ f \notin p.media => file'[f] = file[f]
  <2>1. CASE UNCHANGED file
    BY <2>1, TypeIs DEF FileEntry
  <2>2. CASE file' = [f \in Files |-> IF f \in p.media THEN [file[f] EXCEPT !.object = FALSE] ELSE file[f]]
    <3>1. ASSUME NEW f \in Files
          PROVE  /\ file'[f] \in FileEntry /\ file'[f].record = file[f].record
                 /\ f \notin p.media => file'[f] = file[f]
      <4>1. PICK e \in FileEntry : e = file[f]
        BY TypeIs DEF FileEntry
      <4>2. PICK x : x = [e EXCEPT !.object = FALSE]
        OBVIOUS
      <4>3. x \in FileEntry /\ x.record = e.record
        BY <4>2 DEF FileEntry
      <4>4. file'[f] = IF f \in p.media THEN x ELSE e
        BY <2>2, <4>1, <4>2
      <4> QED
        BY <4>1, <4>3, <4>4
    <3>2. PICK F : F = file' /\ F = [f \in Files |-> F[f]]
      BY <2>2
    <3> QED
      BY <3>1, <3>2
  <2> QED
    BY <1>1, <2>1, <2>2 DEF RemoveObject
<1>8. UploadFits'
  <2>1. UploadFits
    BY DEF PostsInv
  <2>2. \A f \in Files \ Stored : upload.pc # "done" => file'[f] = file[f]
    BY <1>6, <1>7
  <2>3. \A f \in Files : file'[f].record => file'[f].object
    BY <1>6, <1>7, <2>1 DEF UploadFits, RecordsHaveObjects
  <2> QED
    BY <1>2, <1>7, <2>1, <2>2, <2>3 DEF UploadFits, RecordsHaveObjects
<1>9. \A g \in Requests : \/ request'[g] = request[g]
                          \/ \E r \in Request : request'[g] = r /\ Fits(r)' /\ request[g].pc # "deletePost"
  BY <1>1, <1>2, <1>3, <1>4, <1>5
<1>10. /\ file' \in [Files -> [record : BOOLEAN, object : BOOLEAN]]
       /\ upload' \in [pc : {"ready", "put", "insert", "rollback", "done"},
                      waiting : SUBSET Files, failed : BOOLEAN]
       /\ upload.pc = "done" => upload'.pc = "done"
       /\ budget' \in [Events -> Nat]
  BY <1>2, <1>7, TypeIs DEF FileEntry
<1> QED
  BY <1>2, <1>4, <1>7, <1>8, <1>9, <1>10, LibraryKeeps

-----------------------------------------------------------------------------
(* The upload of a batch.                                                   *)

Uploads == [pc : {"ready", "put", "insert", "rollback", "done"}, waiting : SUBSET Files, failed : BOOLEAN]

LEMMA UploadKeeps ==
  ASSUME PostsInv, UNCHANGED <<post, version, request, worker, schedule, sent, kept>>,
         file' \in [Files -> FileEntry], NEW u \in Uploads, upload' = u, budget' \in [Events -> Nat],
         \A f \in Files : file'[f].record => file[f].record \/ (f \notin Stored /\ upload.pc # "done"),
         upload.pc # "done", UploadFits'
  PROVE  PostsInv'
<1>1. /\ file' \in [Files -> [record : BOOLEAN, object : BOOLEAN]]
      /\ upload' \in [pc : {"ready", "put", "insert", "rollback", "done"},
                      waiting : SUBSET Files, failed : BOOLEAN]
      /\ request' \in [Requests -> Request]
  BY TypeIs DEF Uploads, FileEntry
<1> QED
  BY <1>1, LibraryKeeps

(* An upload that only moves on.                                            *)
LEMMA UploadMoves ==
  ASSUME PostsInv, UNCHANGED <<post, version, file, request, worker, schedule, sent, kept>>,
         NEW u \in Uploads, upload' = u, budget' \in [Events -> Nat], upload.pc # "done",
         u.waiting \subseteq Files \ Stored,
         u.pc = "insert" => \A f \in Files \ Stored : file[f].object,
         u.pc = "put" /\ ~u.failed => \A f \in Files \ Stored : file[f].object \/ f \in u.waiting
  PROVE  PostsInv'
<1>1. UploadFits'
  BY DEF PostsInv, UploadFits, RecordsHaveObjects
<1>2. file' \in [Files -> FileEntry]
  BY TypeIs DEF FileEntry
<1> QED
  BY <1>1, <1>2, UploadKeeps

LEMMA UploadIs ==
  ASSUME PostsInv
  PROVE  upload \in Uploads /\ UploadFits /\ file \in [Files -> FileEntry] /\ budget \in [Events -> Nat]
  BY TypeIs DEF PostsInv, Uploads, FileEntry

LEMMA UploadStep ==
  ASSUME PostsInv, Upload
  PROVE  PostsInv'
<1>1. /\ upload.pc = "ready" /\ Spend("upload") /\ "upload" \in Events
      /\ UNCHANGED <<post, version, file, request, worker, schedule, sent, kept>>
  BY DEF Upload, Events
<1>2. PICK u : u = [pc |-> "put", waiting |-> Files \ Stored, failed |-> FALSE] /\ upload' = u
  BY DEF Upload
<1>3. u \in Uploads /\ u.waiting = Files \ Stored /\ u.pc = "put"
  BY <1>2 DEF Uploads
<1>4. budget' \in [Events -> Nat]
  BY <1>1, SpendIs
<1> QED
  BY <1>1, <1>2, <1>3, <1>4, UploadMoves

LEMMA PutObjectStep ==
  ASSUME PostsInv, PutObject
  PROVE  PostsInv'
<1>1. PICK v \in Uploads : v = upload /\ v.pc = "put" /\ v.waiting \subseteq Files \ Stored
  BY UploadIs DEF PutObject, UploadFits
<1>2. PICK f \in v.waiting :
        upload' = [v EXCEPT !.waiting = v.waiting \ {f}] /\ file' = [file EXCEPT ![f].object = TRUE]
  BY <1>1 DEF PutObject
<1>3. f \in Files \ Stored
  BY <1>1
<1>4. PICK u : u = [v EXCEPT !.waiting = v.waiting \ {f}]
  OBVIOUS
<1>5. u \in Uploads /\ u.pc = "put" /\ u.waiting = v.waiting \ {f} /\ u.failed = v.failed
  BY <1>1, <1>4 DEF Uploads
<1>6. PICK e \in FileEntry : e = file[f]
  BY <1>3, UploadIs
<1>7. PICK x : x = [e EXCEPT !.object = TRUE]
  OBVIOUS
<1>8. x \in FileEntry /\ x.object /\ x.record = e.record
  BY <1>7 DEF FileEntry
<1>9. file' = [file EXCEPT ![f] = x]
  BY <1>2, <1>6, <1>7
<1>10. file' \in [Files -> FileEntry] /\ file'[f] = x /\ \A g \in Files : g # f => file'[g] = file[g]
  BY <1>3, <1>8, <1>9, UploadIs
<1>11. UploadFits'
  BY <1>1, <1>2, <1>3, <1>4, <1>5, <1>6, <1>8, <1>10, UploadIs DEF UploadFits, RecordsHaveObjects
<1>12. UNCHANGED <<post, version, request, worker, schedule, sent, kept, budget>>
  BY DEF PutObject
<1>13. \A g \in Files : file'[g].record => file[g].record
  BY <1>6, <1>8, <1>10
<1>14. upload' = u /\ upload.pc # "done" /\ budget' \in [Events -> Nat]
  BY <1>1, <1>2, <1>4, <1>12, UploadIs
<1> QED
  BY <1>5, <1>10, <1>11, <1>12, <1>13, <1>14, UploadKeeps

LEMMA PutFailsStep ==
  ASSUME PostsInv, PutFails
  PROVE  PostsInv'
<1>1. PICK v \in Uploads : v = upload /\ v.pc = "put" /\ v.waiting \subseteq Files \ Stored
  BY UploadIs DEF PutFails, UploadFits
<1>2. PICK f \in v.waiting : upload' = [v EXCEPT !.waiting = v.waiting \ {f}, !.failed = TRUE]
  BY <1>1 DEF PutFails
<1>3. PICK u : u = [v EXCEPT !.waiting = v.waiting \ {f}, !.failed = TRUE]
  OBVIOUS
<1>4. u \in Uploads /\ u.pc = "put" /\ u.waiting = v.waiting \ {f} /\ u.failed
  BY <1>1, <1>3 DEF Uploads
<1>5. /\ Spend("fault") /\ "fault" \in Events
      /\ UNCHANGED <<post, version, file, request, worker, schedule, sent, kept>>
  BY DEF PutFails, Events
<1>6. budget' \in [Events -> Nat]
  BY <1>5, SpendIs
<1>7. upload' = u /\ upload.pc # "done" /\ u.waiting \subseteq Files \ Stored /\ u.pc # "insert"
  BY <1>1, <1>2, <1>3, <1>4
<1> QED
  BY <1>4, <1>5, <1>6, <1>7, UploadMoves

LEMMA PutDoneStep ==
  ASSUME PostsInv, PutDone
  PROVE  PostsInv'
<1>1. PICK v \in Uploads : v = upload /\ v.pc = "put" /\ v.waiting = {}
  BY UploadIs DEF PutDone
<1>2. PICK step : step = IF v.failed THEN "rollback" ELSE "insert"
  OBVIOUS
<1>3. PICK u : u = [v EXCEPT !.pc = step, !.waiting = Files \ Stored]
  OBVIOUS
<1>4. u \in Uploads /\ u.pc = step /\ u.waiting = Files \ Stored
  BY <1>2, <1>3 DEF Uploads
<1>5. upload' = u
  BY <1>1, <1>2, <1>3 DEF PutDone, AfterPut
<1>6. step = "insert" => \A f \in Files \ Stored : file[f].object
  BY <1>1, <1>2, UploadIs DEF UploadFits
<1>7. UNCHANGED <<post, version, file, request, worker, schedule, sent, kept, budget>>
  BY DEF PutDone
<1>8. budget' \in [Events -> Nat] /\ upload.pc # "done" /\ u.pc # "put"
  BY <1>1, <1>2, <1>4, <1>7, UploadIs
<1> QED
  BY <1>4, <1>5, <1>6, <1>7, <1>8, UploadMoves

LEMMA InsertStep ==
  ASSUME PostsInv, Insert
  PROVE  PostsInv'
<1>1. PICK v \in Uploads : v = upload /\ v.pc = "insert" /\ v.waiting \subseteq Files \ Stored
  BY UploadIs DEF Insert, UploadFits
<1>2. /\ file' = [f \in Files |-> IF f \in Stored THEN file[f] ELSE [file[f] EXCEPT !.record = TRUE]]
      /\ upload' = [v EXCEPT !.pc = "done"]
      /\ UNCHANGED <<post, version, request, worker, schedule, sent, kept, budget>>
  BY <1>1 DEF Insert
<1>3. PICK u : u = [v EXCEPT !.pc = "done"]
  OBVIOUS
<1>4. u \in Uploads /\ u.pc = "done" /\ u.waiting = v.waiting
  BY <1>3 DEF Uploads
<1>5. ASSUME NEW f \in Files
      PROVE  /\ file'[f] \in FileEntry /\ file'[f].object = file[f].object
             /\ f \in Stored => file'[f] = file[f]
  <2>1. PICK e \in FileEntry : e = file[f]
    BY UploadIs
  <2>2. PICK x : x = [e EXCEPT !.record = TRUE]
    OBVIOUS
  <2>3. x \in FileEntry /\ x.object = e.object
    BY <2>2 DEF FileEntry
  <2>4. file'[f] = IF f \in Stored THEN e ELSE x
    BY <1>2, <2>1, <2>2
  <2> QED
    BY <2>1, <2>3, <2>4
<1>6. file' \in [Files -> FileEntry]
  <2>1. PICK F : F = file' /\ F = [f \in Files |-> F[f]]
    BY <1>2
  <2> QED
    BY <1>5, <2>1
<1>7. UploadFits'
  <2>1. \A f \in Files \ Stored : file[f].object
    BY <1>1, UploadIs DEF UploadFits
  <2>2. \A f \in Files : file[f].record => file[f].object
    BY UploadIs DEF UploadFits, RecordsHaveObjects
  <2>3. \A f \in Files : file'[f].record => file'[f].object
    BY <1>5, <2>1, <2>2
  <2> QED
    BY <1>1, <1>2, <1>3, <1>4, <2>3 DEF UploadFits, RecordsHaveObjects
<1>8. \A f \in Files : file'[f].record => file[f].record \/ (f \notin Stored /\ upload.pc # "done")
  BY <1>1, <1>5
<1>9. upload' = u /\ upload.pc # "done" /\ budget' \in [Events -> Nat]
  BY <1>1, <1>2, <1>3, UploadIs
<1> QED
  BY <1>2, <1>4, <1>6, <1>7, <1>8, <1>9, UploadKeeps

LEMMA UploadEnds ==
  ASSUME PostsInv, upload.pc \in {"put", "insert", "rollback"}, NEW step \in {"rollback", "done"},
         upload' = [upload EXCEPT !.pc = step], Spend("fault"),
         UNCHANGED <<post, version, file, request, worker, schedule, sent, kept>>
  PROVE  PostsInv'
<1>1. PICK v \in Uploads : v = upload /\ v.waiting \subseteq Files \ Stored
  BY UploadIs DEF UploadFits
<1>2. PICK u : u = [v EXCEPT !.pc = step]
  OBVIOUS
<1>3. u \in Uploads /\ u.pc = step /\ u.waiting = v.waiting
  BY <1>2 DEF Uploads
<1>4. "fault" \in Events
  BY DEF Events
<1>5. budget' \in [Events -> Nat]
  BY <1>4, SpendIs
<1>6. upload' = u /\ u.waiting \subseteq Files \ Stored /\ u.pc \notin {"insert", "put"}
  BY <1>1, <1>2, <1>3
<1> QED
  BY <1>3, <1>5, <1>6, UploadMoves

LEMMA InsertFailsStep ==
  ASSUME PostsInv, InsertFails
  PROVE  PostsInv'
  BY UploadEnds DEF InsertFails

LEMMA UploadDiesStep ==
  ASSUME PostsInv, UploadDies
  PROVE  PostsInv'
  BY UploadEnds DEF UploadDies

LEMMA RollbackStep ==
  ASSUME PostsInv, Rollback
  PROVE  PostsInv'
<1>1. PICK v \in Uploads : v = upload /\ v.pc = "rollback" /\ v.waiting \subseteq Files \ Stored
  BY UploadIs DEF Rollback, UploadFits
<1>2. PICK f \in v.waiting :
        /\ upload' = [v EXCEPT !.waiting = v.waiting \ {f}]
        /\ file' = [file EXCEPT ![f].object = FALSE] \/ UNCHANGED file
  BY <1>1 DEF Rollback
<1>3. f \in Files \ Stored
  BY <1>1
<1>4. PICK u : u = [v EXCEPT !.waiting = v.waiting \ {f}]
  OBVIOUS
<1>5. u \in Uploads /\ u.pc = "rollback" /\ u.waiting = v.waiting \ {f}
  BY <1>1, <1>4 DEF Uploads
<1>6. PICK e \in FileEntry : e = file[f]
  BY <1>3, UploadIs
<1>7. e.record = FALSE
  <2>1. ~e.record
    BY <1>1, <1>3, <1>6, UploadIs DEF UploadFits
  <2> QED
    BY <2>1 DEF FileEntry
<1>8. PICK x \in FileEntry : /\ x.record = e.record
                             /\ file' = [file EXCEPT ![f] = x]
  <2>1. CASE UNCHANGED file
    <3>1. file' = [file EXCEPT ![f] = e]
      BY <1>6, <2>1, UploadIs
    <3> QED
      BY <3>1
  <2>2. CASE file' = [file EXCEPT ![f].object = FALSE]
    <3>1. PICK x : x = [e EXCEPT !.object = FALSE]
      OBVIOUS
    <3>2. x \in FileEntry /\ x.record = e.record
      BY <3>1 DEF FileEntry
    <3>3. file' = [file EXCEPT ![f] = x]
      BY <1>6, <2>2, <3>1
    <3> QED
      BY <3>2, <3>3
  <2> QED
    BY <1>2, <2>1, <2>2
<1>9. file' \in [Files -> FileEntry] /\ file'[f] = x /\ \A g \in Files : g # f => file'[g] = file[g]
  BY <1>3, <1>8, UploadIs
<1>10. UploadFits'
  BY <1>1, <1>2, <1>3, <1>4, <1>5, <1>7, <1>8, <1>9, UploadIs DEF UploadFits, RecordsHaveObjects
<1>11. UNCHANGED <<post, version, request, worker, schedule, sent, kept, budget>>
  BY DEF Rollback
<1>12. \A g \in Files : file'[g].record => file[g].record
  BY <1>6, <1>8, <1>9
<1>13. upload' = u /\ upload.pc # "done" /\ budget' \in [Events -> Nat]
  BY <1>1, <1>2, <1>4, <1>11, UploadIs
<1> QED
  BY <1>5, <1>9, <1>10, <1>11, <1>12, <1>13, UploadKeeps

-----------------------------------------------------------------------------
(* The publish worker.                                                      *)

Workers == [pc : {"idle", "load", "send", "finish", "fail"}, number : 0..MaxVersion, media : SUBSET Files]

LEMMA WorkerKeeps ==
  ASSUME PostsInv, UNCHANGED <<version, file, request, upload, kept>>,
         post' \in Post, post'.exists = post.exists,
         post'.status \in OnItsWay => post.status \in OnItsWay,
         worker' \in Workers, budget' \in [Events -> Nat],
         schedule' \in {"none", "live", "sending", "cancelled", "published", "failed"},
         schedule' \in Upcoming => schedule \in Upcoming,
         sent' \in [number : 0..MaxVersion, media : SUBSET Files], WorkerFits'
  PROVE  PostsInv'
<1>1. PostsTypeOK'
  BY TypeIs DEF PostsTypeOK, Workers
<1>2. HistoryStays
  <2>1. Readable' => Readable
    BY ReadableStays
  <2> QED
    BY <2>1, SameHistory
<1>3. Steady
  BY <1>2 DEF Steady
<1>4. EditsAreKept'
  BY <1>2, EditsStay
<1>5. UploadFits'
  BY DEF PostsInv, UploadFits, RecordsHaveObjects
<1>6. \A g \in Requests :
        request'[g] = request[g] \/ \E r \in Request : request'[g] = r /\ Fits(r)'
  OBVIOUS
<1> QED
  BY <1>1, <1>3, <1>4, <1>5, <1>6, SteadyKeeps

LEMMA WorkerIs ==
  ASSUME PostsInv
  PROVE  worker \in Workers /\ WorkerFits
  BY TypeIs DEF PostsInv, Workers

LEMMA LoadPlanStep ==
  ASSUME PostsInv, LoadPlan
  PROVE  PostsInv'
<1>1. PICK w \in Workers : w = worker /\ w.pc = "load"
  BY WorkerIs DEF LoadPlan
<1>2. UNCHANGED <<post, version, file, request, upload, schedule, sent, kept, budget>>
  BY DEF LoadPlan
<1>3. PICK x \in Workers : worker' = x /\ x.pc # "idle"
  <2>1. CASE worker' = [worker EXCEPT !.pc = "fail"]
    <3>1. PICK x : x = [w EXCEPT !.pc = "fail"]
      OBVIOUS
    <3>2. x \in Workers /\ x.pc = "fail"
      BY <3>1 DEF Workers
    <3> QED
      BY <1>1, <2>1, <3>1, <3>2
  <2>2. CASE worker' # [worker EXCEPT !.pc = "fail"]
    <3>1. PICK n, media : /\ n = post.current /\ media = version[n].media \cap Library
                          /\ worker' = [pc |-> "send", number |-> n, media |-> media]
      BY <2>2 DEF LoadPlan
    <3>2. n \in 0 .. MaxVersion /\ media \subseteq Files
      BY <3>1, TypeIs DEF Post, Library
    <3>3. PICK x : x = [pc |-> "send", number |-> n, media |-> media]
      OBVIOUS
    <3>4. x \in Workers /\ x.pc = "send"
      BY <3>2, <3>3 DEF Workers
    <3> QED
      BY <3>1, <3>3, <3>4
  <2> QED
    BY <2>1, <2>2
<1>4. WorkerFits'
  BY <1>1, <1>2, <1>3, WorkerIs DEF WorkerFits
<1>5. /\ post' \in Post /\ budget' \in [Events -> Nat]
      /\ schedule' \in {"none", "live", "sending", "cancelled", "published", "failed"}
      /\ sent' \in [number : 0..MaxVersion, media : SUBSET Files]
  BY <1>2, TypeIs
<1> QED
  BY <1>2, <1>3, <1>4, <1>5, WorkerKeeps

LEMMA SendStep ==
  ASSUME PostsInv, Send
  PROVE  PostsInv'
<1>1. PICK w \in Workers : w = worker /\ w.pc = "send"
  BY WorkerIs DEF Send
<1>2. UNCHANGED <<post, version, file, request, upload, schedule, kept, budget>>
  BY DEF Send
<1>3. PICK step \in {"finish", "fail"} : worker' = [worker EXCEPT !.pc = step]
  BY DEF Send
<1>4. PICK x : x = [w EXCEPT !.pc = step]
  OBVIOUS
<1>5. x \in Workers /\ x.pc = step /\ worker' = x
  BY <1>1, <1>3, <1>4 DEF Workers
<1>6. sent' \in [number : 0..MaxVersion, media : SUBSET Files]
  <2>1. sent' = sent \/ sent' = [number |-> w.number, media |-> w.media]
    BY <1>1 DEF Send
  <2>2. w.number \in 0 .. MaxVersion /\ w.media \in SUBSET Files
    BY DEF Workers
  <2> QED
    BY <2>1, <2>2, TypeIs
<1>7. WorkerFits'
  BY <1>1, <1>2, <1>3, <1>5, WorkerIs DEF WorkerFits
<1>8. /\ post' \in Post /\ budget' \in [Events -> Nat]
      /\ schedule' \in {"none", "live", "sending", "cancelled", "published", "failed"}
  BY <1>2, TypeIs
<1> QED
  BY <1>2, <1>5, <1>6, <1>7, <1>8, WorkerKeeps

LEMMA SettleStep ==
  ASSUME PostsInv, NEW step \in {"finish", "fail"}, NEW outcome \in {"published", "failed"},
         NEW status \in {"PUBLISHED", "FAILED"}, Settle(step, outcome, status)
  PROVE  PostsInv'
<1>1. PICK w \in Workers : w = worker /\ w.pc = step
  BY WorkerIs DEF Settle
<1>2. PICK p \in Post : p = post /\ p.status = "PUBLISHING"
  BY <1>1, TypeIs, WorkerIs DEF WorkerFits
<1>3. /\ schedule' = outcome /\ UNCHANGED <<version, file, request, upload, sent, kept, budget>>
      /\ post' = (IF p.exists THEN [p EXCEPT !.status = status] ELSE p)
      /\ worker' = [w EXCEPT !.pc = "idle"]
  BY <1>1, <1>2 DEF Settle
<1>4. PICK x : x = [w EXCEPT !.pc = "idle"]
  OBVIOUS
<1>5. x \in Workers /\ x.pc = "idle"
  BY <1>4 DEF Workers
<1>6. PICK y : y = [p EXCEPT !.status = status]
  OBVIOUS
<1>7. y \in Post /\ y.exists = p.exists
  BY <1>6 DEF Post, Statuses
<1>8. post' \in Post /\ post'.exists = post.exists
  BY <1>2, <1>3, <1>6, <1>7
<1>9. WorkerFits'
  BY <1>3, <1>4, <1>5 DEF WorkerFits, Upcoming
<1>10. post.status \in OnItsWay /\ schedule' \notin Upcoming
  BY <1>2, <1>3 DEF OnItsWay, Upcoming
<1>11. /\ budget' \in [Events -> Nat] /\ worker' \in Workers
       /\ schedule' \in {"none", "live", "sending", "cancelled", "published", "failed"}
       /\ sent' \in [number : 0..MaxVersion, media : SUBSET Files]
  BY <1>3, <1>4, <1>5, TypeIs
<1> QED
  BY <1>3, <1>8, <1>9, <1>10, <1>11, WorkerKeeps

LEMMA ClaimStep ==
  ASSUME PostsInv, Claim
  PROVE  PostsInv'
<1>1. /\ worker.pc = "idle" /\ schedule = "live" /\ schedule' = "sending" /\ Spend("claim")
      /\ "claim" \in Events /\ UNCHANGED <<version, file, upload, sent, kept>>
  BY DEF Claim, Events
<1>2. PICK p \in Post : p = post /\ p.exists
  BY <1>1, TypeIs, WorkerIs DEF WorkerFits, Upcoming
<1>3. PICK y : y = [p EXCEPT !.status = "PUBLISHING"]
  OBVIOUS
<1>4. post' = y /\ y \in Post /\ y.exists /\ y.status = "PUBLISHING" /\ y.current = p.current
  BY <1>2, <1>3 DEF Claim, Post, Statuses
<1>5. PICK w \in Workers : w = worker
  BY WorkerIs
<1>6. PICK x : x = [w EXCEPT !.pc = "load"]
  OBVIOUS
<1>7. worker' = x /\ x \in Workers /\ x.pc = "load"
  BY <1>5, <1>6 DEF Claim, Workers
<1>8. ASSUME NEW h \in Requests
      PROVE  \E q \in Request : /\ request'[h] = q /\ q.pc = request[h].pc /\ Fits(q)'
  <2>1. PICK r \in Request : r = request[h] /\ Fits(r)
    BY RequestIs
  <2>2. PICK b \in BOOLEAN : b = (r.pc # "idle")
    BY Zenon
  <2>3. PICK q : q = [r EXCEPT !.late = b]
    OBVIOUS
  <2>4. /\ q \in Request /\ q.pc = r.pc /\ q.late = b /\ q.number = r.number /\ q.count = r.count
        /\ q.media = r.media /\ q.tries = r.tries /\ q.author = r.author
    BY <2>3 DEF Request
  <2>5. request'[h] = q
    BY <2>1, <2>2, <2>3 DEF Claim
  <2>6. q.pc \in Writing => q.late
    BY <2>2, <2>4 DEF Writing
  <2>7. Readable' => Readable
    <3>1. \A g \in Requests : request'[g].pc = request[g].pc
      <4>1. ASSUME NEW g \in Requests PROVE request'[g].pc = request[g].pc
        <5>1. PICK s \in Request : s = request[g]
          BY RequestIs
        <5>2. request'[g] = [s EXCEPT !.late = request[g].pc # "idle"]
          BY <5>1 DEF Claim
        <5> QED
          BY <5>1, <5>2 DEF Request
      <4> QED
        BY <4>1
    <3> QED
      BY <1>2, <3>1 DEF Readable, BeingDeleted, At
  <2>8. Latest' = Latest
    BY <1>1, LatestIs
  <2>9. r.pc \notin {"deleteVersions", "deletePost"}
    BY <1>1, <2>1 DEF Fits, Upcoming
  <2>10. Readable' /\ q.pc = "save" =>
           q.number <= Latest' /\ (TooOld(q.number, Latest') \/ StoredBy(q.number, q.author)')
    BY <1>1, <2>1, <2>4, <2>7, <2>8 DEF Fits, StoredBy
  <2>11. Fits(q)'
    BY <1>1, <2>1, <2>4, <2>6, <2>7, <2>8, <2>9, <2>10 DEF Fits, TooOld
  <2> QED
    BY <2>1, <2>4, <2>5, <2>11
<1>9. request' \in [Requests -> Request]
  <2>1. PICK R : R = request' /\ R = [h \in Requests |-> R[h]]
    BY DEF Claim
  <2> QED
    BY <1>8, <2>1
<1>10. PostsTypeOK'
  <2>1. budget' \in [Events -> Nat]
    BY <1>1, SpendIs
  <2> QED
    BY <1>1, <1>4, <1>7, <1>9, <2>1, TypeIs DEF PostsTypeOK, Workers
<1>11. HistoryStays
  <2>1. Readable' => Readable
    BY <1>2, <1>8, ReadableStays
  <2> QED
    BY <1>1, <2>1, SameHistory
<1>12. EditsAreKept'
  BY <1>1, <1>11, EditsStay
<1>13. UploadFits'
  BY <1>1 DEF PostsInv, UploadFits, RecordsHaveObjects
<1>14. WorkerFits'
  BY <1>1, <1>4, <1>7 DEF WorkerFits
<1>15. ASSUME NEW h \in Requests PROVE Fits(request[h])'
  <2>1. PICK q \in Request : request'[h] = q /\ Fits(q)'
    BY <1>8
  <2> QED
    BY <2>1 DEF Fits
<1> QED
  BY <1>10, <1>12, <1>13, <1>14, <1>15 DEF PostsInv

-----------------------------------------------------------------------------
LEMMA PostsStepKeeps ==
  ASSUME PostsInv, [PostsNext]_postVars
  PROVE  PostsInv'
<1>1. ASSUME NEW h \in Requests, RequestNext(h) PROVE PostsInv'
  BY <1>1, EditStep, RestoreStep, RewriteStep, WrittenStep, NumberStep, CreateStep, SavingStep, PruneStep,
     DeleteStep, CancelStep, DeleteVersionsStep, DeletePostStep, RemoveFileStep, RemoveObjectStep,
     Zenon DEF RequestNext
<1>2. ASSUME UploadNext PROVE PostsInv'
  BY <1>2, UploadStep, PutObjectStep, PutFailsStep, PutDoneStep, InsertStep, InsertFailsStep,
     RollbackStep, UploadDiesStep, Zenon DEF UploadNext
<1>3. ASSUME WorkerNext PROVE PostsInv'
  <2>1. Finish => PostsInv'
    BY SettleStep DEF Finish
  <2>2. Fail => PostsInv'
    BY SettleStep DEF Fail
  <2> QED
    BY <1>3, <2>1, <2>2, ClaimStep, LoadPlanStep, SendStep, Zenon DEF WorkerNext
<1>4. CASE UNCHANGED postVars
  <2>1. UNCHANGED <<post, version, file, request, upload, worker, schedule, sent, kept, budget>>
    BY <1>4 DEF postVars
  <2>2. PostsTypeOK'
    BY <2>1, TypeIs DEF PostsTypeOK
  <2>3. UploadFits' /\ WorkerFits'
    BY <2>1 DEF PostsInv, UploadFits, RecordsHaveObjects, WorkerFits
  <2>4. Readable' => Readable
    BY <2>1, ReadableStays
  <2>5. HistoryStays
    BY <2>1, <2>4, SameHistory
  <2>6. Steady
    BY <2>1, <2>5 DEF Steady
  <2>7. EditsAreKept'
    BY <2>1, <2>5, EditsStay
  <2>8. \A g \in Requests :
          request'[g] = request[g] \/ \E q \in Request : request'[g] = q /\ Fits(q)'
    BY <2>1
  <2> QED
    BY <2>2, <2>3, <2>6, <2>7, <2>8, SteadyKeeps
<1> QED
  BY <1>1, <1>2, <1>3, <1>4, Zenon DEF PostsNext

LEMMA PostsStart == PostsInit => PostsInv
<1> SUFFICES ASSUME PostsInit PROVE PostsInv
  OBVIOUS
<1>1. PICK written \in BOOLEAN, queued \in BOOLEAN :
        /\ queued => written
        /\ post = [exists |-> TRUE, status |-> IF queued THEN "SCHEDULED" ELSE "READY",
                   current |-> IF written THEN 1 ELSE 0, count |-> IF written THEN 1 ELSE 0]
        /\ version = [n \in Numbers |->
             IF n = 1 /\ written THEN [stored |-> TRUE, author |-> 0, media |-> Stored]
             ELSE NoVersion]
        /\ schedule = IF queued THEN "live" ELSE "none"
  BY DEF PostsInit
<1>2. /\ file = [f \in Files |-> [record |-> f \in Stored, object |-> f \in Stored]]
      /\ request = [h \in Requests |-> Idle]
      /\ upload = [pc |-> "ready", waiting |-> {}, failed |-> FALSE]
      /\ worker = [pc |-> "idle", number |-> 0, media |-> {}]
      /\ sent = Nothing /\ kept = {} /\ budget \in [Events -> Nat]
  BY BoundsAssumption DEF PostsInit
<1>3. MaxVersion \in Nat /\ 1 \in 0 .. MaxVersion /\ 0 \in 0 .. MaxVersion
  BY BoundsAssumption
<1>4. post \in Post
  BY <1>1, <1>3 DEF Post, Statuses
<1>5. version \in [Numbers -> Version]
  <2>1. [stored |-> TRUE, author |-> 0, media |-> Stored] \in Version /\ NoVersion \in Version
    BY FilesAssumption DEF Version, NoVersion
  <2> QED
    BY <1>1, <2>1
<1>6. file \in [Files -> [record : BOOLEAN, object : BOOLEAN]] /\ \A f \in Files :
        (file[f].record <=> f \in Stored) /\ (file[f].object <=> f \in Stored)
  <2>2. ASSUME NEW f \in Files PROVE file[f] \in [record : BOOLEAN, object : BOOLEAN]
    <3>1. file[f] = [record |-> f \in Stored, object |-> f \in Stored]
      BY <1>2
    <3>2. CASE f \in Stored
      <4>1. file[f] = [record |-> TRUE, object |-> TRUE]
        BY <3>1, <3>2
      <4> QED
        BY <4>1
    <3>3. CASE f \notin Stored
      <4>1. (f \in Stored) = FALSE
        BY <3>3, SMT
      <4>2. file[f] = [record |-> FALSE, object |-> FALSE]
        BY <3>1, <4>1, Zenon
      <4> QED
        BY <4>2
    <3> QED
      BY <3>2, <3>3
  <2>3. ASSUME NEW f \in Files
        PROVE  file[f].record = (f \in Stored) /\ file[f].object = (f \in Stored)
    BY <1>2
  <2>4. file = [f \in Files |-> file[f]]
    BY <1>2
  <2>5. file \in [Files -> [record : BOOLEAN, object : BOOLEAN]]
    BY <2>2, <2>4
  <2> QED
    BY <2>3, <2>5, Zenon
<1>7. Idle \in Request /\ Idle.pc = "idle"
  BY <1>3 DEF Idle, Request, Steps
<1>8. PostsTypeOK
  <2>1. schedule \in {"none", "live", "sending", "cancelled", "published", "failed"}
    BY <1>1
  <2>2. request \in [Requests -> Request]
    BY <1>2, <1>7
  <2>3. /\ upload \in [pc : {"ready", "put", "insert", "rollback", "done"},
                       waiting : SUBSET Files, failed : BOOLEAN]
        /\ worker \in [pc : {"idle", "load", "send", "finish", "fail"},
                       number : 0..MaxVersion, media : SUBSET Files]
        /\ sent \in [number : 0..MaxVersion, media : SUBSET Files]
    BY <1>2, <1>3 DEF Nothing
  <2> QED
    BY <1>2, <1>4, <1>5, <1>6, <2>1, <2>2, <2>3 DEF PostsTypeOK
<1>9. UploadFits
  BY <1>2, <1>6 DEF UploadFits, RecordsHaveObjects
<1>10. WorkerFits
  BY <1>1, <1>2 DEF WorkerFits
<1>11. EditsAreKept
  BY <1>2 DEF EditsAreKept
<1>12. \A h \in Requests : Fits(request[h])
  BY <1>2, <1>7, IdleFits
<1> QED
  BY <1>8, <1>9, <1>10, <1>11, <1>12 DEF PostsInv

(* What a step may make of a post that is on its way.                       *)
KeepsRecord ==
  post.status \in {"PUBLISHING", "PUBLISHED"} /\ post'.current # post.current =>
    \E h \in Requests : request[h].late /\ At(h, "save")

LEMMA StepKeepsRecord ==
  ASSUME PostsInv, [PostsNext]_postVars
  PROVE  KeepsRecord
<1>1. PICK p \in Post : p = post
  BY TypeIs
<1>2. CASE UNCHANGED post
  BY <1>2 DEF KeepsRecord
<1>3. ASSUME NEW h \in Requests, Save(h) PROVE KeepsRecord
  <2>1. At(h, "save") /\ Fits(request[h])
    BY <1>3, RequestIs DEF Save
  <2>2. post.status \in OnItsWay => request[h].late
    BY <2>1 DEF At, Fits, Writing
  <2> QED
    BY <2>1, <2>2 DEF KeepsRecord, OnItsWay
<1>4. ASSUME \/ \E h \in Requests : DeletePost(h)
             \/ Claim \/ Finish \/ Fail
      PROVE  KeepsRecord
  <2>1. PICK status \in Statuses :
          \/ post' = [p EXCEPT !.exists = FALSE] \/ post' = [p EXCEPT !.status = status] \/ post' = p
    BY <1>1, <1>4 DEF DeletePost, Claim, Finish, Fail, Settle, Statuses
  <2>2. post'.current = p.current
    BY <2>1 DEF Post
  <2> QED
    BY <1>1, <2>2 DEF KeepsRecord
<1>5. ASSUME NEW h \in Requests,
             \/ Edit(h) \/ Restore(h) \/ Rewrite(h) \/ Written(h) \/ Number(h) \/ Create(h)
             \/ Prune(h) \/ Delete(h) \/ Cancel(h) \/ DeleteVersions(h) \/ RemoveFile(h) \/ RemoveObject(h)
      PROVE  UNCHANGED post
  BY <1>5 DEF Edit, Restore, Rewrite, Written, Number, Create, Prune, Delete, Cancel, DeleteVersions,
     RemoveFile, RemoveObject
<1>6. ASSUME UploadNext \/ LoadPlan \/ Send PROVE UNCHANGED post
  BY <1>6 DEF UploadNext, Upload, PutObject, PutFails, PutDone, Insert, InsertFails, Rollback, UploadDies,
     LoadPlan, Send
<1>7. UNCHANGED postVars => UNCHANGED post
  BY DEF postVars
<1> QED
  BY <1>2, <1>3, <1>4, <1>5, <1>6, <1>7, Zenon DEF PostsNext, RequestNext, WorkerNext

-----------------------------------------------------------------------------
(* The post's current version.  It can only be lost to more writers than a  *)
(* post keeps versions, all of them between two steps of one request.       *)

(* No request is overtaken by as many versions as are kept.                 *)
Timely ==
  \A h \in Requests : request[h].pc \in {"create", "save"} => ~TooOld(request[h].number, Latest)

SentFits ==
  worker.pc = "send" =>
    /\ worker.number \in Numbers
    /\ IF version[worker.number].stored THEN worker.media = version[worker.number].media
       ELSE TooOld(worker.number, Latest)

HistoryFits ==
  /\ CurrentStands
  /\ Readable /\ post.current # 0 =>
       \A h \in Requests : request[h].pc = "prune" => ~TooOld(post.current, request[h].count)
  /\ SentFits

(* The post is there as long as the worker is at work on it.                *)
LEMMA SendingReadable ==
  ASSUME PostsInv, worker.pc # "idle"
  PROVE  Readable
<1>1. schedule = "sending" /\ post.exists
  BY DEF PostsInv, WorkerFits, Upcoming
<1>2. ASSUME NEW h \in Requests PROVE request[h].pc # "deletePost"
  BY <1>1, RequestIs DEF Fits, Upcoming
<1> QED
  BY <1>1, <1>2 DEF Readable, BeingDeleted, At

(* A step that takes no version and makes none current.                     *)
Calm ==
  /\ UNCHANGED version /\ post'.current = post.current
  /\ Readable' => Readable
  /\ worker' = worker \/ worker'.pc # "send"
  /\ \A g \in Requests : request'[g].pc = "prune" =>
       request[g].pc = "prune" /\ request'[g].count = request[g].count

LEMMA CalmKeeps ==
  ASSUME PostsInv, HistoryFits, Calm
  PROVE  HistoryFits'
<1>1. Latest' = Latest
  BY LatestIs DEF Calm
<1>2. CurrentStands'
  BY DEF HistoryFits, CurrentStands, Calm
<1>3. Readable' /\ post'.current # 0 =>
        \A h \in Requests : request'[h].pc = "prune" => ~TooOld(post'.current, request'[h].count)
  BY DEF HistoryFits, Calm
<1>4. SentFits'
  BY <1>1 DEF HistoryFits, SentFits, Calm, TooOld
<1> QED
  BY <1>2, <1>3, <1>4 DEF HistoryFits, TooOld

LEMMA CalmRequest ==
  ASSUME PostsInv, NEW h \in Requests, UNCHANGED <<version, worker>>, post'.current = post.current,
         post'.exists => post.exists, request[h].pc # "deletePost" \/ ~ post'.exists,
         request'[h].pc # "prune", \A g \in Requests : g # h => request'[g] = request[g]
  PROVE  Calm
<1>1. Readable' => Readable
  BY ReadableStays
<1> QED
  BY <1>1 DEF Calm

LEMMA DoneHere ==
  ASSUME PostsInv, NEW h \in Requests, Done(h)
  PROVE  request'[h].pc = "idle" /\ \A g \in Requests : g # h => request'[g] = request[g]
<1>1. PICK q \in Request : request' = [request EXCEPT ![h] = q] /\ q.pc = "idle"
  BY DoneIs
<1> QED
  BY <1>1, OneMoves

LEMMA GotoHere ==
  ASSUME PostsInv, NEW h \in Requests, NEW step \in Steps, Goto(h, step)
  PROVE  request'[h].pc = step /\ \A g \in Requests : g # h => request'[g] = request[g]
<1>1. PICK q \in Request : request' = [request EXCEPT ![h] = q] /\ q.pc = step
  BY GotoIs
<1> QED
  BY <1>1, OneMoves

LEMMA BeginCalm ==
  ASSUME PostsInv, NEW h \in Requests, NEW step \in {"number", "write", "cancel"},
         NEW media \in SUBSET Files, Begin(h, step, media), UNCHANGED <<post, version, worker>>
  PROVE  Calm
<1>1. step \in Steps
  BY DEF Steps
<1>2. PICK q \in Request : request' = [request EXCEPT ![h] = q] /\ q.pc = step
  BY <1>1, BeginIs
<1>3. request[h].pc = "idle"
  BY <1>1, BeginIs
<1>4. request'[h].pc # "prune" /\ \A g \in Requests : g # h => request'[g] = request[g]
  BY <1>2, OneMoves
<1> QED
  BY <1>3, <1>4, CalmRequest

LEMMA BeginsCalm ==
  ASSUME PostsInv, NEW h \in Requests, Edit(h) \/ Restore(h) \/ Rewrite(h) \/ Delete(h)
  PROVE  Calm
<1>1. UNCHANGED <<post, version, worker>>
  BY DEF Edit, Restore, Rewrite, Delete
<1>2. CASE Edit(h)
  <2>1. PICK media \in SUBSET Library : Begin(h, "number", media)
    BY <1>2 DEF Edit
  <2>2. media \in SUBSET Files
    BY <2>1 DEF Library
  <2> QED
    BY <1>1, <2>1, <2>2, BeginCalm
<1>3. CASE Restore(h)
  <2>1. PICK n \in Numbers : version[n].media \subseteq Library /\ Begin(h, "number", version[n].media)
    BY <1>3 DEF Restore
  <2>2. PICK media \in SUBSET Files : media = version[n].media
    BY <2>1 DEF Library
  <2> QED
    BY <1>1, <2>1, <2>2, BeginCalm
<1>4. CASE Rewrite(h) \/ Delete(h)
  <2>1. PICK media \in SUBSET Files : media = {}
    OBVIOUS
  <2>2. Begin(h, "write", media) \/ Begin(h, "cancel", media)
    BY <1>4, <2>1 DEF Rewrite, Delete
  <2> QED
    BY <1>1, <2>2, BeginCalm
<1> QED
  BY <1>2, <1>3, <1>4

LEMMA MovesCalm ==
  ASSUME PostsInv, NEW h \in Requests, Written(h) \/ Number(h) \/ Cancel(h)
  PROVE  Calm
<1>1. UNCHANGED <<post, version, worker>> /\ request[h].pc # "deletePost"
  BY DEF Written, Number, Cancel, At
<1>2. request'[h].pc # "prune" /\ \A g \in Requests : g # h => request'[g] = request[g]
  <2>1. CASE Done(h)
    BY <2>1, DoneHere
  <2>2. CASE Goto(h, "deleteVersions")
    <3>1. "deleteVersions" \in Steps
      BY DEF Steps
    <3> QED
      BY <2>2, <3>1, GotoHere
  <2>3. CASE Written(h) /\ ~Done(h)
    <3>1. PICK media : request' = [request EXCEPT ![h].pc = "number", ![h].media = media]
      BY <2>3 DEF Written
    <3>2. PICK p \in Request : p = request[h]
      BY RequestIs
    <3>3. PICK q : q = [p EXCEPT !.pc = "number", !.media = media]
      OBVIOUS
    <3>4. q.pc = "number"
      BY <3>3 DEF Request
    <3>5. request' = [request EXCEPT ![h] = q]
      BY <3>1, <3>2, <3>3
    <3> QED
      BY <3>4, <3>5, TypeIs
  <2>4. CASE Number(h)
    <3>1. PICK n, t : request' = [request EXCEPT ![h].pc = "create", ![h].number = n, ![h].tries = t]
      BY <2>4 DEF Number
    <3>2. PICK p \in Request : p = request[h]
      BY RequestIs
    <3>3. PICK q1 : q1 = [p EXCEPT !.pc = "create", !.number = n]
      OBVIOUS
    <3>4. q1.pc = "create" /\ DOMAIN q1 = DOMAIN p
      BY <3>3 DEF Request
    <3>5. PICK q : q = [q1 EXCEPT !.tries = t]
      OBVIOUS
    <3>6. q.pc = "create"
      BY <3>4, <3>5
    <3>7. request' = [request EXCEPT ![h] = q]
      BY <3>1, <3>2, <3>3, <3>5
    <3> QED
      BY <3>6, <3>7, TypeIs
  <2> QED
    BY <2>1, <2>2, <2>3, <2>4 DEF Cancel
<1> QED
  BY <1>1, <1>2, CalmRequest

LEMMA FilesCalm ==
  ASSUME PostsInv, NEW h \in Requests, RemoveFile(h) \/ RemoveObject(h)
  PROVE  Calm
<1>1. UNCHANGED <<post, version, worker>> /\ request[h].pc # "deletePost"
  BY DEF RemoveFile, RemoveObject, At
<1>2. request'[h].pc # "prune" /\ \A g \in Requests : g # h => request'[g] = request[g]
  <2>1. CASE RemoveFile(h)
    <3>1. PICK f : request' = [request EXCEPT ![h] = [Idle EXCEPT !.pc = "removeObject", !.media = {f}]]
      BY <2>1 DEF RemoveFile
    <3>2. PICK q : q = [Idle EXCEPT !.pc = "removeObject", !.media = {f}]
      OBVIOUS
    <3>3. q.pc = "removeObject"
      BY <3>2 DEF Idle
    <3> QED
      BY <3>1, <3>2, <3>3, TypeIs
  <2>2. CASE RemoveObject(h)
    BY <2>2, DoneHere DEF RemoveObject
  <2> QED
    BY <2>1, <2>2
<1> QED
  BY <1>1, <1>2, CalmRequest

LEMMA DeletePostCalm ==
  ASSUME PostsInv, NEW h \in Requests, DeletePost(h)
  PROVE  Calm
<1>1. PICK w \in Post : w = post
  BY TypeIs
<1>2. PICK x : x = [w EXCEPT !.exists = FALSE]
  OBVIOUS
<1>3. post' = x /\ x.current = w.current /\ x.exists = FALSE
  BY <1>1, <1>2 DEF DeletePost, Post
<1>4. UNCHANGED <<version, worker>> /\ Done(h)
  BY DEF DeletePost
<1>5. request'[h].pc = "idle" /\ \A g \in Requests : g # h => request'[g] = request[g]
  BY <1>4, DoneHere
<1>6. post'.current = post.current /\ ~ post'.exists
  BY <1>1, <1>3
<1> QED
  BY <1>4, <1>5, <1>6, CalmRequest

LEMMA UploadCalm ==
  ASSUME PostsInv, UploadNext \/ UNCHANGED postVars
  PROVE  Calm
<1>1. UNCHANGED <<post, version, worker, request>>
  BY DEF UploadNext, Upload, PutObject, PutFails, PutDone, Insert, InsertFails, Rollback, UploadDies, postVars
<1>2. Readable' => Readable
  BY <1>1, ReadableStays
<1> QED
  BY <1>1, <1>2 DEF Calm

LEMMA WorkerCalm ==
  ASSUME PostsInv, Claim \/ Send \/ Finish \/ Fail
  PROVE  Calm
<1>1. PICK w \in Post, status \in Statuses : w = post /\
        (post' = [w EXCEPT !.status = status] \/ post' = w)
  BY TypeIs DEF Claim, Send, Finish, Fail, Settle, Statuses
<1>2. post'.current = post.current /\ post'.exists = post.exists
  BY <1>1 DEF Post
<1>3. UNCHANGED version
  BY DEF Claim, Send, Finish, Fail, Settle
<1>4. ASSUME NEW g \in Requests
      PROVE  request'[g].pc = request[g].pc /\ request'[g].count = request[g].count
  <2>1. CASE Claim
    <3>1. PICK p \in Request : p = request[g]
      BY RequestIs
    <3>2. PICK late : request'[g] = [p EXCEPT !.late = late]
      BY <2>1, <3>1 DEF Claim
    <3>3. PICK q : q = [p EXCEPT !.late = late] /\ request'[g] = q
      BY <3>2
    <3>4. q.pc = p.pc /\ q.count = p.count
      BY <3>3 DEF Request
    <3> QED
      BY <3>1, <3>3, <3>4
  <2>2. CASE UNCHANGED request
    BY <2>2
  <2> QED
    BY <2>1, <2>2 DEF Send, Finish, Fail, Settle
<1>5. Readable' => Readable
  BY <1>2, <1>4, ReadableStays
<1>6. worker'.pc # "send"
  <2>1. PICK v \in Workers : v = worker
    BY WorkerIs
  <2>2. PICK step \in {"load", "finish", "fail", "idle"} : worker' = [v EXCEPT !.pc = step]
    BY <2>1 DEF Claim, Send, Finish, Fail, Settle
  <2>3. worker'.pc = step
    BY <2>2 DEF Workers
  <2> QED
    BY <2>3
<1> QED
  BY <1>2, <1>3, <1>4, <1>5, <1>6 DEF Calm

LEMMA CreateHistory ==
  ASSUME PostsInv, HistoryFits, Timely, NEW h \in Requests, Create(h)
  PROVE  HistoryFits'
<1>1. PICK p \in Request : p = request[h] /\ Fits(p)
  BY RequestIs
<1>2. p.pc = "create" /\ p.number \in Numbers /\ UNCHANGED <<post, worker>>
  BY <1>1 DEF Create, At, Fits
<1>3. CASE version[p.number].stored
  <2>1. UNCHANGED version /\ (Goto(h, "number") \/ Done(h)) /\ "number" \in Steps
    BY <1>1, <1>3 DEF Create, Duplicate, Steps
  <2>2. request'[h].pc # "prune" /\ \A g \in Requests : g # h => request'[g] = request[g]
    BY <2>1, DoneHere, GotoHere
  <2> QED
    BY <1>1, <1>2, <2>1, <2>2, CalmRequest, CalmKeeps
<1>4. CASE ~version[p.number].stored
  <2>1. PICK v : v = [stored |-> TRUE, author |-> p.author, media |-> p.media]
    OBVIOUS
  <2>2. v \in Version /\ v.stored
    BY <2>1 DEF Version, Request
  <2>3. version' = [version EXCEPT ![p.number] = v] /\ Goto(h, "save") /\ "save" \in Steps
    BY <1>1, <1>4, <2>1 DEF Create, Duplicate, Steps
  <2>4. request'[h].pc = "save" /\ \A g \in Requests : g # h => request'[g] = request[g]
    BY <2>3, GotoHere
  <2>5. Readable' => Readable
    BY <1>1, <1>2, <2>4, ReadableStays
  <2>6. Latest <= Latest'
    BY <1>2, <1>4, <2>2, <2>3, <2>5, HistoryGrows
  <2>7. /\ version'[p.number] = v
        /\ \A m \in Numbers : m # p.number => version'[m] = version[m]
    BY <1>2, <2>3, TypeIs
  <2>8. post.current # 0 => post.current \in Numbers
    BY TypeIs, BoundsAssumption DEF Post, Numbers
  <2>9. CurrentStands'
    BY <1>2, <2>2, <2>5, <2>7, <2>8 DEF HistoryFits, CurrentStands
  <2>10. Readable' /\ post'.current # 0 =>
           \A g \in Requests : request'[g].pc = "prune" => ~TooOld(post'.current, request'[g].count)
    BY <1>2, <2>4, <2>5 DEF HistoryFits
  <2>11. SentFits'
    <3> SUFFICES ASSUME worker.pc = "send"
                 PROVE  /\ worker.number \in Numbers
                        /\ IF version'[worker.number].stored
                             THEN worker.media = version'[worker.number].media
                             ELSE TooOld(worker.number, Latest')
      BY <1>2 DEF SentFits, TooOld
    <3>1. /\ worker.number \in Numbers
          /\ IF version[worker.number].stored THEN worker.media = version[worker.number].media
             ELSE TooOld(worker.number, Latest)
      BY DEF HistoryFits, SentFits
    <3>2. ~TooOld(p.number, Latest)
      BY <1>1, <1>2 DEF Timely
    <3>3. worker.number # p.number
      BY <1>4, <3>1, <3>2
    <3>4. TooOld(worker.number, Latest) => TooOld(worker.number, Latest')
      BY <2>6, <3>1, LatestTyped, BoundsAssumption DEF TooOld, Numbers
    <3> QED
      BY <2>7, <3>1, <3>3, <3>4
  <2> QED
    BY <2>9, <2>10, <2>11 DEF HistoryFits, TooOld
<1> QED
  BY <1>3, <1>4

LEMMA SaveHistory ==
  ASSUME PostsInv, HistoryFits, Timely, NEW h \in Requests, Save(h)
  PROVE  HistoryFits'
<1>1. PICK p \in Request : p = request[h] /\ Fits(p)
  BY RequestIs
<1>2. p.pc = "save" /\ p.number \in Numbers /\ UNCHANGED <<version, worker>>
  BY <1>1 DEF Save, At, Fits
<1>3. CASE ~post.exists
  <2>1. Done(h) /\ UNCHANGED post
    BY <1>3 DEF Save
  <2>2. request'[h].pc # "prune" /\ \A g \in Requests : g # h => request'[g] = request[g]
    BY <2>1, DoneHere
  <2> QED
    BY <1>1, <1>2, <2>1, <2>2, CalmRequest, CalmKeeps
<1>4. CASE post.exists
  <2>1. PICK w \in Post, n \in Numbers : w = post /\ n = p.number
    BY <1>2, TypeIs
  <2>2. /\ post' = [w EXCEPT !.current = n, !.count = n]
        /\ request' = [request EXCEPT ![h].pc = "prune", ![h].count = n]
    BY <1>1, <1>4, <2>1 DEF Save
  <2>3. PICK x : x = [w EXCEPT !.current = n, !.count = n]
    OBVIOUS
  <2>4. post' = x /\ x.current = n /\ x.exists = w.exists
    BY <2>1, <2>2, <2>3 DEF Post
  <2>5. PICK q : q = [p EXCEPT !.pc = "prune", !.count = n]
    OBVIOUS
  <2>6. q.pc = "prune" /\ q.count = n
    BY <2>5 DEF Request
  <2>7. request' = [request EXCEPT ![h] = q]
    BY <1>1, <2>2, <2>5
  <2>8. request'[h] = q /\ \A g \in Requests : g # h => request'[g] = request[g]
    BY <2>7, TypeIs
  <2>9. Readable' => Readable
    BY <1>1, <1>2, <1>4, <2>6, <2>8, ReadableStays
  <2>10. Latest' = Latest
    BY <1>2, LatestIs
  <2>11. ~TooOld(n, Latest)
    BY <1>1, <1>2, <2>1 DEF Timely
  <2>12. Readable => version[n].stored
    BY <1>1, <1>2, <2>1, <2>11 DEF Fits, StoredBy
  <2>13. CurrentStands'
    BY <1>2, <2>4, <2>9, <2>12 DEF CurrentStands
  <2>14. ASSUME Readable', NEW g \in Requests, request'[g].pc = "prune"
         PROVE  ~TooOld(n, request'[g].count)
    <3>1. CASE g = h
      BY <2>6, <2>8, <3>1, BoundsAssumption DEF TooOld, Numbers
    <3>2. CASE g # h
      <4>1. PICK r \in Request : r = request[g] /\ Fits(r)
        BY RequestIs
      <4>2. r.pc = "prune" /\ request'[g].count = r.count /\ r.count \in Nat
        BY <2>8, <2>14, <3>2, <4>1, BoundsAssumption DEF Request
      <4>3. r.count <= Latest
        BY <2>9, <2>14, <4>1, <4>2 DEF Fits
      <4> QED
        BY <2>11, <4>2, <4>3, LatestTyped, BoundsAssumption DEF TooOld, Numbers
    <3> QED
      BY <3>1, <3>2
  <2>15. SentFits'
    BY <1>2, <2>10 DEF HistoryFits, SentFits, TooOld
  <2> QED
    BY <2>4, <2>13, <2>14, <2>15 DEF HistoryFits, TooOld
<1> QED
  BY <1>3, <1>4

LEMMA PrunesHistory ==
  ASSUME PostsInv, HistoryFits, NEW h \in Requests, Prune(h)
  PROVE  HistoryFits'
<1>1. PICK p \in Request : p = request[h] /\ Fits(p)
  BY RequestIs
<1>2. PICK c \in Nat : c = p.count
  BY BoundsAssumption DEF Request
<1>3. /\ p.pc = "prune" /\ Done(h) /\ UNCHANGED <<post, worker>>
      /\ version' = [n \in Numbers |-> IF TooOld(n, c) THEN NoVersion ELSE version[n]]
  BY <1>1, <1>2 DEF Prune, At
<1>4. request'[h].pc = "idle" /\ \A g \in Requests : g # h => request'[g] = request[g]
  BY <1>3, DoneHere
<1>5. Readable' => Readable
  BY <1>1, <1>3, <1>4, ReadableStays
<1>6. post.current # 0 => post.current \in Numbers
  BY TypeIs, BoundsAssumption DEF Post, Numbers
<1>7. CurrentStands'
  BY <1>1, <1>2, <1>3, <1>5, <1>6 DEF HistoryFits, CurrentStands
<1>8. Readable' /\ post'.current # 0 =>
        \A g \in Requests : request'[g].pc = "prune" => ~TooOld(post'.current, request'[g].count)
  BY <1>3, <1>4, <1>5 DEF HistoryFits
<1>9. SentFits'
  <2> SUFFICES ASSUME worker.pc = "send"
               PROVE  /\ worker.number \in Numbers
                      /\ IF version'[worker.number].stored
                           THEN worker.media = version'[worker.number].media
                           ELSE TooOld(worker.number, Latest')
    BY <1>3 DEF SentFits, TooOld
  <2>1. /\ worker.number \in Numbers
        /\ IF version[worker.number].stored THEN worker.media = version[worker.number].media
           ELSE TooOld(worker.number, Latest)
    BY DEF HistoryFits, SentFits
  <2>2. Readable
    BY SendingReadable
  <2>3. c <= Latest
    BY <1>1, <1>2, <1>3, <2>2 DEF Fits
  <2>4. Readable'
    <3>1. \A g \in Requests : request'[g].pc # "deletePost"
      BY <1>4, <2>2 DEF Readable, BeingDeleted, At
    <3> QED
      BY <1>3, <2>2, <3>1 DEF Readable, BeingDeleted, At
  <2>5. Latest <= Latest'
    BY <2>4, PruneHistory DEF HistoryStays
  <2>6. TooOld(worker.number, c) \/ TooOld(worker.number, Latest) => TooOld(worker.number, Latest')
    BY <2>1, <2>3, <2>5, LatestTyped, BoundsAssumption DEF TooOld, Numbers
  <2>7. version'[worker.number] = IF TooOld(worker.number, c) THEN NoVersion ELSE version[worker.number]
    BY <1>3, <2>1
  <2>8. ~NoVersion.stored
    BY DEF NoVersion
  <2> QED
    BY <2>1, <2>6, <2>7, <2>8
<1> QED
  BY <1>7, <1>8, <1>9 DEF HistoryFits, TooOld

LEMMA DeleteVersionsHistory ==
  ASSUME PostsInv, HistoryFits, NEW h \in Requests, DeleteVersions(h)
  PROVE  HistoryFits'
<1>1. request[h].pc = "deleteVersions" /\ UNCHANGED worker /\ Goto(h, "deletePost") /\ "deletePost" \in Steps
  BY DEF DeleteVersions, At, Steps
<1>2. request'[h].pc = "deletePost"
  BY <1>1, GotoHere
<1>3. ~ Readable'
  BY <1>2 DEF Readable, BeingDeleted, At
<1>4. worker.pc = "idle"
  <2>1. schedule \notin Upcoming
    BY <1>1, RequestIs DEF Fits
  <2> QED
    BY <2>1 DEF PostsInv, WorkerFits, Upcoming
<1> QED
  BY <1>1, <1>3, <1>4 DEF HistoryFits, CurrentStands, SentFits

LEMMA LoadPlanHistory ==
  ASSUME PostsInv, HistoryFits, LoadPlan
  PROVE  HistoryFits'
<1>1. UNCHANGED <<post, version, request>>
  BY DEF LoadPlan
<1>2. Readable' => Readable
  BY <1>1, ReadableStays
<1>3. PICK w \in Workers : w = worker
  BY WorkerIs
<1>4. CASE worker' = [worker EXCEPT !.pc = "fail"]
  <2>1. PICK x : x = [w EXCEPT !.pc = "fail"]
    OBVIOUS
  <2>2. worker' = x /\ x.pc = "fail"
    BY <1>3, <1>4, <2>1 DEF Workers
  <2>3. Calm
    BY <1>1, <1>2, <2>2 DEF Calm
  <2> QED
    BY <2>3, CalmKeeps
<1>5. CASE worker' # [worker EXCEPT !.pc = "fail"]
  <2>1. PICK n : n = post.current
    OBVIOUS
  <2>2. /\ n # 0 /\ version[n].stored /\ version[n].media \subseteq Library
        /\ worker' = [pc |-> "send", number |-> n, media |-> version[n].media \cap Library]
    BY <1>5, <2>1 DEF LoadPlan, Missing
  <2>3. n \in Numbers
    BY <2>1, <2>2, TypeIs, BoundsAssumption DEF Post, Numbers
  <2>4. version[n].media \cap Library = version[n].media
    BY <2>2
  <2>5. worker'.number = n /\ worker'.media = version[n].media
    BY <2>2, <2>4
  <2>6. SentFits'
    BY <1>1, <2>2, <2>3, <2>5 DEF SentFits
  <2>7. CurrentStands'
    BY <1>1, <1>2 DEF HistoryFits, CurrentStands
  <2>8. Readable' /\ post'.current # 0 =>
          \A g \in Requests : request'[g].pc = "prune" => ~TooOld(post'.current, request'[g].count)
    BY <1>1, <1>2 DEF HistoryFits
  <2> QED
    BY <2>6, <2>7, <2>8 DEF HistoryFits, TooOld
<1> QED
  BY <1>4, <1>5

LEMMA HistoryStepKeeps ==
  ASSUME PostsInv, HistoryFits, Timely, [PostsNext]_postVars
  PROVE  HistoryFits'
<1>1. ASSUME NEW h \in Requests, RequestNext(h) PROVE HistoryFits'
  <2>1. CASE \/ Edit(h) \/ Restore(h) \/ Rewrite(h) \/ Delete(h) \/ Written(h) \/ Number(h) \/ Cancel(h)
             \/ RemoveFile(h) \/ RemoveObject(h) \/ DeletePost(h)
    <3>1. Calm
      BY <2>1, BeginsCalm, MovesCalm, FilesCalm, DeletePostCalm
    <3> QED
      BY <3>1, CalmKeeps
  <2>2. CASE Create(h) \/ Save(h) \/ Prune(h) \/ DeleteVersions(h)
    BY <2>2, CreateHistory, SaveHistory, PrunesHistory, DeleteVersionsHistory
  <2> QED
    BY <1>1, <2>1, <2>2, Zenon DEF RequestNext
<1>2. UploadNext \/ UNCHANGED postVars => HistoryFits'
  BY UploadCalm, CalmKeeps
<1>3. WorkerNext => HistoryFits'
  BY WorkerCalm, LoadPlanHistory, CalmKeeps DEF WorkerNext
<1> QED
  BY <1>1, <1>2, <1>3, Zenon DEF PostsNext

LEMMA HistoryStart == PostsInit => HistoryFits
<1> SUFFICES ASSUME PostsInit PROVE HistoryFits
  OBVIOUS
<1>1. /\ post.current # 0 => post.current = 1 /\ version[1].stored
      /\ \A h \in Requests : request[h].pc = "idle" /\ worker.pc = "idle"
      /\ worker.pc = "idle"
  <2>1. PICK written, queued \in BOOLEAN :
          /\ post = [exists |-> TRUE, status |-> IF queued THEN "SCHEDULED" ELSE "READY",
                     current |-> IF written THEN 1 ELSE 0, count |-> IF written THEN 1 ELSE 0]
          /\ version = [n \in Numbers |->
               IF n = 1 /\ written THEN [stored |-> TRUE, author |-> 0, media |-> Stored] ELSE NoVersion]
    BY DEF PostsInit
  <2>2. 1 \in Numbers
    BY BoundsAssumption DEF Numbers
  <2>3. post.current # 0 => post.current = 1 /\ version[1].stored
    BY <2>1, <2>2
  <2>4. (\A h \in Requests : request[h].pc = "idle") /\ worker.pc = "idle"
    BY DEF PostsInit, Idle
  <2> QED
    BY <2>3, <2>4
<1> QED
  BY <1>1 DEF HistoryFits, CurrentStands, SentFits

(* What a step may send.                                                    *)
SendsWhole ==
  sent' # sent =>
    /\ post.exists
    /\ \/ worker.media = version[worker.number].media
       \/ ~version[worker.number].stored

LEMMA StepSendsWhole ==
  ASSUME PostsInv, HistoryFits, [PostsNext]_postVars
  PROVE  SendsWhole
<1>1. CASE UNCHANGED sent
  BY <1>1 DEF SendsWhole
<1>2. CASE Send
  <2>1. worker.pc = "send"
    BY <1>2 DEF Send
  <2>2. Readable
    BY <2>1, SendingReadable
  <2> QED
    BY <2>1, <2>2 DEF SendsWhole, HistoryFits, SentFits, Readable
<1>3. ASSUME NEW h \in Requests, RequestNext(h) PROVE UNCHANGED sent
  BY <1>3 DEF RequestNext, Edit, Restore, Rewrite, Written, Number, Create, Save, Prune, Delete, Cancel,
     DeleteVersions, DeletePost, RemoveFile, RemoveObject
<1>4. ASSUME UploadNext \/ Claim \/ LoadPlan \/ Finish \/ Fail PROVE UNCHANGED sent
  BY <1>4 DEF UploadNext, Upload, PutObject, PutFails, PutDone, Insert, InsertFails, Rollback, UploadDies,
     Claim, LoadPlan, Finish, Fail, Settle
<1>5. UNCHANGED postVars => UNCHANGED sent
  BY DEF postVars
<1> QED
  BY <1>1, <1>2, <1>3, <1>4, <1>5, Zenon DEF PostsNext, WorkerNext

-----------------------------------------------------------------------------
(* How many versions there may yet be.  A request that has begun and each   *)
(* edit still to come add one at most, so with no more edits than a post    *)
(* keeps versions nobody is overtaken by that many.                         *)

(* No opening has more edits than a post keeps versions.                    *)
FewEdits == \A opening \in Openings : opening["edit"] <= Limit

Adders == {h \in Requests : request[h].pc \in {"write", "number", "create"}}
Load == Cardinality(Adders) + budget["edit"]
(* With n versions now, and first to begin with.                            *)
RoomAfter(n, first) == n + Load <= first + Limit
RoomAhead(q, first) ==
  /\ q.pc \in {"write", "number", "create"} => first <= q.count /\ RoomAfter(q.count, first)
  /\ q.pc = "create" => first < q.number /\ RoomAfter(q.number - 1, first)
  /\ q.pc = "save" => first < q.number /\ RoomAfter(q.number, first)
RoomLeft(first) ==
  /\ IsFiniteSet(Adders)
  /\ RoomAfter(Latest, first)
  /\ first <= post.count /\ RoomAfter(post.count, first)
  /\ \A h \in Requests : RoomAhead(request[h], first)
Roomy == \E first \in {0, 1} : RoomLeft(first)

LEMMA LoadTyped ==
  ASSUME PostsInv, NEW first \in {0, 1}, RoomLeft(first)
  PROVE  /\ Cardinality(Adders) \in Nat /\ budget["edit"] \in Nat /\ Load \in Nat
         /\ Limit \in Nat /\ Latest \in Nat /\ post.count \in Nat
         /\ \A h \in Requests : request[h].count \in Nat /\ request[h].number \in Nat
<1>1. Cardinality(Adders) \in Nat
  BY FS_CardinalityType DEF RoomLeft
<1>2. budget["edit"] \in Nat
  BY TypeIs DEF Events
<1>3. MaxVersion \in Nat /\ Limit \in Nat
  BY BoundsAssumption
<1>4. post.count \in Nat
  BY <1>3, TypeIs DEF Post
<1>5. \A h \in Requests : request[h].count \in Nat /\ request[h].number \in Nat
  BY <1>3, RequestIs DEF Request
<1> QED
  BY <1>1, <1>2, <1>3, <1>4, <1>5, LatestTyped DEF Load

(* Whoever is behind, or has just found room, keeps it.                     *)
LEMMA RoomStays ==
  ASSUME PostsInv, NEW first \in {0, 1}, RoomLeft(first),
         IsFiniteSet(Adders'), Load' \in Nat, Load' <= Load,
         Latest' <= Latest \/ RoomAfter(Latest, first)',
         post'.count = post.count \/ (first <= post'.count /\ RoomAfter(post.count, first)'),
         \A h \in Requests :
           \/ /\ request'[h].pc = request[h].pc
              /\ request'[h].count = request[h].count /\ request'[h].number = request[h].number
           \/ RoomAhead(request[h], first)'
  PROVE  RoomLeft(first)'
<1>1. /\ Load \in Nat /\ Limit \in Nat /\ Latest \in Nat /\ post.count \in Nat
      /\ \A h \in Requests : request[h].count \in Nat /\ request[h].number \in Nat
  BY LoadTyped
<1>2. RoomAfter(Latest, first)'
  <2>1. PICK m \in Nat, n \in Nat, k \in Nat, l \in Nat : m = Latest /\ n = Latest' /\ k = Load /\ l = Load'
    BY <1>1, LatestTyped
  <2>2. m + k <= first + Limit
    BY <2>1 DEF RoomLeft, RoomAfter
  <2>3. CASE n <= m
    <3>1. n + l <= first + Limit
      BY <1>1, <2>1, <2>2, <2>3
    <3> QED
      BY <2>1, <3>1 DEF RoomAfter
  <2> QED
    BY <2>1, <2>3
<1>3. first <= post'.count /\ RoomAfter(post.count, first)'
  <2>1. PICK m \in Nat, k \in Nat, l \in Nat : m = post.count /\ k = Load /\ l = Load'
    BY <1>1
  <2>2. first <= m /\ m + k <= first + Limit
    BY <2>1 DEF RoomLeft, RoomAfter
  <2>3. m + l <= first + Limit
    BY <1>1, <2>1, <2>2
  <2>4. CASE post'.count = m
    BY <2>1, <2>2, <2>3, <2>4 DEF RoomAfter
  <2> QED
    BY <2>1, <2>4
<1>4. ASSUME NEW h \in Requests PROVE RoomAhead(request[h], first)'
  <2>1. CASE /\ request'[h].pc = request[h].pc
             /\ request'[h].count = request[h].count /\ request'[h].number = request[h].number
    <3>1. PICK c \in Nat, n \in Nat : c = request[h].count /\ n = request[h].number
      BY <1>1
    <3>2. /\ request[h].pc \in {"write", "number", "create"} => first <= c /\ c + Load <= first + Limit
          /\ request[h].pc = "create" => first < n /\ n - 1 + Load <= first + Limit
          /\ request[h].pc = "save" => first < n /\ n + Load <= first + Limit
      BY <3>1 DEF RoomLeft, RoomAhead, RoomAfter
    <3>3. /\ c + Load <= first + Limit => c + Load' <= first + Limit
          /\ n - 1 + Load <= first + Limit => n - 1 + Load' <= first + Limit
          /\ n + Load <= first + Limit => n + Load' <= first + Limit
      <4>1. PICK k \in Nat, l \in Nat : k = Load /\ l = Load'
        BY <1>1
      <4>2. l <= k
        BY <4>1
      <4>3. /\ c + k <= first + Limit => c + l <= first + Limit
            /\ n - 1 + k <= first + Limit => n - 1 + l <= first + Limit
            /\ n + k <= first + Limit => n + l <= first + Limit
        BY <1>1, <4>2
      <4> QED
        BY <4>1, <4>3
    <3>4. /\ request'[h].pc \in {"write", "number", "create"} => first <= c /\ c + Load' <= first + Limit
          /\ request'[h].pc = "create" => first < n /\ n - 1 + Load' <= first + Limit
          /\ request'[h].pc = "save" => first < n /\ n + Load' <= first + Limit
      BY <2>1, <3>2, <3>3
    <3>5. request'[h].count = c /\ request'[h].number = n
      BY <2>1, <3>1
    <3> QED
      BY <3>4, <3>5 DEF RoomAhead, RoomAfter
  <2> QED
    BY <2>1
<1> QED
  BY <1>2, <1>3, <1>4 DEF RoomLeft

LEMMA RoomIsTimely ==
  ASSUME PostsInv, Roomy
  PROVE  Timely
<1>1. PICK first \in {0, 1} : RoomLeft(first)
  BY DEF Roomy
<1>2. SUFFICES ASSUME NEW h \in Requests, request[h].pc \in {"create", "save"}
               PROVE  ~TooOld(request[h].number, Latest)
  BY DEF Timely
<1>3. /\ Load \in Nat /\ Limit \in Nat /\ Latest \in Nat
      /\ request[h].number \in Nat
  BY <1>1, LoadTyped
<1>4. first < request[h].number /\ Latest + Load <= first + Limit
  BY <1>1, <1>2 DEF RoomLeft, RoomAhead, RoomAfter
<1> QED
  BY <1>3, <1>4 DEF TooOld

LEMMA RoomBefore ==
  ASSUME NEW first \in {0, 1}, post.count = first,
         \A n \in Numbers : version[n].stored => n <= first,
         \A h \in Requests : request[h].pc = "idle",
         budget["edit"] \in Nat, budget["edit"] <= Limit
  PROVE  Roomy
<1>1. Latest \in Nat /\ Latest <= first
  BY LatestIs, TopIs
<1>2. Adders = {}
  BY DEF Adders
<1>3. IsFiniteSet(Adders) /\ Cardinality(Adders) = 0
  BY <1>2, FS_EmptySet
<1>4. Limit \in Nat
  BY BoundsAssumption
<1>5. RoomAfter(Latest, first) /\ RoomAfter(first, first)
  BY <1>1, <1>3, <1>4 DEF RoomAfter, Load
<1>6. RoomLeft(first)
  BY <1>3, <1>5 DEF RoomLeft, RoomAhead
<1> QED
  BY <1>6 DEF Roomy

LEMMA RoomStarts ==
  ASSUME PostsInit, FewEdits
  PROVE  Roomy
<1>1. PICK written \in BOOLEAN, queued \in BOOLEAN :
        /\ post = [exists |-> TRUE, status |-> IF queued THEN "SCHEDULED" ELSE "READY",
                   current |-> IF written THEN 1 ELSE 0, count |-> IF written THEN 1 ELSE 0]
        /\ version = [n \in Numbers |->
             IF n = 1 /\ written THEN [stored |-> TRUE, author |-> 0, media |-> Stored] ELSE NoVersion]
  BY DEF PostsInit
<1>2. PICK first \in {0, 1} : first = IF written THEN 1 ELSE 0
  OBVIOUS
<1>3. post.count = first /\ \A n \in Numbers : version[n].stored => n <= first
  BY <1>1, <1>2 DEF NoVersion
<1>4. \A h \in Requests : request[h].pc = "idle"
  BY DEF PostsInit, Idle
<1>5. budget["edit"] \in Nat /\ budget["edit"] <= Limit
  <2>1. budget \in Openings /\ budget \in [Events -> Nat] /\ Limit \in Nat
    BY BoundsAssumption DEF PostsInit
  <2> QED
    BY <2>1 DEF FewEdits, Events
<1> QED
  BY <1>3, <1>4, <1>5, RoomBefore

-----------------------------------------------------------------------------
(* Steps.                                                                   *)

(* A request begins to add only what it was counted for.                    *)
LEMMA LoadFalls ==
  ASSUME PostsInv, NEW first \in {0, 1}, RoomLeft(first), NEW h \in Requests, NEW q \in Request,
         request' = [request EXCEPT ![h] = q], budget'["edit"] \in Nat,
         \/ budget'["edit"] = budget["edit"] /\ (q.pc \in {"write", "number", "create"} => h \in Adders)
         \/ budget'["edit"] = budget["edit"] - 1
  PROVE  /\ IsFiniteSet(Adders') /\ Load' \in Nat /\ Load' <= Load
         /\ h \in Adders /\ q.pc \notin {"write", "number", "create"} => Load' + 1 <= Load
<1>1. request'[h] = q /\ \A g \in Requests : g # h => request'[g] = request[g]
  BY OneMoves
<1>2. IsFiniteSet(Adders) /\ Cardinality(Adders) \in Nat /\ budget["edit"] \in Nat
  BY LoadTyped DEF RoomLeft
<1>3. CASE q.pc \in {"write", "number", "create"}
  <2>1. Adders' = Adders \cup {h}
    BY <1>1, <1>3 DEF Adders
  <2>2. CASE h \in Adders
    <3>1. Adders' = Adders
      BY <2>1, <2>2
    <3> QED
      BY <1>2, <1>3, <3>1 DEF Load
  <2>3. CASE h \notin Adders
    <3>1. IsFiniteSet(Adders \cup {h}) /\ Cardinality(Adders \cup {h}) = Cardinality(Adders) + 1
      BY <1>2, <2>3, FS_AddElement, Zenon
    <3> QED
      BY <1>2, <1>3, <2>1, <2>3, <3>1 DEF Load
  <2> QED
    BY <2>2, <2>3
<1>4. CASE q.pc \notin {"write", "number", "create"}
  <2>1. Adders' = Adders \ {h}
    BY <1>1, <1>4 DEF Adders
  <2>2. CASE h \in Adders
    <3>1. IsFiniteSet(Adders \ {h}) /\ Cardinality(Adders \ {h}) = Cardinality(Adders) - 1
      BY <1>2, <2>2, FS_RemoveElement
    <3>2. Cardinality(Adders \ {h}) \in Nat
      BY <3>1, FS_CardinalityType
    <3> QED
      BY <1>2, <1>4, <2>1, <3>1, <3>2 DEF Load
  <2>3. CASE h \notin Adders
    <3>1. Adders' = Adders
      BY <2>1, <2>3
    <3> QED
      BY <1>2, <1>4, <2>3, <3>1 DEF Load
  <2> QED
    BY <2>2, <2>3
<1> QED
  BY <1>3, <1>4

(* A request moves on, the post and its versions stay.                      *)
LEMMA RoomMoves ==
  ASSUME PostsInv, NEW first \in {0, 1}, RoomLeft(first), NEW h \in Requests, NEW q \in Request,
         request' = [request EXCEPT ![h] = q], budget'["edit"] \in Nat,
         \/ budget'["edit"] = budget["edit"] /\ (q.pc \in {"write", "number", "create"} => h \in Adders)
         \/ budget'["edit"] = budget["edit"] - 1,
         Latest' <= Latest, post'.count = post.count,
         q.pc \in {"write", "number", "create"} => first <= q.count /\ RoomAfter(q.count, first),
         q.pc = "create" => first < q.number /\ RoomAfter(q.number - 1, first),
         q.pc # "save"
  PROVE  RoomLeft(first)'
<1>1. IsFiniteSet(Adders') /\ Load' \in Nat /\ Load' <= Load
  BY LoadFalls
<1>2. request'[h] = q /\ \A g \in Requests : g # h => request'[g] = request[g]
  BY OneMoves
<1>3. RoomAhead(request[h], first)'
  <2>1. Load \in Nat /\ Limit \in Nat
    BY LoadTyped
  <2>2. PICK c \in Nat, n \in Nat : c = q.count /\ n = q.number
    BY BoundsAssumption DEF Request
  <2>3. /\ c + Load <= first + Limit => c + Load' <= first + Limit
        /\ n - 1 + Load <= first + Limit => n - 1 + Load' <= first + Limit
    BY <1>1, <2>1
  <2> QED
    BY <1>2, <2>2, <2>3 DEF RoomAhead, RoomAfter
<1> QED
  BY <1>1, <1>2, <1>3, RoomStays

(* A request ends.                                                          *)
LEMMA RoomEnds ==
  ASSUME PostsInv, NEW first \in {0, 1}, RoomLeft(first), NEW h \in Requests, Done(h),
         budget'["edit"] = budget["edit"], Latest' <= Latest, post'.count = post.count
  PROVE  RoomLeft(first)'
<1>1. PICK q \in Request : request' = [request EXCEPT ![h] = q] /\ q.pc = "idle"
  BY DoneIs
<1>2. budget'["edit"] \in Nat
  BY LoadTyped
<1> QED
  BY <1>1, <1>2, RoomMoves

LEMMA LatestFalls ==
  ASSUME \A n \in Numbers : version'[n].stored => version[n].stored
  PROVE  Latest' <= Latest
<1>1. CASE Top(version') = 0
  BY <1>1, LatestIs, LatestTyped
<1>2. CASE Top(version') \in Numbers /\ version'[Top(version')].stored
  BY <1>2, LatestIs, TopIs
<1> QED
  BY <1>1, <1>2, TopIs

(* A request that does not add a version.                                   *)
LEMMA RoomBeside ==
  ASSUME PostsInv, NEW first \in {0, 1}, RoomLeft(first), NEW h \in Requests, NEW q \in Request,
         request' = [request EXCEPT ![h] = q], q.pc \notin {"write", "number", "create", "save"},
         budget'["edit"] = budget["edit"], \A n \in Numbers : version'[n].stored => version[n].stored,
         post'.count = post.count
  PROVE  RoomLeft(first)'
<1>1. budget'["edit"] \in Nat
  BY LoadTyped
<1> QED
  BY <1>1, LatestFalls, RoomMoves

LEMMA BeginRoom ==
  ASSUME PostsInv, NEW first \in {0, 1}, RoomLeft(first), NEW h \in Requests, NEW step \in {"number", "write"},
         NEW media \in SUBSET Files, Begin(h, step, media), Spend("edit"), UNCHANGED <<post, version>>
  PROVE  RoomLeft(first)'
<1>1. step \in Steps
  BY DEF Steps
<1>2. PICK q \in Request : request' = [request EXCEPT ![h] = q] /\ q.pc = step /\ q.count = post.count
  BY <1>1, BeginIs
<1>3. budget'["edit"] \in Nat /\ budget'["edit"] = budget["edit"] - 1
  <2>1. budget \in [Events -> Nat] /\ "edit" \in Events
    BY TypeIs DEF Events
  <2> QED
    BY <2>1 DEF Spend
<1>4. first <= q.count /\ RoomAfter(q.count, first)
  BY <1>2 DEF RoomLeft
<1>5. Latest' <= Latest
  BY LatestFalls
<1> QED
  BY <1>2, <1>3, <1>4, <1>5, RoomMoves

LEMMA BeginsRoom ==
  ASSUME PostsInv, NEW first \in {0, 1}, RoomLeft(first), NEW h \in Requests,
         Edit(h) \/ Restore(h) \/ Rewrite(h)
  PROVE  RoomLeft(first)'
<1>1. UNCHANGED <<post, version>> /\ Spend("edit")
  BY DEF Edit, Restore, Rewrite
<1>2. CASE Edit(h)
  <2>1. PICK media \in SUBSET Library : Begin(h, "number", media)
    BY <1>2 DEF Edit
  <2>2. media \in SUBSET Files
    BY <2>1 DEF Library
  <2> QED
    BY <1>1, <2>1, <2>2, BeginRoom
<1>3. CASE Restore(h)
  <2>1. PICK n \in Numbers : version[n].media \subseteq Library /\ Begin(h, "number", version[n].media)
    BY <1>3 DEF Restore
  <2>2. PICK media \in SUBSET Files : media = version[n].media
    BY <2>1 DEF Library
  <2> QED
    BY <1>1, <2>1, <2>2, BeginRoom
<1>4. CASE Rewrite(h)
  <2>1. PICK media \in SUBSET Files : media = {}
    OBVIOUS
  <2>2. Begin(h, "write", media)
    BY <1>4, <2>1 DEF Rewrite
  <2> QED
    BY <1>1, <2>2, BeginRoom
<1> QED
  BY <1>2, <1>3, <1>4

LEMMA WrittenRoom ==
  ASSUME PostsInv, NEW first \in {0, 1}, RoomLeft(first), NEW h \in Requests, Written(h)
  PROVE  RoomLeft(first)'
<1>1. PICK p \in Request : p = request[h] /\ p.pc = "write"
  BY RequestIs DEF Written, At
<1>2. UNCHANGED <<post, version, budget>>
  BY DEF Written
<1>3. Latest' <= Latest
  BY <1>2, LatestFalls
<1>4. CASE Done(h)
  BY <1>2, <1>3, <1>4, RoomEnds
<1>5. CASE ~Done(h)
  <2>1. PICK media : request' = [request EXCEPT ![h].pc = "number", ![h].media = media \cap Library]
    BY <1>5 DEF Written
  <2>2. PICK left : left = media \cap Library
    OBVIOUS
  <2>3. left \subseteq Files
    BY <2>2 DEF Library
  <2>4. PICK q : q = [p EXCEPT !.pc = "number", !.media = left]
    OBVIOUS
  <2>5. q \in Request /\ q.pc = "number" /\ q.count = p.count
    BY <2>3, <2>4 DEF Request, Steps
  <2>6. request' = [request EXCEPT ![h] = q]
    BY <1>1, <2>1, <2>2, <2>4
  <2>7. first <= q.count /\ RoomAfter(q.count, first) /\ h \in Adders
    BY <1>1, <2>5 DEF RoomLeft, RoomAhead, Adders
  <2>8. budget'["edit"] = budget["edit"] /\ budget'["edit"] \in Nat
    BY <1>2, LoadTyped
  <2> QED
    BY <1>2, <1>3, <2>5, <2>6, <2>7, <2>8, RoomMoves
<1> QED
  BY <1>4, <1>5

LEMMA NumberRoom ==
  ASSUME PostsInv, NEW first \in {0, 1}, RoomLeft(first), NEW h \in Requests, Number(h)
  PROVE  RoomLeft(first)'
<1>1. PICK p \in Request : p = request[h] /\ p.pc = "number" /\ Fits(p)
  BY RequestIs DEF Number, At
<1>2. PICK next : /\ next = Larger(Latest, p.count) + 1 /\ next <= MaxVersion
                  /\ request' = [request EXCEPT ![h].pc = "create", ![h].number = next, ![h].tries = @ + 1]
  BY <1>1 DEF Number
<1>3. UNCHANGED <<post, version, budget>>
  BY DEF Number
<1>4. Latest' <= Latest
  BY <1>3, LatestFalls
<1>5. Latest \in Nat /\ p.count \in Nat /\ MaxVersion \in Nat
  BY BoundsAssumption, LatestTyped DEF Request
<1>6. next \in 0 .. MaxVersion /\ next \in Nat
  BY <1>2, <1>5 DEF Larger
<1>7. p.tries + 1 \in 0 .. 3
  BY <1>1 DEF Fits, MaxTries, Request
<1>8. PICK q1 : q1 = [p EXCEPT !.pc = "create", !.number = next]
  OBVIOUS
<1>9. q1 \in Request /\ q1.pc = "create" /\ q1.number = next /\ q1.count = p.count
  BY <1>6, <1>8 DEF Request, Steps
<1>10. PICK q : q = [q1 EXCEPT !.tries = p.tries + 1]
  OBVIOUS
<1>11. q \in Request /\ q.pc = "create" /\ q.number = next /\ q.count = p.count
  BY <1>7, <1>9, <1>10 DEF Request
<1>12. request' = [request EXCEPT ![h] = q]
  BY <1>1, <1>2, <1>8, <1>10
<1>13. first <= p.count /\ RoomAfter(p.count, first) /\ RoomAfter(Latest, first) /\ h \in Adders
  BY <1>1 DEF RoomLeft, RoomAhead, Adders
<1>14. first < next /\ RoomAfter(next - 1, first)
  <2>1. CASE Latest > p.count
    <3>1. next = Latest + 1
      BY <1>2, <2>1 DEF Larger
    <3> QED
      BY <1>5, <1>13, <2>1, <3>1 DEF RoomAfter
  <2>2. CASE ~(Latest > p.count)
    <3>1. next = p.count + 1
      BY <1>2, <2>2 DEF Larger
    <3> QED
      BY <1>5, <1>13, <3>1 DEF RoomAfter
  <2> QED
    BY <2>1, <2>2
<1>15. budget'["edit"] = budget["edit"] /\ budget'["edit"] \in Nat
  BY <1>3, LoadTyped
<1> QED
  BY <1>3, <1>4, <1>11, <1>12, <1>13, <1>14, <1>15, RoomMoves

LEMMA CreateRoom ==
  ASSUME PostsInv, NEW first \in {0, 1}, RoomLeft(first), NEW h \in Requests, Create(h)
  PROVE  RoomLeft(first)'
<1>1. PICK p \in Request : p = request[h] /\ p.pc = "create" /\ Fits(p)
  BY RequestIs DEF Create, At
<1>2. p.number \in Numbers /\ UNCHANGED <<post, budget>>
  BY <1>1 DEF Create, Fits
<1>3. /\ h \in Adders /\ first <= p.count /\ RoomAfter(p.count, first)
      /\ first < p.number /\ RoomAfter(p.number - 1, first)
  BY <1>1 DEF RoomLeft, RoomAhead, Adders
<1>4. budget'["edit"] = budget["edit"] /\ budget'["edit"] \in Nat
  BY <1>2, LoadTyped
<1>5. CASE version[p.number].stored
  <2>1. UNCHANGED version /\ (Goto(h, "number") \/ Done(h))
    BY <1>1, <1>5 DEF Create, Duplicate
  <2>2. Latest' <= Latest
    BY <2>1, LatestFalls
  <2>3. CASE Done(h)
    BY <1>2, <1>4, <2>2, <2>3, RoomEnds
  <2>4. CASE Goto(h, "number")
    <3>1. "number" \in Steps
      BY DEF Steps
    <3>2. PICK q \in Request : request' = [request EXCEPT ![h] = q] /\ q.pc = "number" /\ q.count = p.count
      BY <1>1, <2>4, <3>1, GotoIs
    <3> QED
      BY <1>2, <1>3, <1>4, <2>2, <3>2, RoomMoves
  <2> QED
    BY <2>1, <2>3, <2>4
<1>6. CASE ~ version[p.number].stored
  <2>1. /\ Goto(h, "save") /\ "save" \in Steps
        /\ \A n \in Numbers : n # p.number => version'[n] = version[n]
    BY <1>1, <1>6, TypeIs DEF Create, Duplicate, Steps
  <2>2. PICK q \in Request : request' = [request EXCEPT ![h] = q] /\ q.pc = "save" /\ q.number = p.number
    BY <1>1, <2>1, GotoIs
  <2>3. IsFiniteSet(Adders') /\ Load' \in Nat /\ Load' <= Load /\ Load' + 1 <= Load
    BY <1>3, <1>4, <2>2, LoadFalls
  <2>4. PICK n \in Nat, k \in Nat, l \in Nat :
          /\ n = p.number /\ k = Load /\ l = Load' /\ l + 1 <= k
          /\ n - 1 + k <= first + Limit /\ Limit \in Nat
    <3>1. p.number \in Nat
      BY <1>2 DEF Numbers
    <3> QED
      BY <1>3, <2>3, <3>1, LoadTyped DEF RoomAfter
  <2>5. n + l <= first + Limit
    <3>1. n - 1 + k <= first + Limit /\ l + 1 <= k /\ Limit \in Nat
      BY <2>4
    <3> QED
      BY <3>1
  <2>6. Latest' <= Latest \/ RoomAfter(Latest, first)'
    <3>1. CASE Latest' = n
      BY <2>4, <2>5, <3>1 DEF RoomAfter
    <3>2. CASE Latest' # n
      <4>1. CASE Top(version') = 0
        BY <4>1, LatestIs, LatestTyped
      <4>2. CASE Top(version') \in Numbers /\ version'[Top(version')].stored
        <5>1. Latest' \in Numbers /\ version[Latest'].stored
          BY <2>1, <2>4, <3>2, <4>2, LatestIs
        <5> QED
          BY <5>1, LatestIs, TopIs
      <4> QED
        BY <4>1, <4>2, TopIs
    <3> QED
      BY <3>1, <3>2
  <2>7. request'[h] = q /\ \A g \in Requests : g # h => request'[g] = request[g]
    BY <2>2, OneMoves
  <2>8. RoomAhead(request[h], first)'
    BY <1>3, <2>2, <2>4, <2>5, <2>7 DEF RoomAhead, RoomAfter
  <2> QED
    BY <1>2, <2>3, <2>6, <2>7, <2>8, RoomStays
<1> QED
  BY <1>5, <1>6

LEMMA SaveRoom ==
  ASSUME PostsInv, NEW first \in {0, 1}, RoomLeft(first), NEW h \in Requests, Save(h)
  PROVE  RoomLeft(first)'
<1>1. PICK p \in Request : p = request[h] /\ p.pc = "save" /\ Fits(p)
  BY RequestIs DEF Save, At
<1>2. p.number \in Numbers /\ UNCHANGED <<version, budget>>
  BY <1>1 DEF Save, Fits
<1>3. Latest' <= Latest
  BY <1>2, LatestFalls
<1>4. CASE ~ post.exists
  <2>1. Done(h) /\ UNCHANGED post
    BY <1>4 DEF Save
  <2> QED
    BY <1>2, <1>3, <2>1, RoomEnds
<1>5. CASE post.exists
  <2>1. PICK w \in Post, n \in Nat : w = post /\ n = p.number
    BY <1>2, TypeIs DEF Numbers
  <2>2. /\ post' = [w EXCEPT !.current = n, !.count = n]
        /\ request' = [request EXCEPT ![h].pc = "prune", ![h].count = n]
    BY <1>1, <1>5, <2>1 DEF Save
  <2>3. post'.count = n
    <3>1. PICK x : x = [w EXCEPT !.current = n, !.count = n]
      OBVIOUS
    <3>2. x.count = n
      BY <3>1 DEF Post
    <3> QED
      BY <2>2, <3>1, <3>2
  <2>4. PICK q : q = [p EXCEPT !.pc = "prune", !.count = n]
    OBVIOUS
  <2>5. n \in 0 .. MaxVersion
    BY <1>2, <2>1, BoundsAssumption DEF Numbers
  <2>6. q \in Request /\ q.pc = "prune"
    BY <2>4, <2>5 DEF Request, Steps
  <2>7. request' = [request EXCEPT ![h] = q]
    BY <1>1, <2>2, <2>4
  <2>8. request'[h] = q /\ \A g \in Requests : g # h => request'[g] = request[g]
    BY <2>6, <2>7, OneMoves
  <2>9. budget'["edit"] = budget["edit"] /\ budget'["edit"] \in Nat
    BY <1>2, LoadTyped
  <2>10. IsFiniteSet(Adders') /\ Load' \in Nat /\ Load' <= Load
    BY <2>6, <2>7, <2>9, LoadFalls
  <2>11. first < n /\ RoomAfter(n, first)
    BY <1>1, <2>1 DEF RoomLeft, RoomAhead
  <2>12. first <= post'.count /\ RoomAfter(post.count, first)'
    <3>1. PICK k \in Nat, l \in Nat : k = Load /\ l = Load' /\ l <= k /\ Limit \in Nat
      BY <2>10, LoadTyped
    <3>2. n + k <= first + Limit /\ l <= k /\ Limit \in Nat
      BY <2>11, <3>1 DEF RoomAfter
    <3>3. n + l <= first + Limit
      BY <3>2
    <3>4. first <= n
      BY <2>11
    <3>5. post'.count + Load' <= first + Limit
      BY <2>3, <3>1, <3>3
    <3> QED
      BY <2>3, <3>4, <3>5 DEF RoomAfter
  <2>13. RoomAhead(request[h], first)'
    BY <2>6, <2>8 DEF RoomAhead
  <2> QED
    BY <1>3, <2>8, <2>10, <2>12, <2>13, RoomStays
<1> QED
  BY <1>4, <1>5

LEMMA BesideRoom ==
  ASSUME PostsInv, NEW first \in {0, 1}, RoomLeft(first), NEW h \in Requests,
         \/ Delete(h) \/ Cancel(h) \/ Prune(h) \/ DeleteVersions(h) \/ DeletePost(h)
         \/ RemoveFile(h) \/ RemoveObject(h)
  PROVE  RoomLeft(first)'
<1>1. \A n \in Numbers : version'[n].stored => version[n].stored
  <2> TAKE n \in Numbers
  <2>1. CASE Prune(h)
    <3>1. version'[n] = IF TooOld(n, request[h].count) THEN NoVersion ELSE version[n]
      BY <2>1 DEF Prune
    <3> QED
      BY <3>1 DEF NoVersion
  <2>2. CASE DeleteVersions(h)
    BY <2>2 DEF DeleteVersions, NoVersion
  <2>3. CASE UNCHANGED version
    BY <2>3
  <2> QED
    BY <2>1, <2>2, <2>3 DEF Delete, Cancel, DeletePost, RemoveFile, RemoveObject
<1>2. post'.count = post.count
  <2>1. PICK w \in Post : w = post
    BY TypeIs
  <2>2. PICK x : x = [w EXCEPT !.exists = FALSE]
    OBVIOUS
  <2>3. x.count = w.count
    BY <2>2 DEF Post
  <2>4. post' = x \/ post' = w
    BY <2>1, <2>2 DEF Delete, Cancel, Prune, DeleteVersions, DeletePost, RemoveFile, RemoveObject
  <2> QED
    BY <2>1, <2>3, <2>4
<1>3. budget'["edit"] = budget["edit"]
  <2>1. CASE Spend("delete") \/ Spend("removeFile")
    <3>1. PICK what \in Events : what # "edit" /\ budget' = [budget EXCEPT ![what] = @ - 1]
      BY <2>1 DEF Spend, Events
    <3>2. budget \in [Events -> Nat] /\ "edit" \in Events
      BY TypeIs DEF Events
    <3> QED
      BY <3>1, <3>2
  <2>2. CASE UNCHANGED budget
    BY <2>2
  <2> QED
    BY <2>1, <2>2 DEF Delete, Cancel, Prune, DeleteVersions, DeletePost, RemoveFile, RemoveObject
<1>4. PICK q \in Request :
        request' = [request EXCEPT ![h] = q] /\ q.pc \notin {"write", "number", "create", "save"}
  <2>1. CASE Done(h)
    BY <2>1, DoneIs
  <2>2. CASE Goto(h, "deleteVersions") \/ Goto(h, "deletePost")
    <3>1. "deleteVersions" \in Steps /\ "deletePost" \in Steps
      BY DEF Steps
    <3>2. CASE Goto(h, "deleteVersions")
      BY <3>1, <3>2, GotoIs
    <3>3. CASE Goto(h, "deletePost")
      BY <3>1, <3>3, GotoIs
    <3> QED
      BY <2>2, <3>2, <3>3
  <2>3. CASE Delete(h)
    <3>1. PICK media \in SUBSET Files : media = {}
      OBVIOUS
    <3>2. Begin(h, "cancel", media) /\ "cancel" \in Steps
      BY <2>3, <3>1 DEF Delete, Steps
    <3>3. PICK q \in Request : request' = [request EXCEPT ![h] = q] /\ q.pc = "cancel"
      BY <3>2, BeginIs
    <3> QED
      BY <3>3
  <2>4. CASE RemoveFile(h)
    <3>1. PICK f \in Library :
            request' = [request EXCEPT ![h] = [Idle EXCEPT !.pc = "removeObject", !.media = {f}]]
      BY <2>4 DEF RemoveFile
    <3>2. {f} \in SUBSET Files /\ MaxVersion \in Nat
      BY <3>1, BoundsAssumption DEF Library
    <3>3. PICK i \in Request : i = Idle
      <4>1. Idle \in Request
        BY <3>2 DEF Idle, Request, Steps
      <4> QED
        BY <4>1
    <3>4. PICK q : q = [i EXCEPT !.pc = "removeObject", !.media = {f}]
      OBVIOUS
    <3>5. q \in Request /\ q.pc = "removeObject"
      BY <3>2, <3>4 DEF Request, Steps
    <3> QED
      BY <3>1, <3>3, <3>4, <3>5
  <2> QED
    BY <2>1, <2>2, <2>3, <2>4 DEF Cancel, Prune, DeleteVersions, DeletePost, RemoveObject
<1> QED
  BY <1>1, <1>2, <1>3, <1>4, RoomBeside

LEMMA ElsewhereRoom ==
  ASSUME PostsInv, NEW first \in {0, 1}, RoomLeft(first), UploadNext \/ WorkerNext \/ UNCHANGED postVars
  PROVE  RoomLeft(first)'
<1>1. \A g \in Requests : /\ request'[g].pc = request[g].pc
                          /\ request'[g].count = request[g].count /\ request'[g].number = request[g].number
  <2>1. CASE Claim
    <3> TAKE g \in Requests
    <3>1. PICK p \in Request : p = request[g]
      BY RequestIs
    <3>2. PICK late : request'[g] = [p EXCEPT !.late = late]
      BY <2>1, <3>1 DEF Claim
    <3>3. PICK q : q = [p EXCEPT !.late = late] /\ request'[g] = q
      BY <3>2
    <3>4. q.pc = p.pc /\ q.count = p.count /\ q.number = p.number
      BY <3>3 DEF Request
    <3> QED
      BY <3>1, <3>3, <3>4
  <2>2. CASE UNCHANGED request
    BY <2>2
  <2> QED
    BY <2>1, <2>2 DEF UploadNext, WorkerNext, Upload, PutObject, PutFails, PutDone, Insert, InsertFails,
       Rollback, UploadDies, LoadPlan, Send, Finish, Fail, Settle, postVars
<1>2. post'.count = post.count
  <2>1. CASE UNCHANGED post
    BY <2>1
  <2>2. CASE Claim \/ Finish \/ Fail
    <3>1. PICK w \in Post, status \in Statuses : w = post /\ (post' = [w EXCEPT !.status = status] \/ post' = w)
      BY <2>2, TypeIs DEF Claim, Finish, Fail, Settle, Statuses
    <3> QED
      BY <3>1 DEF Post
  <2> QED
    BY <2>1, <2>2 DEF UploadNext, WorkerNext, Upload, PutObject, PutFails, PutDone, Insert, InsertFails,
       Rollback, UploadDies, LoadPlan, Send, postVars
<1>3. UNCHANGED version
  BY DEF UploadNext, WorkerNext, Upload, PutObject, PutFails, PutDone, Insert, InsertFails, Rollback,
     UploadDies, Claim, LoadPlan, Send, Finish, Fail, Settle, postVars
<1>4. budget'["edit"] = budget["edit"]
  <2>1. CASE Spend("upload") \/ Spend("fault") \/ Spend("claim")
    <3>1. PICK what \in Events : what # "edit" /\ budget' = [budget EXCEPT ![what] = @ - 1]
      BY <2>1 DEF Spend, Events
    <3>2. budget \in [Events -> Nat] /\ "edit" \in Events
      BY TypeIs DEF Events
    <3> QED
      BY <3>1, <3>2
  <2>2. CASE UNCHANGED budget
    BY <2>2
  <2> QED
    BY <2>1, <2>2 DEF UploadNext, WorkerNext, Upload, PutObject, PutFails, PutDone, Insert, InsertFails,
       Rollback, UploadDies, Claim, LoadPlan, Send, Finish, Fail, Settle, postVars
<1>5. Adders' = Adders
  BY <1>1 DEF Adders
<1>6. IsFiniteSet(Adders') /\ Load' \in Nat /\ Load' <= Load
  BY <1>4, <1>5, LoadTyped DEF RoomLeft, Load
<1> QED
  BY <1>1, <1>2, <1>3, <1>6, LatestFalls, RoomStays

LEMMA RoomStepKeeps ==
  ASSUME PostsInv, Roomy, [PostsNext]_postVars
  PROVE  Roomy'
<1>1. PICK first \in {0, 1} : RoomLeft(first)
  BY DEF Roomy
<1>2. ASSUME NEW h \in Requests, RequestNext(h) PROVE RoomLeft(first)'
  <2>1. CASE Edit(h) \/ Restore(h) \/ Rewrite(h)
    BY <1>1, <2>1, BeginsRoom
  <2>2. CASE Written(h) \/ Number(h) \/ Create(h) \/ Save(h)
    BY <1>1, <2>2, WrittenRoom, NumberRoom, CreateRoom, SaveRoom
  <2>3. CASE \/ Delete(h) \/ Cancel(h) \/ Prune(h) \/ DeleteVersions(h) \/ DeletePost(h)
             \/ RemoveFile(h) \/ RemoveObject(h)
    BY <1>1, <2>3, BesideRoom
  <2> QED
    BY <1>2, <2>1, <2>2, <2>3, Zenon DEF RequestNext
<1>3. UploadNext \/ WorkerNext \/ UNCHANGED postVars => RoomLeft(first)'
  BY <1>1, ElsewhereRoom
<1>4. RoomLeft(first)'
  BY <1>2, <1>3, Zenon DEF PostsNext
<1> QED
  BY <1>4 DEF Roomy

-----------------------------------------------------------------------------
(* Workspaces: the inductive invariant.                                     *)

(* What is still to be done about a workspace, and the request that will.   *)
Duties == {"owner", "members", "posts", "invitation", "autopilot"}
Due(s, duty) ==
  \/ duty = "owner" /\ Exists(s) /\ Owner \notin space[s].crew
  \/ duty = "members" /\ space[s].status = "DELETED" /\ space[s].crew # {}
  \/ duty = "posts" /\ space[s].status = "DELETED" /\ slot[s].post # "NONE"
  \/ duty = "invitation" /\ space[s].status = "ARCHIVED" /\ space[s].invited
  \/ duty = "autopilot" /\ space[s].status = "ARCHIVED" /\ space[s].autopilot # "PAUSED"
Owes(k, duty) ==
  \/ duty = "owner" /\ k.at \in {"join", "undo"}
  \/ duty \in {"members", "posts"} /\ k.at = "clean" /\ duty \in k.left
  \/ duty = "invitation" /\ k.what = "archive" /\ k.at = "revoke"
  \/ duty = "autopilot" /\ k.what = "archive"
       /\ k.at \in {"revoke", "unland", "list", "cancel", "unschedule", "pause"}
DutiesAreOwed ==
  \A s \in Spaces : Whole(s) =>
    \A duty \in Duties : Due(s, duty) =>
      \E c \in DOMAIN calls : calls[c].on = s /\ Owes(calls[c], duty)

(* A workspace that has yet to be given its owner is nobody else's.         *)
Untouched(c, s) ==
  /\ IsActive(s) /\ space[s].crew = {} /\ slot[s] = Empty /\ run.on # s
  /\ \A d \in DOMAIN calls : calls[d].on = s => d = c

CallFits(c) ==
  LET k == calls[c] IN
  /\ k \in Call
  /\ k.at \in {"new", "insert"} => k.on = Nowhere
  /\ k.at \notin {"new", "insert", "over"} => k.on \in Spaces
  /\ k.on \in Spaces => space[k.on].status # "NONE"
  /\ k.at = "clean" => space[k.on].status = "DELETED"
  /\ k.at \in {"join", "undo"} => Untouched(c, k.on)

RunFits ==
  /\ run.at # "idle" => run.on \in Spaces
  /\ run.on \in Spaces => space[run.on].status # "NONE"
  /\ run.since => run.at = "look" /\ run.on \in Spaces /\ ~ IsActive(run.on)

(* Requests that found the plan to allow one more and have yet to add it.   *)
Adds(k) ==
  \/ k.what = "create" /\ k.at = "insert"
  \/ k.what = "restore" /\ k.at = "restore" /\ k.read = "ARCHIVED"
Adding == {c \in DOMAIN calls : Adds(calls[c])}
Askers == {c \in DOMAIN calls : calls[c].what \in {"create", "restore"}}
PlanFits ==
  /\ IsFiniteSet(DOMAIN calls)
  /\ Cardinality(Counted) + Cardinality(Adding) < Allowed + Max({1, Cardinality(Askers)})

WorkspacesInv ==
  /\ WorkspacesTypeOK
  /\ \A s \in Spaces : space[s].status = "NONE" => space[s].crew = {} /\ slot[s] = Empty
  /\ \A c \in DOMAIN calls : CallFits(c)
  /\ DutiesAreOwed /\ RunFits /\ PlanFits

-----------------------------------------------------------------------------
LEMMA MaxIs ==
  ASSUME NEW n \in Nat
  PROVE  Max({1, n}) \in Nat /\ Max({1, n}) >= 1 /\ Max({1, n}) >= n
<1>1. PICK m \in {1, n} : m >= 1 /\ m >= n
  BY SMT
<1>2. Max({1, n}) \in {1, n} /\ \A y \in {1, n} : Max({1, n}) >= y
  BY <1>1 DEF Max
<1> QED
  BY <1>2

LEMMA CallIs ==
  ASSUME WorkspacesInv, NEW c \in DOMAIN calls
  PROVE  calls[c] \in Call /\ CallFits(c)
  BY DEF WorkspacesInv, CallFits

LEMMA SpaceIs ==
  ASSUME WorkspacesInv, NEW s \in Spaces
  PROVE  space[s] \in Space /\ slot[s] \in Slot
  BY DEF WorkspacesInv, WorkspacesTypeOK

(* How many workspaces there are and will be.                               *)
LEMMA PlanHas ==
  ASSUME WorkspacesInv
  PROVE  /\ IsFiniteSet(Counted) /\ IsFiniteSet(Adding) /\ IsFiniteSet(Askers)
         /\ Cardinality(Counted) \in Nat /\ Cardinality(Adding) \in Nat /\ Cardinality(Askers) \in Nat
         /\ Adding \subseteq Askers
<1>1. IsFiniteSet(DOMAIN calls) /\ IsFiniteSet(Spaces)
  BY SpacesAssumption DEF WorkspacesInv, PlanFits
<1>2. Counted \subseteq Spaces /\ Adding \subseteq Askers /\ Askers \subseteq DOMAIN calls
  BY DEF Counted, Adding, Askers, Adds
<1> QED
  BY <1>1, <1>2, FS_Subset, FS_CardinalityType

LEMMA PlanKeeps ==
  ASSUME WorkspacesInv, NEW c \in DOMAIN calls, NEW k \in Call, NEW s,
         calls' = [calls EXCEPT ![c] = k], k.what = calls[c].what,
         \A t \in Spaces : t # s => space'[t] = space[t],
         s \in Spaces /\ IsActive(s)' => IsActive(s) \/ (Adds(calls[c]) /\ ~ Adds(k)),
         Adds(k) => Adds(calls[c]) \/ MayCreate
  PROVE  PlanFits'
<1>1. DOMAIN calls' = DOMAIN calls /\ calls'[c] = k /\ \A d \in DOMAIN calls : d # c => calls'[d] = calls[d]
  OBVIOUS
<1>2. Askers' = Askers
  BY <1>1 DEF Askers
<1>3. IsFiniteSet(DOMAIN calls)'
  BY <1>1 DEF WorkspacesInv, PlanFits
<1>4. PICK n \in Nat, a \in Nat, q \in Nat, m \in Nat :
        /\ n = Cardinality(Counted) /\ a = Cardinality(Adding) /\ q = Cardinality(Askers)
        /\ m = Max({1, q}) /\ m >= q /\ n + a < Allowed + m
  BY PlanHas, MaxIs DEF WorkspacesInv, PlanFits
<1>5. Allowed \in Nat
  BY SpacesAssumption
<1>6. Counted' \subseteq Counted \/ (Counted' \subseteq Counted \cup {s} /\ Adds(calls[c]) /\ ~ Adds(k))
  BY DEF Counted, IsActive
<1>7. IsFiniteSet(Counted') /\ IsFiniteSet(Adding') /\ Adding' \subseteq Askers
  <2>1. Counted' \subseteq Spaces
    BY DEF Counted
  <2>2. Adding' \subseteq Askers'
    BY DEF Adding, Askers, Adds
  <2> QED
    BY <1>2, <2>1, <2>2, PlanHas, SpacesAssumption, FS_Subset
<1>8. PICK n2 \in Nat, a2 \in Nat : n2 = Cardinality(Counted') /\ a2 = Cardinality(Adding') /\ a2 <= q
  BY <1>4, <1>7, PlanHas, FS_Subset, FS_CardinalityType
<1>9. n2 + a2 < Allowed + m
  <2>1. CASE Counted' \subseteq Counted /\ (Adds(k) => Adds(calls[c]))
    <3>1. Adding' \subseteq Adding
      BY <1>1, <2>1 DEF Adding
    <3>2. n2 <= n /\ a2 <= a
      BY <1>4, <1>8, <2>1, <3>1, PlanHas, FS_Subset
    <3> QED
      BY <1>4, <1>5, <3>2
  <2>2. CASE Counted' \subseteq Counted /\ Adds(k) /\ MayCreate
    <3>1. n2 <= n
      BY <1>4, <1>8, <2>2, PlanHas, FS_Subset
    <3>2. n < Allowed
      BY <1>4, <2>2 DEF MayCreate
    <3> QED
      BY <1>4, <1>5, <1>8, <3>1, <3>2
  <2>3. CASE Counted' \subseteq Counted \cup {s} /\ Adds(calls[c]) /\ ~ Adds(k)
    <3>1. Adding' \subseteq Adding \ {c} /\ c \in Adding
      BY <1>1, <2>3 DEF Adding
    <3>2. IsFiniteSet(Adding \ {c}) /\ Cardinality(Adding \ {c}) = a - 1
      BY <1>4, <3>1, PlanHas, FS_RemoveElement
    <3>3. a2 <= a - 1
      BY <1>8, <3>1, <3>2, FS_Subset
    <3>4. IsFiniteSet(Counted \cup {s}) /\ Cardinality(Counted \cup {s}) <= n + 1
      <4>1. CASE s \in Counted
        <5>1. Counted \cup {s} = Counted
          BY <4>1
        <5> QED
          BY <1>4, <5>1, PlanHas
      <4>2. CASE s \notin Counted
        <5>1. IsFiniteSet(Counted)
          BY PlanHas
        <5>2. IsFiniteSet(Counted \cup {s}) /\ Cardinality(Counted \cup {s}) = Cardinality(Counted) + 1
          BY <4>2, <5>1, FS_AddElement, Zenon
        <5> QED
          BY <1>4, <5>2
      <4> QED
        BY <4>1, <4>2
    <3>5. n2 <= n + 1
      <4>1. Cardinality(Counted \cup {s}) \in Nat
        BY <3>4, FS_CardinalityType
      <4>2. n2 <= Cardinality(Counted \cup {s})
        BY <1>8, <2>3, <3>4, FS_Subset
      <4> QED
        BY <3>4, <4>1, <4>2
    <3> QED
      BY <1>4, <1>5, <3>3, <3>5
  <2> QED
    BY <1>6, <2>1, <2>2, <2>3
<1> QED
  BY <1>2, <1>3, <1>4, <1>8, <1>9 DEF PlanFits

-----------------------------------------------------------------------------
(* A step of a request, which is about one workspace.                       *)

CallMoves(c, k) == calls' = [calls EXCEPT ![c] = k]
About(c, k, s) ==
  /\ calls[c].on \in {Nowhere, s} /\ k.on \in {Nowhere, s} /\ k.what = calls[c].what
  /\ s \in Spaces => \A d \in DOMAIN calls \ {c} : calls[d].on = s => calls[d].at \notin {"join", "undo"}

LEMMA OthersStay ==
  ASSUME WorkspacesInv, NEW c \in DOMAIN calls, NEW k \in Call, CallMoves(c, k)
  PROVE  /\ DOMAIN calls' = DOMAIN calls /\ calls'[c] = k
         /\ \A d \in DOMAIN calls : d # c => calls'[d] = calls[d]
PROOF BY DEF CallMoves

LEMMA DutiesKeep ==
  ASSUME WorkspacesInv, NEW c \in DOMAIN calls, NEW k \in Call, NEW s, CallMoves(c, k), About(c, k, s),
         \A t \in Spaces : t # s => space'[t] = space[t] /\ slot'[t] = slot[t],
         wrecked \subseteq wrecked',
         s \in Spaces => \A duty \in Duties :
           Due(s, duty)' /\ s \notin wrecked' =>
             \/ k.on = s /\ Owes(k, duty)
             \/ Due(s, duty) /\ ~ Owes(calls[c], duty)
  PROVE  DutiesAreOwed'
<1> SUFFICES ASSUME NEW t \in Spaces, Whole(t)', NEW duty \in Duties, Due(t, duty)'
             PROVE  \E d \in DOMAIN calls' : calls'[d].on = t /\ Owes(calls'[d], duty)
  BY DEF DutiesAreOwed, Owes
<1>1. /\ DOMAIN calls' = DOMAIN calls /\ calls'[c] = k
      /\ \A d \in DOMAIN calls : d # c => calls'[d] = calls[d]
  BY OthersStay
<1>2. Whole(t) /\ t \notin wrecked'
  BY DEF Whole
<1>3. CASE t = s /\ k.on = s /\ Owes(k, duty)
  BY <1>1, <1>3
<1>4. CASE t # s \/ (Due(s, duty) /\ ~ Owes(calls[c], duty))
  <2>1. Due(t, duty)
    <3>1. CASE t # s
      <4>1. space'[t] = space[t] /\ slot'[t] = slot[t]
        BY <3>1
      <4> QED
        BY <4>1 DEF Due, Exists
    <3>2. CASE t = s
      BY <1>4, <3>2
    <3> QED
      BY <3>1, <3>2
  <2>2. PICK d \in DOMAIN calls : calls[d].on = t /\ Owes(calls[d], duty)
    BY <1>2, <2>1 DEF WorkspacesInv, DutiesAreOwed
  <2>3. d # c
    BY <1>4, <2>2, SpacesAssumption DEF About, Nowhere
  <2> QED
    BY <1>1, <2>2, <2>3
<1> QED
  BY <1>2, <1>3, <1>4

LEMMA OthersFit ==
  ASSUME WorkspacesInv, NEW c \in DOMAIN calls, NEW k \in Call, NEW s, CallMoves(c, k), About(c, k, s),
         \A t \in Spaces : t # s => space'[t] = space[t] /\ slot'[t] = slot[t],
         s \in Spaces => /\ space'[s].status # "NONE"
                         /\ space[s].status = "DELETED" => space'[s].status = "DELETED",
         run'.on = run.on,
         NEW d \in DOMAIN calls, d # c
  PROVE  CallFits(d)'
<1>1. PICK j \in Call : j = calls[d] /\ CallFits(d)
  BY CallIs
<1>2. calls'[d] = j /\ calls'[c] = k /\ DOMAIN calls' = DOMAIN calls
      /\ \A e \in DOMAIN calls : e # c => calls'[e] = calls[e]
  BY <1>1, OthersStay
<1>3. j.on \in Spaces => space'[j.on].status # "NONE"
  BY <1>1 DEF CallFits
<1>4. j.at = "clean" => space'[j.on].status = "DELETED"
  BY <1>1 DEF CallFits
<1>5. ASSUME j.at \in {"join", "undo"} PROVE Untouched(d, j.on)'
  <2>1. Untouched(d, j.on) /\ j.on \in Spaces
    BY <1>1, <1>5 DEF CallFits
  <2>2. j.on # s
    BY <1>1, <1>5, <2>1 DEF About
  <2>3. space'[j.on] = space[j.on] /\ slot'[j.on] = slot[j.on]
    BY <2>1, <2>2
  <2>4. k.on # j.on
    BY <2>1, <2>2, SpacesAssumption DEF About, Nowhere
  <2>5. \A e \in DOMAIN calls' : calls'[e].on = j.on => e = d
    BY <1>2, <2>1, <2>4 DEF Untouched
  <2> QED
    BY <2>1, <2>3, <2>5 DEF Untouched, IsActive
<1> QED
  BY <1>1, <1>2, <1>3, <1>4, <1>5 DEF CallFits

LEMMA CallStep ==
  ASSUME WorkspacesInv, NEW c \in DOMAIN calls, NEW k \in Call, NEW s, CallMoves(c, k), About(c, k, s),
         CallFits(c)',
         space' \in [Spaces -> Space], slot' \in [Spaces -> Slot],
         landing' \in [People -> Spaces \cup {Nowhere}], mishaps' \in Nat,
         wrecked \subseteq wrecked', wrecked' \subseteq Spaces, UNCHANGED sendings,
         \A t \in Spaces : t # s => space'[t] = space[t] /\ slot'[t] = slot[t],
         s \in Spaces => /\ space'[s].status # "NONE"
                         /\ space[s].status = "DELETED" => space'[s].status = "DELETED",
         s \in Spaces => \A duty \in Duties :
           Due(s, duty)' /\ s \notin wrecked' =>
             \/ k.on = s /\ Owes(k, duty)
             \/ Due(s, duty) /\ ~ Owes(calls[c], duty),
         run' = run \/ run' = [run EXCEPT !.since = FALSE],
         run.on = s /\ run'.since /\ IsActive(s)' => IsActive(s),
         s \in Spaces /\ IsActive(s)' => IsActive(s) \/ (Adds(calls[c]) /\ ~ Adds(k)),
         Adds(k) => Adds(calls[c]) \/ MayCreate
  PROVE  WorkspacesInv'
<1>1. PICK r \in [at : {"idle", "look", "claim", "send", "finish"},
                  on : Spaces \cup {Nowhere}, since : BOOLEAN] : r = run
  BY DEF WorkspacesInv, WorkspacesTypeOK
<1>2. /\ run'.on = r.on /\ run'.at = r.at /\ (run'.since => r.since /\ run' = run)
      /\ run' \in [at : {"idle", "look", "claim", "send", "finish"},
                   on : Spaces \cup {Nowhere}, since : BOOLEAN]
  BY <1>1
<1>3. \A d \in DOMAIN calls' : CallFits(d)'
  BY <1>1, <1>2, OthersStay, OthersFit
<1>4. WorkspacesTypeOK'
  BY <1>2, <1>3 DEF WorkspacesInv, WorkspacesTypeOK, CallFits
<1>5. \A t \in Spaces : space'[t].status = "NONE" => space'[t].crew = {} /\ slot'[t] = Empty
  BY DEF WorkspacesInv
<1>6. DutiesAreOwed'
  BY DutiesKeep
<1>7. RunFits'
  <2>1. RunFits
    BY DEF WorkspacesInv
  <2>2. r.at # "idle" => r.on \in Spaces
    BY <1>1, <2>1 DEF RunFits
  <2>3. r.on \in Spaces => space'[r.on].status # "NONE"
    BY <1>1, <2>1 DEF RunFits
  <2>4. ASSUME run'.since PROVE r.at = "look" /\ r.on \in Spaces /\ ~ IsActive(r.on)'
    <3>1. r.at = "look" /\ r.on \in Spaces /\ ~ IsActive(r.on)
      BY <1>1, <1>2, <2>1, <2>4 DEF RunFits
    <3>2. CASE r.on = s
      BY <1>1, <2>4, <3>1, <3>2
    <3>3. CASE r.on # s
      BY <3>1, <3>3 DEF IsActive
    <3> QED
      BY <3>1, <3>2, <3>3
  <2> QED
    BY <1>2, <2>2, <2>3, <2>4 DEF RunFits, IsActive
<1>8. PlanFits'
  <2>1. /\ calls' = [calls EXCEPT ![c] = k] /\ k.what = calls[c].what
        /\ \A t \in Spaces : t # s => space'[t] = space[t]
    BY DEF CallMoves, About
  <2> QED
    BY <2>1, PlanKeeps
<1> QED
  BY <1>3, <1>4, <1>5, <1>6, <1>7, <1>8 DEF WorkspacesInv

(* Of requests that only move on, and see nothing of their workspace off.   *)
LEMMA CallOnly ==
  ASSUME WorkspacesInv, NEW c \in DOMAIN calls, NEW k \in Call, NEW s, CallMoves(c, k), About(c, k, s),
         CallFits(c)', UNCHANGED <<space, slot, run, sendings>>,
         landing' \in [People -> Spaces \cup {Nowhere}], mishaps' \in Nat,
         wrecked \subseteq wrecked', wrecked' \subseteq Spaces,
         s \in Spaces => space[s].status # "NONE",
         s \in Spaces => s \in wrecked' \/ \A duty \in Duties :
           Owes(calls[c], duty) /\ Due(s, duty) => k.on = s /\ Owes(k, duty),
         Adds(k) => Adds(calls[c]) \/ MayCreate
  PROVE  WorkspacesInv'
<1>1. space \in [Spaces -> Space] /\ slot \in [Spaces -> Slot]
  BY DEF WorkspacesInv, WorkspacesTypeOK
<1>2. s \in Spaces => \A duty \in Duties : Due(s, duty)' <=> Due(s, duty)
  BY DEF Due, Exists
<1>3. s \in Spaces => \A duty \in Duties :
        Due(s, duty)' /\ s \notin wrecked' =>
          \/ k.on = s /\ Owes(k, duty)
          \/ Due(s, duty) /\ ~ Owes(calls[c], duty)
  BY <1>2
<1>4. s \in Spaces => (IsActive(s)' <=> IsActive(s))
  BY DEF IsActive
<1>5. ASSUME run.on = s, run'.since, IsActive(s)' PROVE IsActive(s)
  BY <1>5 DEF IsActive
<1> QED
  BY <1>1, <1>3, <1>4, <1>5, CallStep

(* A request that goes on to another step about the same workspace.         *)
LEMMA MoveIs ==
  ASSUME WorkspacesInv, NEW c \in DOMAIN calls, NEW step \in CallSteps, Moves(c, step)
  PROVE  \E k \in Call :
           /\ CallMoves(c, k) /\ k.at = step /\ k.on = calls[c].on /\ k.what = calls[c].what
           /\ k.read = calls[c].read /\ k.left = calls[c].left /\ k.by = calls[c].by
<1>1. PICK j \in Call : j = calls[c]
  BY CallIs
<1>2. PICK k : k = [j EXCEPT !.at = step]
  OBVIOUS
<1>3. k \in Call
  BY <1>2 DEF Call
<1>4. CallMoves(c, k)
  BY <1>1, <1>2 DEF CallMoves, Moves
<1>5. /\ k.at = step /\ k.on = j.on /\ k.what = j.what /\ k.read = j.read /\ k.left = j.left
      /\ k.by = j.by
  BY <1>2 DEF Call
<1> QED
  BY <1>1, <1>3, <1>4, <1>5

(* What a step makes of where the request itself stands.                    *)
LEMMA MovedFits ==
  ASSUME WorkspacesInv, NEW c \in DOMAIN calls, NEW k \in Call, CallMoves(c, k),
         k.at \notin {"join", "undo"},
         k.at \in {"new", "insert"} => k.on = Nowhere,
         k.at \notin {"new", "insert", "over"} => k.on \in Spaces,
         k.on \in Spaces => space'[k.on].status # "NONE",
         k.at = "clean" => space'[k.on].status = "DELETED"
  PROVE  CallFits(c)'
<1>1. calls'[c] = k
  BY OthersStay
<1> QED
  BY <1>1 DEF CallFits

LEMMA AloneAbout ==
  ASSUME WorkspacesInv, NEW c \in DOMAIN calls, NEW k \in Call, k.what = calls[c].what,
         k.on \in {Nowhere, calls[c].on}
  PROVE  About(c, k, calls[c].on)
<1>1. ASSUME calls[c].on \in Spaces, NEW d \in DOMAIN calls \ {c}, calls[d].on = calls[c].on,
             calls[d].at \in {"join", "undo"}
      PROVE  FALSE
  <2>1. Untouched(d, calls[d].on)
    BY <1>1, CallIs DEF CallFits
  <2> QED
    BY <1>1, <2>1 DEF Untouched
<1> QED
  BY <1>1 DEF About

(* A crew that is there: nobody has yet to be given to it.                  *)
LEMMA CrewAbout ==
  ASSUME WorkspacesInv, NEW c \in DOMAIN calls, NEW k \in Call, k.what = calls[c].what,
         calls[c].on = Nowhere, NEW s \in Spaces, k.on = s, space[s].crew # {}
  PROVE  About(c, k, s)
<1>1. ASSUME NEW d \in DOMAIN calls \ {c}, calls[d].on = s, calls[d].at \in {"join", "undo"}
      PROVE  FALSE
  <2>1. Untouched(d, s)
    BY <1>1, CallIs DEF CallFits
  <2> QED
    BY <2>1 DEF Untouched
<1> QED
  BY <1>1 DEF About

(* A set of numbers has a least one.                                        *)
LEMMA LeastIs ==
  ASSUME NEW S, S \subseteq Nat, S # {}
  PROVE  Min(S) \in S
<1>1. IsWellFoundedOn({p \in Nat \X Nat : p[1] < p[2]}, Nat)
  BY NatLessThanWellFounded DEF OpToRel
<1>2. PICK R : R = {p \in Nat \X Nat : p[1] < p[2]} /\ IsWellFoundedOn(R, Nat)
  BY <1>1
<1>3. PICK m \in S : \A y \in S : ~ (<<y, m>> \in R)
  BY <1>2, WFMin
<1>4. ASSUME NEW y \in S PROVE m <= y
  <2>1. PICK a \in Nat, b \in Nat : a = y /\ b = m
    OBVIOUS
  <2>2. <<a, b>> \notin R
    BY <1>3, <2>1
  <2>3. <<a, b>> \in Nat \X Nat /\ <<a, b>>[1] = a /\ <<a, b>>[2] = b
    OBVIOUS
  <2>4. ~ (a < b)
    BY <1>2, <2>2, <2>3
  <2> QED
    BY <2>1, <2>4
<1> QED
  BY <1>4 DEF Min

(* The workspace the app opens is one that is offered.                      *)
LEMMA LandedIs ==
  ASSUME NEW p, Landed(p) # Nowhere
  PROVE  Landed(p) \in Offered(p, "ACTIVE")
<1>1. CASE landing[p] \in Offered(p, "ACTIVE") \/ Offered(p, "ACTIVE") = {}
  BY <1>1 DEF Landed
<1>2. CASE landing[p] \notin Offered(p, "ACTIVE") /\ Offered(p, "ACTIVE") # {}
  <2>1. PICK S : S = Offered(p, "ACTIVE") /\ S \subseteq Nat /\ S # {}
    BY <1>2, SpacesAssumption DEF Offered, Shown
  <2>2. Min(S) \in S
    BY <2>1, LeastIs
  <2> QED
    BY <1>2, <2>1, <2>2 DEF Landed
<1> QED
  BY <1>1, <1>2

LEMMA AimStep ==
  ASSUME WorkspacesInv, NEW c \in DOMAIN calls, Aim(c)
  PROVE  WorkspacesInv'
<1>1. PICK j \in Call : j = calls[c] /\ CallFits(c)
  BY CallIs
<1>2. j.at = "new" /\ j.what # "create" /\ UNCHANGED <<space, slot, landing, run, sendings, mishaps, wrecked>>
  BY <1>1 DEF Aim
<1>3. PICK s : /\ s \in Spaces /\ space[s].status \in {"ACTIVE", "ARCHIVED"} /\ space[s].crew # {}
               /\ calls' = [calls EXCEPT ![c].at = "enter", ![c].on = s]
  <2> DEFINE targets == CASE calls[c].what = "schedule" -> {Landed(calls[c].by)} \ {Nowhere}
                          [] calls[c].what \in {"switch", "archive"} -> Offered(calls[c].by, "ACTIVE")
                          [] OTHER -> Offered(calls[c].by, "ARCHIVED")
  <2>1. PICK s \in targets : calls' = [calls EXCEPT ![c].at = "enter", ![c].on = s]
    BY Zenon DEF Aim
  <2>2. s \in Offered(j.by, "ACTIVE") \/ s \in Offered(j.by, "ARCHIVED")
    <3>1. CASE j.what = "schedule"
      <4>1. s = Landed(j.by) /\ s # Nowhere
        BY <1>1, <2>1, <3>1
      <4>2. Offered(j.by, "ACTIVE") \subseteq Nat
        BY SpacesAssumption DEF Offered, Shown
      <4> QED
        BY <4>1, <4>2, LandedIs
    <3>2. CASE j.what \in {"switch", "archive"}
      BY <1>1, <2>1, <3>2
    <3>3. CASE j.what \notin {"schedule", "switch", "archive"}
      BY <1>1, <2>1, <3>3
    <3> QED
      BY <3>1, <3>2, <3>3
  <2> QED
    BY <2>1, <2>2 DEF Offered, Shown
<1>4. PICK k : k = [j EXCEPT !.at = "enter", !.on = s]
  OBVIOUS
<1>5. k \in Call /\ k.at = "enter" /\ k.on = s /\ k.what = j.what
  BY <1>3, <1>4 DEF Call, CallSteps
<1>6. CallMoves(c, k)
  BY <1>1, <1>3, <1>4 DEF CallMoves
<1>7. j.on = Nowhere
  BY <1>1, <1>2 DEF CallFits
<1>8. About(c, k, s)
  BY <1>1, <1>3, <1>5, <1>7, CrewAbout
<1>9. CallFits(c)'
  BY <1>2, <1>3, <1>5, <1>6, MovedFits
<1>10. /\ landing' \in [People -> Spaces \cup {Nowhere}] /\ mishaps' \in Nat
       /\ wrecked \subseteq wrecked' /\ wrecked' \subseteq Spaces
  BY <1>2 DEF WorkspacesInv, WorkspacesTypeOK
<1>11. \A duty \in Duties : ~ Owes(j, duty)
  BY <1>2 DEF Owes
<1>12. ~ Adds(k)
  BY <1>5 DEF Adds
<1> QED
  BY <1>1, <1>2, <1>3, <1>5, <1>6, <1>8, <1>9, <1>10, <1>11, <1>12, CallOnly

LEMMA RestsTyped ==
  ASSUME WorkspacesInv
  PROVE  /\ landing \in [People -> Spaces \cup {Nowhere}] /\ mishaps \in Nat
         /\ wrecked \subseteq wrecked /\ wrecked \subseteq Spaces
         /\ space \in [Spaces -> Space] /\ slot \in [Spaces -> Slot] /\ Nowhere \notin Spaces
  BY SpacesAssumption DEF WorkspacesInv, WorkspacesTypeOK, Nowhere

LEMMA EnterStep ==
  ASSUME WorkspacesInv, NEW c \in DOMAIN calls, Enter(c)
  PROVE  WorkspacesInv'
<1>1. PICK j \in Call : j = calls[c] /\ CallFits(c)
  BY CallIs
<1>2. j.at = "enter" /\ UNCHANGED <<space, slot, landing, run, sendings, mishaps, wrecked>>
  BY <1>1 DEF Enter
<1>3. PICK s \in Spaces : s = j.on /\ space[s].status # "NONE"
  BY <1>1, <1>2 DEF CallFits
<1>4. PICK k \in Call : /\ CallMoves(c, k) /\ k.on = s /\ k.what = j.what
                        /\ \/ k.at = "over"
                           \/ k.at \in {"land", "queue", "archive", "count", "remove"}
                           \/ k.at = "restore" /\ k.read = "ACTIVE"
  <2>1. CASE MayEnter(calls[c].by, calls[c].on, calls[c].what \in {"restore", "delete"})
    <3>1. PICK first, status : /\ calls' = [calls EXCEPT ![c].at = first, ![c].read = status]
                               /\ status = space[s].status
                               /\ first \in {"land", "queue", "archive", "count", "remove", "over", "restore"}
                               /\ first = "restore" => status = "ACTIVE"
      <4>1. PICK status : status = space[calls[c].on].status
        OBVIOUS
      <4>2. PICK first : first = (CASE calls[c].what = "switch" -> "land"
                                    [] calls[c].what = "schedule" -> "queue"
                                    [] calls[c].what = "archive" -> "archive"
                                    [] calls[c].what = "restore" ->
                                         IF status = "ACTIVE" THEN "restore" ELSE "count"
                                    [] OTHER -> IF status = "ARCHIVED" THEN "remove" ELSE "over")
        OBVIOUS
      <4>3. calls' = [calls EXCEPT ![c].at = first, ![c].read = status]
        BY <2>1, <4>1, <4>2, Zenon DEF Enter
      <4>4. /\ first \in {"land", "queue", "archive", "count", "remove", "over", "restore"}
            /\ first = "restore" => status = "ACTIVE"
        BY <4>2
      <4> QED
        BY <1>1, <1>3, <4>1, <4>3, <4>4
    <3>2. status \in {"ACTIVE", "ARCHIVED"}
      BY <1>1, <1>3, <2>1, <3>1 DEF MayEnter, Exists, IsActive
    <3>3. PICK k : k = [j EXCEPT !.at = first, !.read = status]
      OBVIOUS
    <3>4. k \in Call /\ k.at = first /\ k.read = status /\ k.on = j.on /\ k.what = j.what
      BY <3>1, <3>2, <3>3 DEF Call, CallSteps
    <3>5. CallMoves(c, k)
      BY <1>1, <3>1, <3>3 DEF CallMoves
    <3> QED
      BY <1>3, <3>1, <3>4, <3>5
  <2>2. CASE ~ MayEnter(calls[c].by, calls[c].on, calls[c].what \in {"restore", "delete"})
    <3>1. Moves(c, "over")
      BY <2>2, Zenon DEF Enter
    <3>2. "over" \in CallSteps
      BY DEF CallSteps
    <3> QED
      BY <1>1, <1>3, <3>1, <3>2, MoveIs
  <2> QED
    BY <2>1, <2>2
<1>5. About(c, k, s)
  BY <1>1, <1>3, <1>4, AloneAbout
<1>6. CallFits(c)'
  BY <1>2, <1>3, <1>4, MovedFits
<1>7. \A duty \in Duties : ~ Owes(j, duty)
  BY <1>2 DEF Owes
<1>8. ~ Adds(k)
  BY <1>4 DEF Adds
<1> QED
  BY <1>1, <1>2, <1>3, <1>4, <1>5, <1>6, <1>7, <1>8, RestsTyped, CallOnly

LEMMA CountStep ==
  ASSUME WorkspacesInv, NEW c \in DOMAIN calls, Count(c)
  PROVE  WorkspacesInv'
<1>1. PICK j \in Call : j = calls[c] /\ CallFits(c)
  BY CallIs
<1>2. /\ (j.what = "create" /\ j.at = "new") \/ (j.what = "restore" /\ j.at = "count")
      /\ UNCHANGED <<space, slot, landing, run, sendings, mishaps, wrecked>>
  BY <1>1 DEF Count, Does
<1>3. PICK step \in CallSteps :
        /\ Moves(c, step)
        /\ step \in {"over", "insert", "restore"} /\ (step # "over" => MayCreate)
        /\ step = "insert" => j.what = "create"
        /\ step = "restore" => j.what = "restore"
  <2>1. PICK step : step = IF ~MayCreate THEN "over"
                           ELSE IF calls[c].what = "create" THEN "insert" ELSE "restore"
    OBVIOUS
  <2>2. Moves(c, step)
    BY <2>1, Zenon DEF Count
  <2> QED
    BY <1>1, <1>2, <2>1, <2>2 DEF CallSteps
<1>4. PICK k \in Call : CallMoves(c, k) /\ k.at = step /\ k.on = j.on /\ k.what = j.what
  BY <1>1, <1>3, MoveIs
<1>5. About(c, k, j.on)
  BY <1>1, <1>4, AloneAbout
<1>6. /\ j.on \in Spaces => space[j.on].status # "NONE"
      /\ j.what = "create" => j.on = Nowhere
      /\ j.what = "restore" => j.on \in Spaces
  BY <1>1, <1>2 DEF CallFits
<1>7. CallFits(c)'
  BY <1>2, <1>3, <1>4, <1>6, MovedFits
<1>8. \A duty \in Duties : ~ Owes(j, duty)
  BY <1>2 DEF Owes
<1>9. Adds(k) => MayCreate
  BY <1>3, <1>4 DEF Adds
<1> QED
  BY <1>1, <1>2, <1>4, <1>5, <1>6, <1>7, <1>8, <1>9, RestsTyped, CallOnly

(* Steps of a request about its workspace that only move on.                *)
LEMMA GoOn ==
  ASSUME WorkspacesInv, NEW c \in DOMAIN calls, NEW step \in CallSteps, Moves(c, step),
         calls[c].at \notin {"new", "enter", "insert", "over"},
         step \notin {"new", "insert", "restore", "clean", "join", "undo"},
         \A duty \in Duties : Owes(calls[c], duty) /\ Due(calls[c].on, duty) =>
           Owes([calls[c] EXCEPT !.at = step], duty),
         UNCHANGED <<space, slot, run, sendings, mishaps, wrecked>>,
         landing' \in [People -> Spaces \cup {Nowhere}]
  PROVE  WorkspacesInv'
<1>1. PICK j \in Call : j = calls[c] /\ CallFits(c)
  BY CallIs
<1>2. PICK s \in Spaces : s = j.on /\ space[s].status # "NONE"
  BY <1>1 DEF CallFits
<1>3. PICK k \in Call : CallMoves(c, k) /\ k = [j EXCEPT !.at = step]
                        /\ k.at = step /\ k.on = s /\ k.what = j.what
  <2>1. PICK k : k = [j EXCEPT !.at = step]
    OBVIOUS
  <2>2. k \in Call /\ k.at = step /\ k.on = j.on /\ k.what = j.what
    BY <2>1 DEF Call
  <2>3. CallMoves(c, k)
    BY <1>1, <2>1 DEF CallMoves, Moves
  <2> QED
    BY <1>2, <2>1, <2>2, <2>3
<1>4. About(c, k, s)
  BY <1>1, <1>2, <1>3, AloneAbout
<1>5. CallFits(c)'
  BY <1>2, <1>3, MovedFits
<1>6. ~ Adds(k)
  BY <1>3 DEF Adds
<1>7. \A duty \in Duties : Owes(j, duty) /\ Due(s, duty) => Owes(k, duty)
  BY <1>1, <1>2, <1>3
<1> QED
  BY <1>1, <1>2, <1>3, <1>4, <1>5, <1>6, <1>7, RestsTyped, CallOnly

LEMMA LandStep ==
  ASSUME WorkspacesInv, NEW c \in DOMAIN calls, Land(c)
  PROVE  WorkspacesInv'
<1>1. PICK j \in Call : j = calls[c] /\ CallFits(c)
  BY CallIs
<1>2. /\ j.at = "land" /\ Moves(c, "over") /\ landing' = [landing EXCEPT ![j.by] = j.on]
      /\ UNCHANGED <<space, slot, run, sendings, mishaps, wrecked>> /\ "over" \in CallSteps
  BY <1>1 DEF Land, CallSteps
<1>3. landing' \in [People -> Spaces \cup {Nowhere}]
  BY <1>2, RestsTyped DEF Call
<1>4. \A duty \in Duties : ~ Owes(j, duty)
  BY <1>2 DEF Owes
<1> QED
  BY <1>1, <1>2, <1>3, <1>4, GoOn

LEMMA UnlandStep ==
  ASSUME WorkspacesInv, NEW c \in DOMAIN calls, Unland(c)
  PROVE  WorkspacesInv'
<1>1. PICK j \in Call : j = calls[c] /\ CallFits(c)
  BY CallIs
<1>2. /\ j.what = "archive" /\ j.at = "unland" /\ Moves(c, "list") /\ landing' = NoLanding(j.on)
      /\ UNCHANGED <<space, slot, run, sendings, mishaps, wrecked>> /\ "list" \in CallSteps
  BY <1>1 DEF Unland, ArchiveStep, Does, CallSteps
<1>3. landing' \in [People -> Spaces \cup {Nowhere}]
  BY <1>2, RestsTyped DEF NoLanding
<1>4. \A duty \in Duties : Owes(j, duty) => Owes([j EXCEPT !.at = "list"], duty)
  BY <1>2 DEF Owes, Call
<1> QED
  BY <1>1, <1>2, <1>3, <1>4, GoOn

LEMMA ListScheduledStep ==
  ASSUME WorkspacesInv, NEW c \in DOMAIN calls, ListScheduled(c)
  PROVE  WorkspacesInv'
<1>1. PICK j \in Call : j = calls[c] /\ CallFits(c)
  BY CallIs
<1>2. PICK step \in {"cancel", "pause"} :
        /\ j.what = "archive" /\ j.at = "list" /\ Moves(c, step)
        /\ UNCHANGED <<space, slot, landing, run, sendings, mishaps, wrecked>> /\ step \in CallSteps
  <2>1. PICK step : step = IF slot[calls[c].on].post = "SCHEDULED" THEN "cancel" ELSE "pause"
    OBVIOUS
  <2>2. Moves(c, step)
    BY <2>1, Zenon DEF ListScheduled
  <2> QED
    BY <1>1, <2>1, <2>2 DEF ListScheduled, ArchiveStep, Does, CallSteps
<1>3. \A duty \in Duties : Owes(j, duty) => Owes([j EXCEPT !.at = step], duty)
  BY <1>2 DEF Owes, Call
<1> QED
  BY <1>1, <1>2, <1>3, RestsTyped, GoOn

LEMMA ServerDiesStep ==
  ASSUME WorkspacesInv, NEW c \in DOMAIN calls, ServerDies(c)
  PROVE  WorkspacesInv'
<1>1. PICK j \in Call : j = calls[c] /\ CallFits(c)
  BY CallIs
<1>2. /\ j.on # Nowhere /\ Fails /\ Moves(c, "over") /\ wrecked' = wrecked \cup {j.on}
      /\ UNCHANGED <<space, slot, landing, run, sendings>> /\ "over" \in CallSteps
  BY <1>1 DEF ServerDies, CallSteps
<1>3. PICK s \in Spaces : s = j.on /\ space[s].status # "NONE"
  BY <1>1, <1>2 DEF CallFits, Call
<1>4. PICK k \in Call : CallMoves(c, k) /\ k.at = "over" /\ k.on = s /\ k.what = j.what
  BY <1>1, <1>2, <1>3, MoveIs
<1>5. About(c, k, s)
  BY <1>1, <1>3, <1>4, AloneAbout
<1>6. CallFits(c)'
  BY <1>2, <1>3, <1>4, MovedFits
<1>7. mishaps' \in Nat
  BY <1>2, RestsTyped DEF Fails
<1>8. ~ Adds(k) /\ s \in wrecked' /\ wrecked \subseteq wrecked' /\ wrecked' \subseteq Spaces
  BY <1>2, <1>3, <1>4, RestsTyped DEF Adds
<1> QED
  BY <1>1, <1>2, <1>3, <1>4, <1>5, <1>6, <1>7, <1>8, RestsTyped, CallOnly

(* A request that writes its workspace and goes on.                         *)
LEMMA SpaceWritten ==
  ASSUME WorkspacesInv, NEW s \in Spaces, NEW x \in Space, space' = [space EXCEPT ![s] = x]
  PROVE  /\ space' \in [Spaces -> Space] /\ space'[s] = x
         /\ \A t \in Spaces : t # s => space'[t] = space[t]
  BY RestsTyped

LEMMA SlotWritten ==
  ASSUME WorkspacesInv, NEW s \in Spaces, NEW y \in Slot, slot' = [slot EXCEPT ![s] = y]
  PROVE  /\ slot' \in [Spaces -> Slot] /\ slot'[s] = y
         /\ \A t \in Spaces : t # s => slot'[t] = slot[t]
  BY RestsTyped

LEMMA EstablishStep ==
  ASSUME WorkspacesInv, NEW c \in DOMAIN calls, Establish(c)
  PROVE  WorkspacesInv'
<1>1. PICK j \in Call : j = calls[c] /\ CallFits(c)
  BY CallIs
<1>2. /\ j.what = "create" /\ j.at = "insert" /\ j.on = Nowhere
      /\ UNCHANGED <<slot, landing, run, sendings, mishaps, wrecked>>
  BY <1>1 DEF Establish, Does, CallFits
<1>3. PICK s \in Spaces : /\ space[s].status = "NONE"
                          /\ space' = [space EXCEPT ![s].status = "ACTIVE"]
                          /\ calls' = [calls EXCEPT ![c].at = "join", ![c].on = s]
  BY Zenon DEF Establish
<1>4. PICK w \in Space : w = space[s] /\ w.crew = {} /\ slot[s] = Empty
  BY <1>3, SpaceIs DEF WorkspacesInv
<1>5. PICK x : x = [w EXCEPT !.status = "ACTIVE"]
  OBVIOUS
<1>6. x \in Space /\ x.status = "ACTIVE" /\ x.crew = {}
  BY <1>4, <1>5 DEF Space
<1>7. space' = [space EXCEPT ![s] = x]
  BY <1>3, <1>4, <1>5
<1>8. space' \in [Spaces -> Space] /\ space'[s] = x /\ \A t \in Spaces : t # s => space'[t] = space[t]
  BY <1>6, <1>7, SpaceWritten
<1>9. PICK k : k = [j EXCEPT !.at = "join", !.on = s]
  OBVIOUS
<1>10. k \in Call /\ k.at = "join" /\ k.on = s /\ k.what = j.what
  BY <1>9 DEF Call, CallSteps
<1>11. CallMoves(c, k)
  BY <1>1, <1>3, <1>9 DEF CallMoves
<1>12. \A d \in DOMAIN calls : calls[d].on # s
  BY <1>3, CallIs DEF CallFits
<1>13. About(c, k, s)
  BY <1>1, <1>2, <1>10, <1>12 DEF About
<1>14. run.on # s
  BY <1>3 DEF WorkspacesInv, RunFits
<1>15. CallFits(c)'
  <2>1. calls'[c] = k /\ DOMAIN calls' = DOMAIN calls /\ \A d \in DOMAIN calls : d # c => calls'[d] = calls[d]
    BY <1>10, <1>11, OthersStay
  <2>2. Untouched(c, s)'
    <3>1. IsActive(s)' /\ space'[s].crew = {} /\ slot'[s] = Empty /\ run'.on # s
      BY <1>2, <1>4, <1>6, <1>8, <1>14 DEF IsActive
    <3>2. \A d \in DOMAIN calls' : calls'[d].on = s => d = c
      BY <1>12, <2>1
    <3> QED
      BY <3>1, <3>2 DEF Untouched
  <2> QED
    BY <1>6, <1>8, <1>10, <2>1, <2>2 DEF CallFits
<1>16. \A duty \in Duties : Due(s, duty)' => Owes(k, duty)
  BY <1>6, <1>8, <1>10 DEF Due, Owes
<1>17. Adds(j) /\ ~ Adds(k)
  BY <1>2, <1>10 DEF Adds
<1>18. slot' \in [Spaces -> Slot] /\ \A t \in Spaces : t # s => slot'[t] = slot[t]
  BY <1>2, RestsTyped
<1> QED
  BY <1>1, <1>2, <1>3, <1>6, <1>8, <1>10, <1>11, <1>13, <1>14, <1>15, <1>16, <1>17, <1>18, RestsTyped, CallStep

(* A request writes its workspace or its post, and goes on.                 *)
LEMMA WriteAndGoOn ==
  ASSUME WorkspacesInv, NEW c \in DOMAIN calls, NEW s \in Spaces, calls[c].on = s,
         NEW k \in Call, CallMoves(c, k), k.what = calls[c].what, k.on = s,
         NEW x \in Space, space' = [space EXCEPT ![s] = x], NEW y \in Slot, slot' = [slot EXCEPT ![s] = y],
         x.status # "NONE", space[s].status = "DELETED" => x.status = "DELETED",
         x.status = "ACTIVE" => space[s].status = "ACTIVE",
         k.at \notin {"new", "insert", "restore", "join", "undo"},
         k.at = "clean" => x.status = "DELETED",
         \A duty \in Duties : Due(s, duty)' => Owes(k, duty) \/ (Due(s, duty) /\ ~ Owes(calls[c], duty)),
         UNCHANGED <<run, sendings, mishaps, wrecked>>,
         landing' \in [People -> Spaces \cup {Nowhere}]
  PROVE  WorkspacesInv'
<1>1. space' \in [Spaces -> Space] /\ space'[s] = x /\ \A t \in Spaces : t # s => space'[t] = space[t]
  BY SpaceWritten
<1>2. slot' \in [Spaces -> Slot] /\ slot'[s] = y /\ \A t \in Spaces : t # s => slot'[t] = slot[t]
  BY SlotWritten
<1>3. About(c, k, s)
  BY AloneAbout
<1>4. CallFits(c)'
  BY <1>1, MovedFits
<1>5. ~ Adds(k)
  BY DEF Adds
<1>6. IsActive(s)' => IsActive(s)
  BY <1>1 DEF IsActive
<1> QED
  BY <1>1, <1>2, <1>3, <1>4, <1>5, <1>6, RestsTyped, CallStep

LEMMA StayIs ==
  ASSUME WorkspacesInv, NEW s \in Spaces
  PROVE  /\ space = [space EXCEPT ![s] = space[s]] /\ space[s] \in Space
         /\ slot = [slot EXCEPT ![s] = slot[s]] /\ slot[s] \in Slot
  BY RestsTyped

LEMMA JoinStep ==
  ASSUME WorkspacesInv, NEW c \in DOMAIN calls, Join(c)
  PROVE  WorkspacesInv'
<1>1. PICK j \in Call : j = calls[c] /\ CallFits(c)
  BY CallIs
<1>2. /\ j.what = "create" /\ j.at = "join" /\ UNCHANGED <<slot, landing, run, sendings, wrecked>>
  BY <1>1 DEF Join, Does
<1>3. PICK s \in Spaces : s = j.on /\ Untouched(c, s) /\ space[s].status # "NONE"
  BY <1>1, <1>2 DEF CallFits
<1>4. PICK w \in Space : w = space[s]
  BY SpaceIs
<1>5. CASE /\ space' = [space EXCEPT ![calls[c].on].crew = {Owner}]
           /\ Moves(c, "land") /\ UNCHANGED mishaps
  <2>1. PICK x : x = [w EXCEPT !.crew = {Owner}]
    OBVIOUS
  <2>2. x \in Space /\ x.status = w.status /\ x.crew = {Owner}
    BY <2>1 DEF Space, People
  <2>3. space' = [space EXCEPT ![s] = x]
    BY <1>1, <1>3, <1>4, <1>5, <2>1
  <2>4. PICK k \in Call : CallMoves(c, k) /\ k.at = "land" /\ k.on = s /\ k.what = j.what
    BY <1>1, <1>3, <1>5, MoveIs DEF CallSteps
  <2>5. space'[s] = x
    BY <2>2, <2>3, SpaceWritten
  <2>6. x.status = "ACTIVE"
    BY <1>3, <1>4, <2>2 DEF Untouched, IsActive
  <2>7. \A duty \in Duties : ~ Due(s, duty)'
    BY <1>2, <2>2, <2>5, <2>6 DEF Due
  <2>8. slot' = [slot EXCEPT ![s] = slot[s]] /\ slot[s] \in Slot
    BY <1>2, StayIs
  <2>9. /\ calls[c].on = s /\ k.what = calls[c].what
        /\ space[s].status = "ACTIVE" /\ space[s].status # "DELETED"
    BY <1>1, <1>3, <2>4 DEF Untouched, IsActive
  <2>10. UNCHANGED <<run, sendings, mishaps, wrecked>> /\ landing' \in [People -> Spaces \cup {Nowhere}]
    BY <1>2, <1>5, RestsTyped
  <2> QED
    BY <2>2, <2>3, <2>4, <2>6, <2>7, <2>8, <2>9, <2>10, WriteAndGoOn
<1>6. CASE Fails /\ Moves(c, "undo") /\ UNCHANGED space
  <2>1. PICK k \in Call : CallMoves(c, k) /\ k.at = "undo" /\ k.on = s /\ k.what = j.what
    BY <1>1, <1>3, <1>6, MoveIs DEF CallSteps
  <2>2. About(c, k, s)
    BY <1>1, <1>3, <2>1, AloneAbout
  <2>3. CallFits(c)'
    <3>1. calls'[c] = k /\ DOMAIN calls' = DOMAIN calls /\ \A d \in DOMAIN calls : d # c => calls'[d] = calls[d]
      BY <2>1, OthersStay
    <3>2. Untouched(c, s)'
      BY <1>2, <1>3, <1>6, <3>1 DEF Untouched, IsActive
    <3> QED
      BY <1>3, <1>6, <2>1, <3>1, <3>2 DEF CallFits
  <2>4. \A duty \in Duties : Owes(j, duty) => Owes(k, duty)
    BY <1>2, <2>1 DEF Owes
  <2>5. ~ Adds(k)
    BY <2>1 DEF Adds
  <2>6. mishaps' \in Nat
    BY <1>6, RestsTyped DEF Fails
  <2> QED
    BY <1>1, <1>2, <1>3, <1>6, <2>1, <2>2, <2>3, <2>4, <2>5, <2>6, RestsTyped, CallOnly
<1> QED
  BY <1>5, <1>6 DEF Join, AfterRefusal

LEMMA UndoStep ==
  ASSUME WorkspacesInv, NEW c \in DOMAIN calls, Undo(c)
  PROVE  WorkspacesInv'
<1>1. PICK j \in Call : j = calls[c] /\ CallFits(c)
  BY CallIs
<1>2. /\ j.what = "create" /\ j.at = "undo" /\ UNCHANGED <<slot, landing, run, sendings, mishaps, wrecked>>
      /\ space' = [space EXCEPT ![j.on].status = "DELETED"] /\ Moves(c, "over")
  BY <1>1 DEF Undo, Does
<1>3. PICK s \in Spaces : s = j.on /\ Untouched(c, s)
  BY <1>1, <1>2 DEF CallFits
<1>4. PICK w \in Space : w = space[s] /\ w.crew = {} /\ slot[s] = Empty
  BY <1>3, SpaceIs DEF Untouched
<1>5. PICK x : x = [w EXCEPT !.status = "DELETED"]
  OBVIOUS
<1>6. x \in Space /\ x.status = "DELETED" /\ x.crew = {}
  BY <1>4, <1>5 DEF Space
<1>7. space' = [space EXCEPT ![s] = x] /\ space'[s] = x
  BY <1>2, <1>3, <1>4, <1>5, <1>6, SpaceWritten
<1>8. PICK k \in Call : CallMoves(c, k) /\ k.at = "over" /\ k.on = s /\ k.what = j.what
  BY <1>1, <1>2, <1>3, MoveIs DEF CallSteps
<1>9. \A duty \in Duties : ~ Due(s, duty)'
  BY <1>2, <1>4, <1>6, <1>7 DEF Due, Exists, Empty
<1>10. slot' = [slot EXCEPT ![s] = slot[s]] /\ slot[s] \in Slot
  BY <1>2, StayIs
<1>11. calls[c].on = s /\ k.what = calls[c].what
  BY <1>1, <1>3, <1>8
<1>12. UNCHANGED <<run, sendings, mishaps, wrecked>> /\ landing' \in [People -> Spaces \cup {Nowhere}]
  BY <1>2, RestsTyped
<1> QED
  BY <1>6, <1>7, <1>8, <1>9, <1>10, <1>11, <1>12, WriteAndGoOn

LEMMA ReinstateStep ==
  ASSUME WorkspacesInv, NEW c \in DOMAIN calls, Reinstate(c)
  PROVE  WorkspacesInv'
<1>1. PICK j \in Call : j = calls[c] /\ CallFits(c)
  BY CallIs
<1>2. PICK s \in Spaces : s = j.on /\ space[s].status # "NONE" /\ j.what = "restore" /\ j.at = "restore"
  BY <1>1 DEF CallFits, Reinstate, Does
<1>3. /\ UNCHANGED <<slot, landing, sendings, mishaps, wrecked>> /\ Moves(c, "over")
      /\ space' = IF j.read = "ARCHIVED" /\ Exists(s) THEN [space EXCEPT ![s].status = "ACTIVE"] ELSE space
      /\ run' = IF j.read = "ARCHIVED" /\ Exists(s) /\ run.on = s
                  THEN [run EXCEPT !.since = FALSE] ELSE run
  BY <1>1, <1>2 DEF Reinstate
<1>4. CASE j.read = "ARCHIVED" /\ Exists(s)
  <2>1. PICK w \in Space : w = space[s]
    BY SpaceIs
  <2>2. PICK x : x = [w EXCEPT !.status = "ACTIVE"]
    OBVIOUS
  <2>3. x \in Space /\ x.status = "ACTIVE" /\ x.crew = w.crew
    BY <2>2 DEF Space
  <2>4. space' = [space EXCEPT ![s] = x]
    BY <1>3, <1>4, <2>1, <2>2
  <2>5. space' \in [Spaces -> Space] /\ space'[s] = x /\ \A t \in Spaces : t # s => space'[t] = space[t]
    BY <2>3, <2>4, SpaceWritten
  <2>6. PICK k \in Call : CallMoves(c, k) /\ k.at = "over" /\ k.on = s /\ k.what = j.what
    BY <1>1, <1>2, <1>3, MoveIs DEF CallSteps
  <2>7. About(c, k, s)
    BY <1>1, <1>2, <2>6, AloneAbout
  <2>8. CallFits(c)'
    BY <2>3, <2>5, <2>6, MovedFits
  <2>9. \A duty \in Duties : Due(s, duty)' => Due(s, duty) /\ ~ Owes(j, duty)
    BY <1>2, <1>4, <2>1, <2>3, <2>5 DEF Due, Owes, Exists
  <2>10. Adds(j) /\ ~ Adds(k)
    BY <1>2, <1>4, <2>6 DEF Adds
  <2>11. run \in [at : {"idle", "look", "claim", "send", "finish"}, on : Spaces \cup {Nowhere}, since : BOOLEAN]
    BY DEF WorkspacesInv, WorkspacesTypeOK
  <2>12. /\ run' = run \/ run' = [run EXCEPT !.since = FALSE]
         /\ run.on = s => ~ run'.since
    BY <1>3, <1>4, <2>11
  <2>13. slot' \in [Spaces -> Slot] /\ \A t \in Spaces : t # s => slot'[t] = slot[t]
    BY <1>3, RestsTyped
  <2> QED
    BY <1>1, <1>2, <1>3, <1>4, <2>3, <2>5, <2>6, <2>7, <2>8, <2>9, <2>10, <2>12, <2>13, RestsTyped,
       CallStep DEF Exists
<1>5. CASE ~ (j.read = "ARCHIVED" /\ Exists(s))
  <2>1. UNCHANGED <<space, slot, run, sendings, mishaps, wrecked>>
    BY <1>3, <1>5
  <2>2. \A duty \in Duties : ~ Owes(j, duty)
    BY <1>2 DEF Owes
  <2>3. "over" \in CallSteps
    BY DEF CallSteps
  <2> QED
    BY <1>1, <1>2, <1>3, <2>1, <2>2, <2>3, RestsTyped, GoOn
<1> QED
  BY <1>4, <1>5

LEMMA ArchiveMove ==
  ASSUME WorkspacesInv, NEW c \in DOMAIN calls, Archive(c)
  PROVE  WorkspacesInv'
<1>1. PICK j \in Call : j = calls[c] /\ CallFits(c)
  BY CallIs
<1>2. PICK s \in Spaces : s = j.on /\ space[s].status # "NONE" /\ j.what = "archive" /\ j.at = "archive"
  BY <1>1 DEF CallFits, Archive, ArchiveStep, Does
<1>3. /\ UNCHANGED <<slot, landing, run, sendings, mishaps, wrecked>>
      /\ IF Exists(s) THEN space' = [space EXCEPT ![s].status = "ARCHIVED"] /\ Moves(c, "revoke")
                      ELSE UNCHANGED space /\ Moves(c, "over")
  BY <1>1, <1>2 DEF Archive
<1>4. CASE Exists(s)
  <2>1. PICK w \in Space : w = space[s]
    BY SpaceIs
  <2>2. PICK x : x = [w EXCEPT !.status = "ARCHIVED"]
    OBVIOUS
  <2>3. x \in Space /\ x.status = "ARCHIVED" /\ x.crew = w.crew
    BY <2>2 DEF Space
  <2>4. space' = [space EXCEPT ![s] = x] /\ space'[s] = x
    BY <1>3, <1>4, <2>1, <2>2, <2>3, SpaceWritten
  <2>5. PICK k \in Call : CallMoves(c, k) /\ k.at = "revoke" /\ k.on = s /\ k.what = j.what
    BY <1>1, <1>2, <1>3, <1>4, MoveIs DEF CallSteps
  <2>6. \A duty \in Duties : Due(s, duty)' => Owes(k, duty) \/ (Due(s, duty) /\ ~ Owes(j, duty))
    BY <1>2, <1>3, <1>4, <2>1, <2>3, <2>4, <2>5 DEF Due, Owes, Exists, Duties
  <2>7. slot' = [slot EXCEPT ![s] = slot[s]] /\ slot[s] \in Slot
    BY <1>3, StayIs
  <2> QED
    BY <1>1, <1>2, <1>3, <1>4, <2>3, <2>4, <2>5, <2>6, <2>7, RestsTyped, WriteAndGoOn DEF Exists
<1>5. CASE ~ Exists(s)
  <2>1. \A duty \in Duties : ~ Owes(j, duty)
    BY <1>2 DEF Owes
  <2>2. "over" \in CallSteps
    BY DEF CallSteps
  <2> QED
    BY <1>1, <1>2, <1>3, <1>5, <2>1, <2>2, RestsTyped, GoOn
<1> QED
  BY <1>4, <1>5

LEMMA RevokeMove ==
  ASSUME WorkspacesInv, NEW c \in DOMAIN calls, Revoke(c)
  PROVE  WorkspacesInv'
<1>1. PICK j \in Call : j = calls[c] /\ CallFits(c)
  BY CallIs
<1>2. PICK s \in Spaces : s = j.on /\ space[s].status # "NONE" /\ j.what = "archive" /\ j.at = "revoke"
  BY <1>1 DEF CallFits, Revoke, ArchiveStep, Does
<1>3. /\ UNCHANGED <<slot, landing, run, sendings, mishaps, wrecked>>
      /\ space' = [space EXCEPT ![s].invited = FALSE] /\ Moves(c, "unland")
  BY <1>1, <1>2 DEF Revoke
<1>4. PICK w \in Space : w = space[s]
  BY SpaceIs
<1>5. PICK x : x = [w EXCEPT !.invited = FALSE]
  OBVIOUS
<1>6. x \in Space /\ x.status = w.status /\ x.crew = w.crew /\ ~ x.invited /\ x.autopilot = w.autopilot
  BY <1>5 DEF Space
<1>7. space' = [space EXCEPT ![s] = x] /\ space'[s] = x
  BY <1>3, <1>4, <1>5, <1>6, SpaceWritten
<1>8. PICK k \in Call : CallMoves(c, k) /\ k.at = "unland" /\ k.on = s /\ k.what = j.what
  BY <1>1, <1>2, <1>3, MoveIs DEF CallSteps
<1>9. \A duty \in Duties : Due(s, duty)' => Owes(k, duty) \/ (Due(s, duty) /\ ~ Owes(j, duty))
  BY <1>2, <1>3, <1>4, <1>6, <1>7, <1>8 DEF Due, Owes, Exists, Duties
<1>10. slot' = [slot EXCEPT ![s] = slot[s]] /\ slot[s] \in Slot
  BY <1>3, StayIs
<1>11. /\ x.status # "NONE" /\ (space[s].status = "DELETED" => x.status = "DELETED")
       /\ x.status = "ACTIVE" => space[s].status = "ACTIVE"
  BY <1>2, <1>4, <1>6
<1>12. k.at \notin {"new", "insert", "restore", "join", "undo", "clean"}
  BY <1>8
<1>13. \A duty \in Duties : Due(s, duty)' => Owes(k, duty) \/ (Due(s, duty) /\ ~ Owes(calls[c], duty))
  BY <1>1, <1>9
<1>14. calls[c].on = s /\ k.what = calls[c].what
  BY <1>1, <1>2, <1>8
<1>15. UNCHANGED <<run, sendings, mishaps, wrecked>> /\ landing' \in [People -> Spaces \cup {Nowhere}]
  BY <1>3, RestsTyped
<1> QED
  BY <1>6, <1>7, <1>8, <1>10, <1>11, <1>12, <1>13, <1>14, <1>15, WriteAndGoOn

LEMMA PauseAutopilotStep ==
  ASSUME WorkspacesInv, NEW c \in DOMAIN calls, PauseAutopilot(c)
  PROVE  WorkspacesInv'
<1>1. PICK j \in Call : j = calls[c] /\ CallFits(c)
  BY CallIs
<1>2. PICK s \in Spaces : s = j.on /\ space[s].status # "NONE" /\ j.what = "archive" /\ j.at = "pause"
  BY <1>1 DEF CallFits, PauseAutopilot, ArchiveStep, Does
<1>3. /\ UNCHANGED <<slot, landing, run, sendings, mishaps, wrecked>>
      /\ space' = [space EXCEPT ![s].autopilot = "PAUSED"] /\ Moves(c, "over")
  BY <1>1, <1>2 DEF PauseAutopilot
<1>4. PICK w \in Space : w = space[s]
  BY SpaceIs
<1>5. PICK x : x = [w EXCEPT !.autopilot = "PAUSED"]
  OBVIOUS
<1>6. x \in Space /\ x.status = w.status /\ x.crew = w.crew /\ x.invited = w.invited /\ x.autopilot = "PAUSED"
  BY <1>5 DEF Space
<1>7. space' = [space EXCEPT ![s] = x] /\ space'[s] = x
  BY <1>3, <1>4, <1>5, <1>6, SpaceWritten
<1>8. PICK k \in Call : CallMoves(c, k) /\ k.at = "over" /\ k.on = s /\ k.what = j.what
  BY <1>1, <1>2, <1>3, MoveIs DEF CallSteps
<1>9. \A duty \in Duties : Due(s, duty)' => Due(s, duty) /\ ~ Owes(j, duty)
  BY <1>2, <1>3, <1>4, <1>6, <1>7 DEF Due, Owes, Exists, Duties
<1>10. slot' = [slot EXCEPT ![s] = slot[s]] /\ slot[s] \in Slot
  BY <1>3, StayIs
<1>11. /\ x.status # "NONE" /\ (space[s].status = "DELETED" => x.status = "DELETED")
       /\ x.status = "ACTIVE" => space[s].status = "ACTIVE"
  BY <1>2, <1>4, <1>6
<1>12. k.at \notin {"new", "insert", "restore", "join", "undo", "clean"}
  BY <1>8
<1>13. \A duty \in Duties : Due(s, duty)' => Owes(k, duty) \/ (Due(s, duty) /\ ~ Owes(calls[c], duty))
  BY <1>1, <1>9
<1>14. calls[c].on = s /\ k.what = calls[c].what
  BY <1>1, <1>2, <1>8
<1>15. UNCHANGED <<run, sendings, mishaps, wrecked>> /\ landing' \in [People -> Spaces \cup {Nowhere}]
  BY <1>3, RestsTyped
<1> QED
  BY <1>6, <1>7, <1>8, <1>10, <1>11, <1>12, <1>13, <1>14, <1>15, WriteAndGoOn

(* A request that writes the post and its schedule, and goes on.            *)
LEMMA PostAndGoOn ==
  ASSUME WorkspacesInv, NEW c \in DOMAIN calls, NEW s \in Spaces, calls[c].on = s,
         space[s].status # "NONE",
         NEW step \in CallSteps, Moves(c, step),
         step \notin {"new", "insert", "restore", "join", "undo", "clean"},
         NEW y \in Slot, slot' = [slot EXCEPT ![s] = y],
         slot[s].post = "NONE" => y.post = "NONE",
         \A duty \in Duties : Owes(calls[c], duty) => Owes([calls[c] EXCEPT !.at = step], duty),
         UNCHANGED <<space, landing, run, sendings, mishaps, wrecked>>
  PROVE  WorkspacesInv'
<1>1. PICK j \in Call : j = calls[c]
  BY CallIs
<1>2. PICK k : k = [j EXCEPT !.at = step]
  OBVIOUS
<1>3. k \in Call /\ k.at = step /\ k.on = s /\ k.what = calls[c].what
  BY <1>1, <1>2 DEF Call
<1>4. CallMoves(c, k)
  BY <1>1, <1>2 DEF CallMoves, Moves
<1>5. space' = [space EXCEPT ![s] = space[s]] /\ space[s] \in Space
  BY StayIs
<1>6. slot'[s] = y
  BY SlotWritten
<1>7. \A duty \in Duties : Due(s, duty)' => Due(s, duty)
  BY <1>6 DEF Due, Exists
<1>8. \A duty \in Duties : Due(s, duty)' => Owes(k, duty) \/ (Due(s, duty) /\ ~ Owes(calls[c], duty))
  BY <1>1, <1>2, <1>7
<1>9. /\ space[s].status = "DELETED" => space[s].status = "DELETED"
      /\ space[s].status = "ACTIVE" => space[s].status = "ACTIVE"
  OBVIOUS
<1>10. landing' \in [People -> Spaces \cup {Nowhere}]
  BY RestsTyped
<1> QED
  BY <1>3, <1>4, <1>5, <1>8, <1>9, <1>10, WriteAndGoOn

(* What a save makes of a post.                                             *)
LEMMA SavedIs ==
  ASSUME WorkspacesInv, NEW s \in Spaces, NEW status \in {"READY", "SCHEDULED"}, SavePost(s, status)
  PROVE  \E y \in Slot : slot' = [slot EXCEPT ![s] = y] /\ (slot[s].post = "NONE" => y.post = "NONE")
<1>1. PICK z \in Slot : z = slot[s]
  BY SpaceIs
<1>2. CASE z.post = "NONE"
  BY <1>1, <1>2, StayIs DEF SavePost
<1>3. CASE z.post # "NONE"
  <2>1. PICK y : y = [z EXCEPT !.post = status]
    OBVIOUS
  <2>2. y \in Slot
    BY <2>1 DEF Slot
  <2>3. slot' = [slot EXCEPT ![s] = y]
    BY <1>1, <1>3, <2>1 DEF SavePost
  <2> QED
    BY <1>1, <1>3, <2>2, <2>3
<1> QED
  BY <1>2, <1>3

LEMMA EndedIs ==
  ASSUME WorkspacesInv, NEW s \in Spaces, slot' = [slot EXCEPT ![s].schedule = Ended(@)]
  PROVE  \E y \in Slot : slot' = [slot EXCEPT ![s] = y] /\ y.post = slot[s].post
<1>1. PICK z \in Slot : z = slot[s]
  BY SpaceIs
<1>2. PICK e : e = Ended(z.schedule)
  OBVIOUS
<1>3. PICK y : y = [z EXCEPT !.schedule = e]
  OBVIOUS
<1>4. y \in Slot /\ y.post = z.post
  BY <1>2, <1>3 DEF Slot, Ended
<1>5. slot' = [slot EXCEPT ![s] = y]
  BY <1>1, <1>2, <1>3
<1> QED
  BY <1>1, <1>4, <1>5

LEMMA CancelScheduleStep ==
  ASSUME WorkspacesInv, NEW c \in DOMAIN calls, CancelSchedule(c)
  PROVE  WorkspacesInv'
<1>1. PICK j \in Call : j = calls[c] /\ CallFits(c)
  BY CallIs
<1>2. PICK s \in Spaces : s = j.on /\ space[s].status # "NONE" /\ j.what = "archive" /\ j.at = "cancel"
  BY <1>1 DEF CallFits, CancelSchedule, ArchiveStep, Does
<1>3. PICK step \in {"pause", "unschedule"} : Moves(c, step) /\ step \in CallSteps
  <2>1. PICK step : step = IF slot[calls[c].on].schedule = "sending" THEN "pause" ELSE "unschedule"
    OBVIOUS
  <2>2. Moves(c, step)
    BY <2>1, Zenon DEF CancelSchedule
  <2> QED
    BY <2>1, <2>2 DEF CallSteps
<1>4. slot' = [slot EXCEPT ![s].schedule = Ended(@)]
  BY <1>1, <1>2 DEF CancelSchedule
<1>5. PICK y \in Slot : slot' = [slot EXCEPT ![s] = y] /\ y.post = slot[s].post
  BY <1>4, EndedIs
<1>6. \A duty \in Duties : Owes(calls[c], duty) => Owes([calls[c] EXCEPT !.at = step], duty)
  BY <1>1, <1>2, <1>3 DEF Owes, Call
<1>7. UNCHANGED <<space, landing, run, sendings, mishaps, wrecked>>
  BY DEF CancelSchedule
<1> QED
  BY <1>1, <1>2, <1>3, <1>5, <1>6, <1>7, PostAndGoOn

LEMMA UnscheduleStep ==
  ASSUME WorkspacesInv, NEW c \in DOMAIN calls, Unschedule(c)
  PROVE  WorkspacesInv'
<1>1. PICK j \in Call : j = calls[c] /\ CallFits(c)
  BY CallIs
<1>2. PICK s \in Spaces : s = j.on /\ space[s].status # "NONE" /\ j.what = "archive" /\ j.at = "unschedule"
  BY <1>1 DEF CallFits, Unschedule, ArchiveStep, Does
<1>3. /\ Moves(c, "pause") /\ "pause" \in CallSteps /\ SavePost(s, "READY")
      /\ UNCHANGED <<space, landing, run, sendings, mishaps, wrecked>>
  BY <1>1, <1>2 DEF Unschedule, CallSteps
<1>4. PICK y \in Slot : slot' = [slot EXCEPT ![s] = y] /\ (slot[s].post = "NONE" => y.post = "NONE")
  BY <1>3, SavedIs
<1>5. \A duty \in Duties : Owes(calls[c], duty) => Owes([calls[c] EXCEPT !.at = "pause"], duty)
  BY <1>1, <1>2 DEF Owes, Call
<1> QED
  BY <1>1, <1>2, <1>3, <1>4, <1>5, PostAndGoOn

LEMMA MarkStep ==
  ASSUME WorkspacesInv, NEW c \in DOMAIN calls, Mark(c)
  PROVE  WorkspacesInv'
<1>1. PICK j \in Call : j = calls[c] /\ CallFits(c)
  BY CallIs
<1>2. PICK s \in Spaces : s = j.on /\ space[s].status # "NONE" /\ j.what = "schedule" /\ j.at = "mark"
  BY <1>1 DEF CallFits, Mark, Does
<1>3. /\ Moves(c, "over") /\ "over" \in CallSteps /\ SavePost(s, "SCHEDULED")
      /\ UNCHANGED <<space, landing, run, sendings, mishaps, wrecked>>
  BY <1>1, <1>2 DEF Mark, CallSteps
<1>4. PICK y \in Slot : slot' = [slot EXCEPT ![s] = y] /\ (slot[s].post = "NONE" => y.post = "NONE")
  BY <1>3, SavedIs
<1>5. \A duty \in Duties : ~ Owes(calls[c], duty)
  BY <1>1, <1>2 DEF Owes
<1> QED
  BY <1>1, <1>2, <1>3, <1>4, <1>5, PostAndGoOn

LEMMA QueueStep ==
  ASSUME WorkspacesInv, NEW c \in DOMAIN calls, Queue(c)
  PROVE  WorkspacesInv'
<1>1. PICK j \in Call : j = calls[c] /\ CallFits(c)
  BY CallIs
<1>2. PICK s \in Spaces : s = j.on /\ space[s].status # "NONE" /\ j.what = "schedule" /\ j.at = "queue"
  BY <1>1 DEF CallFits, Queue, Does
<1>3. \A duty \in Duties : ~ Owes(calls[c], duty)
  BY <1>1, <1>2 DEF Owes
<1>4. UNCHANGED <<space, landing, run, sendings, mishaps, wrecked>>
  BY DEF Queue
<1>5. PICK z \in Slot : z = slot[s]
  BY SpaceIs
<1>6. CASE Moves(c, "over") /\ UNCHANGED slot
  <2>1. slot' = [slot EXCEPT ![s] = z] /\ "over" \in CallSteps
    BY <1>5, <1>6, StayIs DEF CallSteps
  <2> QED
    BY <1>1, <1>2, <1>3, <1>4, <1>5, <1>6, <2>1, PostAndGoOn
<1>7. CASE slot' = [slot EXCEPT ![s].schedule = "live"] /\ Moves(c, "mark")
  <2>1. PICK y : y = [z EXCEPT !.schedule = "live"]
    OBVIOUS
  <2>2. y \in Slot /\ y.post = z.post
    BY <2>1 DEF Slot
  <2>3. slot' = [slot EXCEPT ![s] = y] /\ "mark" \in CallSteps
    BY <1>5, <1>7, <2>1 DEF CallSteps
  <2>4. /\ calls[c].on = s /\ (slot[s].post = "NONE" => y.post = "NONE")
        /\ "mark" \notin {"new", "insert", "restore", "join", "undo", "clean"}
    BY <1>1, <1>2, <1>5, <2>2
  <2>5. \A duty \in Duties : Owes(calls[c], duty) => Owes([calls[c] EXCEPT !.at = "mark"], duty)
    BY <1>3
  <2>6. Moves(c, "mark") /\ "mark" \in CallSteps
    BY <1>7, <2>3
  <2> QED
    BY <1>2, <1>4, <2>2, <2>3, <2>4, <2>5, <2>6, PostAndGoOn
<1> QED
  BY <1>1, <1>2, <1>6, <1>7 DEF Queue

LEMMA RemoveStep ==
  ASSUME WorkspacesInv, NEW c \in DOMAIN calls, Remove(c)
  PROVE  WorkspacesInv'
<1>1. PICK j \in Call : j = calls[c] /\ CallFits(c)
  BY CallIs
<1>2. PICK s \in Spaces : s = j.on /\ space[s].status # "NONE" /\ j.what = "delete" /\ j.at = "remove"
  BY <1>1 DEF CallFits, Remove, Does
<1>3. /\ UNCHANGED <<slot, landing, run, sendings, mishaps, wrecked>>
      /\ space' = [space EXCEPT ![s].status = "DELETED"]
      /\ calls' = [calls EXCEPT ![c].at = "clean", ![c].left = Collections]
  BY <1>1, <1>2 DEF Remove
<1>4. PICK w \in Space : w = space[s]
  BY SpaceIs
<1>5. PICK x : x = [w EXCEPT !.status = "DELETED"]
  OBVIOUS
<1>6. x \in Space /\ x.status = "DELETED"
  BY <1>5 DEF Space
<1>7. space' = [space EXCEPT ![s] = x] /\ space'[s] = x
  BY <1>3, <1>4, <1>5, <1>6, SpaceWritten
<1>8. PICK k : k = [j EXCEPT !.at = "clean", !.left = Collections]
  OBVIOUS
<1>9. k \in Call /\ k.at = "clean" /\ k.left = Collections /\ k.on = s /\ k.what = j.what
  BY <1>2, <1>8 DEF Call, CallSteps
<1>10. CallMoves(c, k)
  BY <1>1, <1>3, <1>8 DEF CallMoves
<1>11. \A duty \in Duties : Due(s, duty)' => Owes(k, duty) \/ (Due(s, duty) /\ ~ Owes(calls[c], duty))
  BY <1>6, <1>7, <1>9 DEF Due, Owes, Exists, Duties, Collections
<1>12. slot' = [slot EXCEPT ![s] = slot[s]] /\ slot[s] \in Slot
  BY <1>3, StayIs
<1>13. calls[c].on = s /\ k.what = calls[c].what
  BY <1>1, <1>2, <1>9
<1>14. UNCHANGED <<run, sendings, mishaps, wrecked>> /\ landing' \in [People -> Spaces \cup {Nowhere}]
  BY <1>3, RestsTyped
<1> QED
  BY <1>6, <1>7, <1>9, <1>10, <1>11, <1>12, <1>13, <1>14, WriteAndGoOn


LEMMA NoLandingIs ==
  ASSUME WorkspacesInv, NEW s
  PROVE  NoLanding(s) \in [People -> Spaces \cup {Nowhere}]
  BY RestsTyped DEF NoLanding

LEMMA CleanStep ==
  ASSUME WorkspacesInv, NEW c \in DOMAIN calls, Clean(c)
  PROVE  WorkspacesInv'
<1>1. PICK j \in Call : j = calls[c] /\ CallFits(c)
  BY CallIs
<1>2. /\ j.what = "delete" /\ j.at = "clean" /\ UNCHANGED <<run, sendings, mishaps, wrecked>>
  BY <1>1 DEF Clean, Does
<1>3. PICK s \in Spaces : s = j.on /\ space[s].status = "DELETED"
  BY <1>1, <1>2 DEF CallFits
<1>4. PICK part \in j.left :
        /\ space' = IF part = "members" THEN [space EXCEPT ![s].crew = {}, ![s].invited = FALSE] ELSE space
        /\ slot' = CASE part = "posts" -> [slot EXCEPT ![s].post = "NONE"]
                     [] part = "publishing" -> [slot EXCEPT ![s].schedule = "none"]
                     [] OTHER -> slot
        /\ landing' = IF part = "landings" THEN NoLanding(s) ELSE landing
        /\ calls' = [calls EXCEPT ![c].left = @ \ {part},
                       ![c].at = IF j.left = {part} THEN "over" ELSE @]
  <2>1. PICK part \in calls[c].left :
          /\ space' = IF part = "members"
                        THEN [space EXCEPT ![calls[c].on].crew = {}, ![calls[c].on].invited = FALSE] ELSE space
          /\ slot' = CASE part = "posts" -> [slot EXCEPT ![calls[c].on].post = "NONE"]
                       [] part = "publishing" -> [slot EXCEPT ![calls[c].on].schedule = "none"]
                       [] OTHER -> slot
          /\ landing' = IF part = "landings" THEN NoLanding(calls[c].on) ELSE landing
          /\ calls' = [calls EXCEPT ![c].left = @ \ {part},
                         ![c].at = IF calls[c].left = {part} THEN "over" ELSE @]
    BY Zenon DEF Clean
  <2>2. j = calls[c] /\ s = calls[c].on
    BY <1>1, <1>3
  <2>3. part \in j.left
    BY <2>1, <2>2
  <2>4. space' = IF part = "members" THEN [space EXCEPT ![s].crew = {}, ![s].invited = FALSE] ELSE space
    BY <2>1, <2>2
  <2>5. slot' = CASE part = "posts" -> [slot EXCEPT ![s].post = "NONE"]
                  [] part = "publishing" -> [slot EXCEPT ![s].schedule = "none"]
                  [] OTHER -> slot
    BY <2>1, <2>2
  <2>6. landing' = IF part = "landings" THEN NoLanding(s) ELSE landing
    BY <2>1, <2>2
  <2>7. calls' = [calls EXCEPT ![c].left = @ \ {part},
                    ![c].at = IF j.left = {part} THEN "over" ELSE @]
    BY <2>1, <2>2
  <2> QED
    BY <2>3, <2>4, <2>5, <2>6, <2>7
<1>5. PICK w \in Space, z \in Slot : w = space[s] /\ z = slot[s]
  BY SpaceIs
<1>6. PICK x \in Space : /\ space' = [space EXCEPT ![s] = x] /\ x.status = "DELETED"
                         /\ part = "members" => x.crew = {}
                         /\ part # "members" => x = w
  <2>1. CASE part = "members"
    <3>1. PICK x : x = [w EXCEPT !.crew = {}, !.invited = FALSE]
      OBVIOUS
    <3>2. x \in Space /\ x.status = w.status /\ x.crew = {}
      BY <3>1 DEF Space
    <3>3. space' = [space EXCEPT ![s] = x]
      BY <1>4, <1>5, <2>1, <3>1
    <3> QED
      BY <1>3, <1>5, <2>1, <3>2, <3>3
  <2>2. CASE part # "members"
    BY <1>3, <1>4, <1>5, <2>2, StayIs
  <2> QED
    BY <2>1, <2>2
<1>7. PICK y \in Slot : /\ slot' = [slot EXCEPT ![s] = y]
                        /\ part = "posts" => y.post = "NONE"
                        /\ z.post = "NONE" => y.post = "NONE"
  <2>1. CASE part = "posts"
    <3>1. PICK y : y = [z EXCEPT !.post = "NONE"]
      OBVIOUS
    <3>2. y \in Slot /\ y.post = "NONE"
      BY <3>1 DEF Slot
    <3>3. slot' = [slot EXCEPT ![s] = y]
      BY <1>4, <1>5, <2>1, <3>1
    <3> QED
      BY <3>2, <3>3
  <2>2. CASE part = "publishing"
    <3>1. PICK y : y = [z EXCEPT !.schedule = "none"]
      OBVIOUS
    <3>2. y \in Slot /\ y.post = z.post
      BY <3>1 DEF Slot
    <3>3. slot' = [slot EXCEPT ![s] = y]
      BY <1>4, <1>5, <2>2, <3>1
    <3> QED
      BY <2>2, <3>2, <3>3
  <2>3. CASE part \notin {"posts", "publishing"}
    BY <1>4, <1>5, <2>3, StayIs
  <2> QED
    BY <2>1, <2>2, <2>3
<1>8. PICK step : step = IF j.left = {part} THEN "over" ELSE j.at
  OBVIOUS
<1>9. PICK k : k = [j EXCEPT !.left = j.left \ {part}, !.at = step]
  OBVIOUS
<1>10. /\ k \in Call /\ k.at = step /\ k.left = j.left \ {part} /\ k.on = s /\ k.what = j.what
       /\ step \in {"over", "clean"} /\ (step = "over" => j.left = {part})
  BY <1>2, <1>3, <1>8, <1>9 DEF Call, CallSteps
<1>11. CallMoves(c, k)
  BY <1>1, <1>4, <1>8, <1>9 DEF CallMoves
<1>12. space'[s] = x /\ slot'[s] = y
  BY <1>6, <1>7, SpaceWritten, SlotWritten
<1>13. \A duty \in Duties : Due(s, duty)' => Owes(k, duty) \/ (Due(s, duty) /\ ~ Owes(calls[c], duty))
  <2> SUFFICES ASSUME NEW duty \in Duties, Due(s, duty)'
               PROVE  Owes(k, duty) \/ (Due(s, duty) /\ ~ Owes(j, duty))
    BY <1>1
  <2>1. CASE duty = "members"
    <3>1. x.crew # {}
      BY <1>12, <2>1 DEF Due
    <3>2. part # "members" /\ Due(s, duty)
      BY <1>3, <1>5, <1>6, <2>1, <3>1 DEF Due
    <3>3. Owes(j, duty) => "members" \in k.left /\ k.at = "clean"
      BY <1>4, <1>10, <2>1, <3>2 DEF Owes
    <3> QED
      BY <2>1, <3>2, <3>3 DEF Owes
  <2>2. CASE duty = "posts"
    <3>1. y.post # "NONE"
      BY <1>12, <2>2 DEF Due
    <3>2. part # "posts" /\ Due(s, duty)
      BY <1>3, <1>5, <1>7, <2>2, <3>1 DEF Due
    <3>3. Owes(j, duty) => "posts" \in k.left /\ k.at = "clean"
      BY <1>4, <1>10, <2>2, <3>2 DEF Owes
    <3> QED
      BY <2>2, <3>2, <3>3 DEF Owes
  <2>3. CASE duty \notin {"members", "posts"}
    BY <1>6, <1>12, <2>3 DEF Due, Exists
  <2> QED
    BY <2>1, <2>2, <2>3
<1>14. landing' \in [People -> Spaces \cup {Nowhere}]
  BY <1>4, RestsTyped, NoLandingIs
<1>15. /\ calls[c].on = s /\ k.what = calls[c].what /\ k.on = s
       /\ x.status # "NONE" /\ (space[s].status = "DELETED" => x.status = "DELETED")
       /\ x.status = "ACTIVE" => space[s].status = "ACTIVE"
       /\ k.at \notin {"new", "insert", "restore", "join", "undo"}
       /\ k.at = "clean" => x.status = "DELETED"
  BY <1>1, <1>3, <1>6, <1>10
<1> QED
  BY <1>2, <1>6, <1>7, <1>10, <1>11, <1>13, <1>14, <1>15, WriteAndGoOn

-----------------------------------------------------------------------------
(* The publish worker's run.                                                *)

Runs == [at : {"idle", "look", "claim", "send", "finish"}, on : Spaces \cup {Nowhere}, since : BOOLEAN]

LEMMA RunIs ==
  ASSUME WorkspacesInv
  PROVE  run \in Runs /\ RunFits /\ NoRun \in Runs
  BY DEF WorkspacesInv, WorkspacesTypeOK, Runs, NoRun

LEMMA RunStep ==
  ASSUME WorkspacesInv, NEW s \in Spaces, space[s].status # "NONE",
         run.on = s \/ slot[s] # Empty,
         NEW y \in Slot, slot' = [slot EXCEPT ![s] = y], slot[s].post = "NONE" => y.post = "NONE",
         NEW r \in Runs, run' = r, r.on \in {Nowhere, s}, r.at # "idle" => r.on = s,
         r.since => r.at = "look" /\ r.on = s /\ ~ IsActive(s),
         UNCHANGED <<space, landing, calls, wrecked>>,
         sendings' \in [Spaces -> Nat], mishaps' \in Nat
  PROVE  WorkspacesInv'
<1>1. slot' \in [Spaces -> Slot] /\ slot'[s] = y /\ \A t \in Spaces : t # s => slot'[t] = slot[t]
  BY SlotWritten
<1>2. WorkspacesTypeOK'
  BY <1>1 DEF WorkspacesInv, WorkspacesTypeOK, Runs
<1>3. \A t \in Spaces : space'[t].status = "NONE" => space'[t].crew = {} /\ slot'[t] = Empty
  BY <1>1 DEF WorkspacesInv
<1>4. ASSUME NEW c \in DOMAIN calls PROVE CallFits(c)'
  <2>1. PICK j \in Call : j = calls[c] /\ CallFits(c)
    BY CallIs
  <2>2. ASSUME j.at \in {"join", "undo"} PROVE Untouched(c, j.on)'
    <3>1. Untouched(c, j.on) /\ j.on \in Spaces
      BY <2>1, <2>2 DEF CallFits
    <3>2. j.on # s
      BY <3>1 DEF Untouched
    <3>3. slot'[j.on] = slot[j.on] /\ run'.on # j.on
      BY <1>1, <3>1, <3>2, RestsTyped
    <3> QED
      BY <3>1, <3>3 DEF Untouched, IsActive
  <2> QED
    BY <2>1, <2>2 DEF CallFits
<1>5. DutiesAreOwed'
  <2> SUFFICES ASSUME NEW t \in Spaces, Whole(t)', NEW duty \in Duties, Due(t, duty)'
               PROVE  \E c \in DOMAIN calls' : calls'[c].on = t /\ Owes(calls'[c], duty)
    BY DEF DutiesAreOwed
  <2>1. slot[t].post = "NONE" => slot'[t].post = "NONE"
    BY <1>1
  <2>2. Due(t, duty) /\ Whole(t)
    BY <2>1 DEF Due, Exists, Whole
  <2>3. PICK c \in DOMAIN calls : calls[c].on = t /\ Owes(calls[c], duty)
    BY <2>2 DEF WorkspacesInv, DutiesAreOwed
  <2> QED
    BY <2>3
<1>6. RunFits'
  BY RestsTyped DEF RunFits, IsActive
<1>7. PlanFits'
  BY DEF WorkspacesInv, PlanFits, Counted, Adding, Askers, IsActive
<1> QED
  BY <1>2, <1>3, <1>4, <1>5, <1>6, <1>7 DEF WorkspacesInv

LEMMA BeginsStep ==
  ASSUME WorkspacesInv, NEW s \in Spaces, Begins(s)
  PROVE  WorkspacesInv'
<1>1. PICK y \in Slot : y = slot[s] /\ slot' = [slot EXCEPT ![s] = y] /\ y.schedule = "live"
  BY StayIs DEF Begins
<1>2. slot[s] # Empty
  BY <1>1 DEF Empty
<1>3. space[s].status # "NONE"
  BY <1>2 DEF WorkspacesInv
<1>4. PICK r : r = [at |-> "look", on |-> s, since |-> ~ IsActive(s)] /\ run' = r
  BY DEF Begins
<1>5. r \in Runs /\ r.on = s /\ r.at = "look" /\ (r.since => ~ IsActive(s))
  BY <1>4 DEF Runs
<1>6. UNCHANGED <<space, landing, calls, wrecked>> /\ sendings' \in [Spaces -> Nat] /\ mishaps' \in Nat
  BY DEF Begins, WorkspacesInv, WorkspacesTypeOK
<1> QED
  BY <1>1, <1>2, <1>3, <1>4, <1>5, <1>6, RunStep

(* A step of a run that is about a workspace: it goes on, or is over.       *)
LEMMA RunGoesOn ==
  ASSUME WorkspacesInv, run.at # "idle", run.since => ~ IsActive(run.on) /\ run' = NoRun,
         run' = NoRun \/ \E step \in {"claim", "send", "finish"} : RunMoves(step),
         NEW y \in Slot, slot' = [slot EXCEPT ![run.on] = y],
         slot[run.on].post = "NONE" => y.post = "NONE",
         UNCHANGED <<space, landing, calls, wrecked>>,
         sendings' \in [Spaces -> Nat], mishaps' \in Nat
  PROVE  WorkspacesInv'
<1>1. PICK q \in Runs : q = run
  BY RunIs
<1>2. PICK s \in Spaces : s = run.on /\ space[s].status # "NONE"
  BY RunIs DEF RunFits
<1>3. PICK r : /\ r \in Runs /\ run' = r /\ r.on \in {Nowhere, s} /\ (r.at # "idle" => r.on = s)
               /\ ~ r.since
  <2>1. CASE run' = NoRun
    BY <2>1, RunIs DEF NoRun
  <2>2. CASE run' # NoRun
    <3>1. PICK step \in {"claim", "send", "finish"} : RunMoves(step)
      BY <2>2
    <3>2. PICK r : r = [q EXCEPT !.at = step]
      OBVIOUS
    <3>3. r \in Runs /\ r.on = q.on /\ r.since = q.since
      BY <3>1, <3>2 DEF Runs
    <3>4. run' = r
      BY <1>1, <3>1, <3>2 DEF RunMoves
    <3> QED
      BY <1>1, <1>2, <2>2, <3>3, <3>4
  <2> QED
    BY <2>1, <2>2
<1>4. slot' = [slot EXCEPT ![s] = y] /\ (slot[s].post = "NONE" => y.post = "NONE")
  BY <1>2
<1> QED
  BY <1>2, <1>3, <1>4, RunStep

LEMMA RunOn ==
  ASSUME WorkspacesInv, run.at # "idle"
  PROVE  /\ run.on \in Spaces /\ slot[run.on] \in Slot
         /\ slot = [slot EXCEPT ![run.on] = slot[run.on]]
         /\ run.since => run.at = "look" /\ ~ IsActive(run.on)
<1>1. run.on \in Spaces /\ (run.since => run.at = "look" /\ ~ IsActive(run.on))
  BY RunIs DEF RunFits
<1> QED
  BY <1>1, StayIs

LEMMA LookStep ==
  ASSUME WorkspacesInv, Look
  PROVE  WorkspacesInv'
<1>1. run.at = "look" /\ UNCHANGED <<space, landing, calls, sendings, mishaps, wrecked>>
  BY DEF Look, RunAt
<1>2. PICK s \in Spaces : s = run.on /\ (run.since => ~ IsActive(s))
  BY <1>1, RunOn
<1>3. sendings' \in [Spaces -> Nat] /\ mishaps' \in Nat
  BY <1>1 DEF WorkspacesInv, WorkspacesTypeOK
<1>4. CASE IsActive(s) /\ RunMoves("claim") /\ UNCHANGED slot
  BY <1>1, <1>2, <1>3, <1>4, RunOn, RunGoesOn
<1>5. CASE slot' = [slot EXCEPT ![s].schedule = Ended(@)] /\ run' = NoRun
  <2>1. PICK y \in Slot : slot' = [slot EXCEPT ![s] = y] /\ y.post = slot[s].post
    BY <1>5, EndedIs
  <2> QED
    BY <1>1, <1>2, <1>3, <1>5, <2>1, RunGoesOn
<1> QED
  BY <1>2, <1>4, <1>5 DEF Look, Publishes

LEMMA ClaimSlotStep ==
  ASSUME WorkspacesInv, ClaimSlot
  PROVE  WorkspacesInv'
<1>1. run.at = "claim" /\ UNCHANGED <<space, landing, calls, sendings, mishaps, wrecked>>
  BY DEF ClaimSlot, RunAt
<1>2. PICK s \in Spaces : s = run.on /\ ~ run.since
  BY <1>1, RunOn
<1>3. sendings' \in [Spaces -> Nat] /\ mishaps' \in Nat
  BY <1>1 DEF WorkspacesInv, WorkspacesTypeOK
<1>4. PICK z \in Slot : z = slot[s]
  BY SpaceIs
<1>5. CASE run' = NoRun /\ UNCHANGED slot
  BY <1>1, <1>2, <1>3, <1>5, RunOn, RunGoesOn
<1>6. CASE /\ slot' = [slot EXCEPT ![s].schedule = "sending",
                                    ![s].post = IF @ = "NONE" THEN @ ELSE "PUBLISHING"]
           /\ RunMoves("send")
  <2>1. PICK p : p = IF z.post = "NONE" THEN z.post ELSE "PUBLISHING"
    OBVIOUS
  <2>2. PICK y : y = [z EXCEPT !.schedule = "sending", !.post = p]
    OBVIOUS
  <2>3. y \in Slot /\ y.post = p
    BY <2>1, <2>2 DEF Slot
  <2>4. slot' = [slot EXCEPT ![s] = y]
    BY <1>4, <1>6, <2>1, <2>2
  <2> QED
    BY <1>1, <1>2, <1>3, <1>4, <1>6, <2>1, <2>3, <2>4, RunGoesOn
<1> QED
  BY <1>2, <1>5, <1>6 DEF ClaimSlot

LEMMA SettledIs ==
  ASSUME WorkspacesInv, NEW s \in Spaces, NEW outcome \in {"live", "failed", "published"},
         NEW status \in {"SCHEDULED", "FAILED", "PUBLISHED"}, Settles(s, outcome, status)
  PROVE  \E y \in Slot : slot' = [slot EXCEPT ![s] = y] /\ (slot[s].post = "NONE" => y.post = "NONE")
<1>1. PICK z \in Slot : z = slot[s]
  BY SpaceIs
<1>2. PICK e, p : /\ e = IF z.schedule = "sending" THEN outcome ELSE z.schedule
                  /\ p = IF z.post = "NONE" THEN z.post ELSE status
  OBVIOUS
<1>3. PICK y : y = [z EXCEPT !.schedule = e, !.post = p]
  OBVIOUS
<1>4. y \in Slot /\ y.post = p
  BY <1>2, <1>3 DEF Slot
<1>5. slot' = [slot EXCEPT ![s] = y]
  BY <1>1, <1>2, <1>3 DEF Settles
<1> QED
  BY <1>1, <1>2, <1>4, <1>5

LEMMA SendSlotStep ==
  ASSUME WorkspacesInv, SendSlot
  PROVE  WorkspacesInv'
<1>1. run.at = "send" /\ UNCHANGED <<space, landing, calls, wrecked>>
  BY DEF SendSlot, RunAt
<1>2. PICK s \in Spaces : s = run.on /\ ~ run.since
  BY <1>1, RunOn
<1>3. sendings \in [Spaces -> Nat] /\ mishaps \in Nat
  BY DEF WorkspacesInv, WorkspacesTypeOK
<1>4. CASE sendings' = [sendings EXCEPT ![s] = @ + 1] /\ RunMoves("finish") /\ UNCHANGED <<slot, mishaps>>
  <2>1. sendings' \in [Spaces -> Nat] /\ mishaps' \in Nat
    BY <1>3, <1>4
  <2> QED
    BY <1>1, <1>2, <1>4, <2>1, RunOn, RunGoesOn
<1>5. CASE /\ Settles(s, "live", "SCHEDULED") \/ Settles(s, "failed", "FAILED")
           /\ run' = NoRun /\ UNCHANGED sendings /\ (UNCHANGED mishaps \/ Fails)
  <2>1. PICK y \in Slot : slot' = [slot EXCEPT ![s] = y] /\ (slot[s].post = "NONE" => y.post = "NONE")
    BY <1>5, SettledIs
  <2>2. sendings' \in [Spaces -> Nat] /\ mishaps' \in Nat
    BY <1>3, <1>5 DEF Fails
  <2> QED
    BY <1>1, <1>2, <1>5, <2>1, <2>2, RunGoesOn
<1> QED
  BY <1>2, <1>4, <1>5 DEF SendSlot

LEMMA FinishSlotStep ==
  ASSUME WorkspacesInv, FinishSlot
  PROVE  WorkspacesInv'
<1>1. /\ run.at = "finish" /\ run' = NoRun
      /\ UNCHANGED <<space, landing, calls, sendings, mishaps, wrecked>>
  BY DEF FinishSlot, RunAt
<1>2. PICK s \in Spaces : s = run.on /\ ~ run.since /\ Settles(s, "published", "PUBLISHED")
  BY <1>1, RunOn DEF FinishSlot
<1>3. PICK y \in Slot : slot' = [slot EXCEPT ![s] = y] /\ (slot[s].post = "NONE" => y.post = "NONE")
  BY <1>2, SettledIs
<1>4. sendings' \in [Spaces -> Nat] /\ mishaps' \in Nat
  BY <1>1 DEF WorkspacesInv, WorkspacesTypeOK
<1> QED
  BY <1>1, <1>2, <1>3, <1>4, RunGoesOn

-----------------------------------------------------------------------------
LEMMA CallNextStep ==
  ASSUME WorkspacesInv, NEW c \in DOMAIN calls, CallNext(c)
  PROVE  WorkspacesInv'
  BY AimStep, EnterStep, CountStep, EstablishStep, JoinStep, UndoStep, LandStep, ReinstateStep,
     ArchiveMove, RevokeMove, UnlandStep, ListScheduledStep, CancelScheduleStep, UnscheduleStep,
     PauseAutopilotStep, RemoveStep, CleanStep, ServerDiesStep, QueueStep, MarkStep, Zenon DEF CallNext

LEMMA RunNextStep ==
  ASSUME WorkspacesInv, RunNext
  PROVE  WorkspacesInv'
  BY BeginsStep, LookStep, ClaimSlotStep, SendSlotStep, FinishSlotStep, Zenon DEF RunNext

LEMMA WorkspacesStepKeeps ==
  ASSUME WorkspacesInv, [WorkspacesNext]_workspaceVars
  PROVE  WorkspacesInv'
<1>1. CASE WorkspacesNext
  BY <1>1, CallNextStep, RunNextStep, Zenon DEF WorkspacesNext
<1>2. CASE UNCHANGED workspaceVars
  BY <1>2 DEF workspaceVars, WorkspacesInv, WorkspacesTypeOK, CallFits, Untouched, DutiesAreOwed, Due,
     Whole, Exists, IsActive, RunFits, PlanFits, Counted, Adding, Askers
<1> QED
  BY <1>1, <1>2

LEMMA WorkspacesStart == WorkspacesInit => WorkspacesInv
<1> SUFFICES ASSUME WorkspacesInit PROVE WorkspacesInv
  OBVIOUS
<1>1. PICK opening \in Beginnings :
        /\ space = [s \in Spaces |->
             [status |-> opening.stand[s],
              crew |-> IF opening.stand[s] = "NONE" THEN {} ELSE People,
              invited |-> opening.stand[s] = "ACTIVE",
              autopilot |-> IF opening.stand[s] = "ACTIVE" THEN "ACTIVE" ELSE "PAUSED"]]
        /\ slot = [s \in Spaces |->
             IF opening.stand[s] = "ACTIVE" THEN [post |-> "SCHEDULED", schedule |-> "live"]
             ELSE IF opening.stand[s] = "ARCHIVED" THEN [post |-> "READY", schedule |-> "cancelled"]
             ELSE Empty]
        /\ landing = [p \in People |->
             Min({Nowhere} \cup {s \in Spaces : opening.stand[s] = "ACTIVE"})]
        /\ calls = opening.asks
        /\ run = NoRun
        /\ sendings = [s \in Spaces |-> 0]
        /\ mishaps = opening.failures
        /\ wrecked = {}
  BY DEF WorkspacesInit
<1>2. PICK stand, asks, failures :
        /\ stand = opening.stand /\ asks = opening.asks /\ failures = opening.failures
        /\ stand \in [Spaces -> {"NONE", "ACTIVE", "ARCHIVED"}]
        /\ Cardinality({s \in Spaces : stand[s] = "ACTIVE"}) <= Allowed
        /\ asks \in Seq(Call)
        /\ \A c \in DOMAIN asks : \E what \in Kinds, by \in People : asks[c] = Ask(what, by)
        /\ failures \in Nat
  <2>1. /\ opening.stand \in [Spaces -> {"NONE", "ACTIVE", "ARCHIVED"}]
        /\ Cardinality({s \in Spaces : opening.stand[s] = "ACTIVE"}) <= Allowed
        /\ opening.asks \in Seq(Call)
        /\ \A c \in DOMAIN opening.asks :
             \E what \in Kinds, by \in People : opening.asks[c] = Ask(what, by)
        /\ opening.failures \in Nat
    BY BeginningsAssumption
  <2> QED
    BY <2>1
<1>3. ASSUME NEW s \in Spaces
      PROVE  /\ space[s] \in Space /\ space[s].status = stand[s] /\ space[s].status # "DELETED"
             /\ stand[s] = "NONE" => space[s].crew = {} /\ slot[s] = Empty
             /\ stand[s] # "NONE" => space[s].crew = People
             /\ stand[s] = "ARCHIVED" => ~ space[s].invited /\ space[s].autopilot = "PAUSED"
             /\ slot[s] \in Slot
  <2>1. PICK x : x = space[s] /\ x = [status |-> stand[s],
              crew |-> IF stand[s] = "NONE" THEN {} ELSE People,
              invited |-> stand[s] = "ACTIVE",
              autopilot |-> IF stand[s] = "ACTIVE" THEN "ACTIVE" ELSE "PAUSED"]
    BY <1>1, <1>2
  <2>2. stand[s] \in {"NONE", "ACTIVE", "ARCHIVED"}
    BY <1>2
  <2>3. x \in Space
    <3>1. x = [status |-> x.status, crew |-> x.crew, invited |-> x.invited, autopilot |-> x.autopilot]
      BY <2>1
    <3>2. /\ x.status \in {"NONE", "ACTIVE", "ARCHIVED", "DELETED"} /\ x.crew \in SUBSET People
          /\ x.autopilot \in {"ACTIVE", "PAUSED"}
      BY <2>1, <2>2
    <3>3. x.invited \in BOOLEAN
      <4>1. x.invited = (stand[s] = "ACTIVE")
        BY <2>1
      <4> QED
        BY <4>1, Zenon
    <3> QED
      BY <3>1, <3>2, <3>3 DEF Space
  <2>4. slot[s] \in Slot /\ (stand[s] = "NONE" => slot[s] = Empty)
    <3>1. slot[s] = IF stand[s] = "ACTIVE" THEN [post |-> "SCHEDULED", schedule |-> "live"]
                    ELSE IF stand[s] = "ARCHIVED" THEN [post |-> "READY", schedule |-> "cancelled"]
                    ELSE Empty
      BY <1>1, <1>2
    <3> QED
      BY <3>1 DEF Slot, Empty
  <2>5. stand[s] = "ARCHIVED" => ~ x.invited
    <3>1. x.invited = (stand[s] = "ACTIVE")
      BY <2>1
    <3>2. stand[s] = "ARCHIVED" => stand[s] # "ACTIVE"
      OBVIOUS
    <3> QED
      BY <3>1, <3>2, Zenon
  <2> QED
    BY <2>1, <2>2, <2>3, <2>4, <2>5
<1>4. space \in [Spaces -> Space] /\ slot \in [Spaces -> Slot]
  <2>1. PICK f, g : f = space /\ g = slot
    OBVIOUS
  <2>2. f = [s \in Spaces |-> f[s]] /\ g = [s \in Spaces |-> g[s]]
    BY <1>1, <2>1
  <2> QED
    BY <1>3, <2>1, <2>2
<1>5. ASSUME NEW c \in DOMAIN calls
      PROVE  calls[c] \in Call /\ calls[c].at = "new" /\ calls[c].on = Nowhere
  <2>2. PICK what \in Kinds, by \in People : calls[c] = Ask(what, by)
    BY <1>1, <1>2
  <2>3. "new" \in CallSteps
    BY DEF CallSteps
  <2> QED
    BY <2>2, <2>3 DEF Ask, Call
<1>6. landing \in [People -> Spaces \cup {Nowhere}]
  <2>1. PICK S : S = {Nowhere} \cup {s \in Spaces : stand[s] = "ACTIVE"}
    OBVIOUS
  <2>2. S \subseteq Nat /\ S # {}
    <3>1. Nowhere \in S /\ Nowhere = 0
      BY <2>1 DEF Nowhere
    <3>2. Spaces \subseteq Nat
      BY SpacesAssumption
    <3>3. S \subseteq Spaces \cup {0}
      BY <2>1, <3>1
    <3> QED
      BY <3>1, <3>2, <3>3
  <2>3. Min(S) \in Spaces \cup {Nowhere}
    BY <2>1, <2>2, LeastIs
  <2> QED
    BY <1>1, <1>2, <2>1, <2>3
<1>7. WorkspacesTypeOK
  BY <1>1, <1>2, <1>4, <1>5, <1>6 DEF WorkspacesTypeOK, NoRun
<1>8. Nowhere \notin Spaces /\ IsFiniteSet(Spaces) /\ Allowed \in Nat \ {0}
  BY SpacesAssumption DEF Nowhere
<1>9. \A c \in DOMAIN calls : CallFits(c)
  BY <1>5, <1>8 DEF CallFits
<1>10. DutiesAreOwed
  BY <1>2, <1>3 DEF DutiesAreOwed, Due, Exists, People
<1>11. RunFits
  BY <1>1, <1>8 DEF RunFits, NoRun
<1>12. PlanFits
  <2>1. DOMAIN calls = 1 .. Len(calls) /\ Len(calls) \in Nat
    BY <1>1, <1>2
  <2>2. IsFiniteSet(DOMAIN calls)
    BY <2>1, FS_Interval
  <2>3. Adding = {}
    BY <1>5 DEF Adding, Adds
  <2>4. Cardinality(Adding) = 0
    BY <2>3, FS_EmptySet
  <2>5. PICK q : q = Cardinality(Askers) /\ q \in Nat
    BY <2>2, FS_Subset, FS_CardinalityType DEF Askers
  <2>6. Max({1, q}) \in Nat /\ Max({1, q}) >= 1
    BY <2>5, MaxIs
  <2>7. Counted = {s \in Spaces : stand[s] = "ACTIVE"}
    BY <1>3 DEF Counted, IsActive
  <2>8. PICK n : n = Cardinality(Counted) /\ n \in Nat /\ n <= Allowed
    BY <1>2, <1>8, <2>7, FS_Subset, FS_CardinalityType
  <2>9. n + 0 < Allowed + Max({1, q})
    BY <1>8, <2>6, <2>8
  <2> QED
    BY <2>2, <2>4, <2>5, <2>8, <2>9 DEF PlanFits
<1> QED
  BY <1>2, <1>3, <1>7, <1>9, <1>10, <1>11, <1>12 DEF WorkspacesInv

LEMMA WorkspacesInvHolds ==
  ASSUME WorkspacesInv
  PROVE  WorkspacesHold
<1>1. ASSUME NEW s \in Spaces, Exists(s), Whole(s)
      PROVE  \/ Owner \in space[s].crew
             \/ \E c \in DOMAIN calls : calls[c].on = s /\ calls[c].at \in {"join", "undo"}
  <2>1. CASE Owner \notin space[s].crew
    <3>1. PICK duty \in Duties : duty = "owner" /\ Due(s, duty)
      BY <1>1, <2>1 DEF Duties, Due
    <3>2. PICK c \in DOMAIN calls : calls[c].on = s /\ Owes(calls[c], duty)
      BY <1>1, <3>1 DEF WorkspacesInv, DutiesAreOwed
    <3> QED
      BY <3>1, <3>2 DEF Owes
  <2> QED
    BY <2>1
<1>2. SpacesWithinPlan
  <2>1. PICK n \in Nat, a \in Nat, q \in Nat : /\ n = Cardinality(Counted) /\ a = Cardinality(Adding)
                                               /\ q = Cardinality(Askers)
    BY PlanHas
  <2>2. n + a < Allowed + Max({1, q})
    BY <2>1 DEF WorkspacesInv, PlanFits
  <2>3. Max({1, q}) \in Nat /\ Allowed \in Nat
    BY <2>1, MaxIs, SpacesAssumption
  <2>4. n < Allowed + Max({1, q})
    BY <2>1, <2>2, <2>3
  <2> QED
    BY <2>1, <2>4 DEF SpacesWithinPlan, Askers
<1>3. ASSUME NEW s \in Spaces, Quiet(s), NEW duty \in Duties PROVE ~ Due(s, duty)
  <2>1. ASSUME Due(s, duty) PROVE FALSE
    <3>1. PICK c \in DOMAIN calls : calls[c].on = s /\ Owes(calls[c], duty)
      BY <1>3, <2>1 DEF WorkspacesInv, DutiesAreOwed, Quiet
    <3> QED
      BY <1>3, <3>1 DEF Quiet, Over, Owes
  <2> QED
    BY <2>1
<1>4. ASSUME NEW s \in Spaces, space[s].status = "DELETED"
      PROVE  /\ \A p \in People : s \notin Shown(p) /\ Landed(p) # s /\ ~MayEnter(p, s, TRUE)
             /\ Quiet(s) => space[s].crew = {} /\ slot[s].post = "NONE"
  <2>1. ASSUME NEW p \in People PROVE s \notin Shown(p) /\ Landed(p) # s /\ ~MayEnter(p, s, TRUE)
    <3>1. s \notin Shown(p) /\ ~MayEnter(p, s, TRUE)
      BY <1>4 DEF Shown, MayEnter, IsActive, Exists
    <3>2. Landed(p) # Nowhere => Landed(p) \in Shown(p)
      BY LandedIs DEF Offered
    <3> QED
      BY <3>1, <3>2, RestsTyped
  <2>2. Quiet(s) => space[s].crew = {} /\ slot[s].post = "NONE"
    BY <1>3, <1>4 DEF Duties, Due
  <2> QED
    BY <2>1, <2>2
<1>5. ASSUME NEW s \in Spaces, space[s].status = "ARCHIVED", Quiet(s)
      PROVE  ~ space[s].invited /\ space[s].autopilot = "PAUSED"
  BY <1>3, <1>5 DEF Duties, Due
<1> QED
  BY <1>1, <1>2, <1>4, <1>5 DEF WorkspacesHold, WorkspacesInv, OwnersStay, DeletedIsGone, ArchivesRest

(* Only a run sends, and one that sends began while its workspace was       *)
(* active.                                                                  *)
SendsOnlyLive == \A s \in Spaces : sendings'[s] # sendings[s] => run.on = s /\ ~run.since

LEMMA WorkspacesStepSends ==
  ASSUME WorkspacesInv, [WorkspacesNext]_workspaceVars
  PROVE  SendsOnlyLive
<1>1. CASE UNCHANGED sendings
  BY <1>1 DEF SendsOnlyLive
<1>2. CASE SendSlot
  <2>1. ~ run.since /\ run.on \in Spaces
    BY <1>2, RunOn DEF SendSlot, RunAt
  <2>2. sendings' = sendings \/ sendings' = [sendings EXCEPT ![run.on] = @ + 1]
    BY <1>2 DEF SendSlot
  <2>3. sendings \in [Spaces -> Nat]
    BY DEF WorkspacesInv, WorkspacesTypeOK
  <2> QED
    BY <2>1, <2>2, <2>3 DEF SendsOnlyLive
<1>3. ASSUME NEW c \in DOMAIN calls, CallNext(c) PROVE SendsOnlyLive
  BY <1>3 DEF SendsOnlyLive, CallNext, Aim, Enter, Count, Establish, Join, Undo, Land, Reinstate, Archive,
     Revoke,
     Unland, ListScheduled, CancelSchedule, Unschedule, PauseAutopilot, Remove, Clean, ServerDies,
     Queue, Mark
<1>4. CASE (\E s \in Spaces : Begins(s)) \/ Look \/ ClaimSlot \/ FinishSlot
  <2>1. (\E s \in Spaces : Begins(s)) => UNCHANGED sendings
    BY DEF Begins
  <2>2. Look => UNCHANGED sendings
    BY DEF Look
  <2>3. ClaimSlot => UNCHANGED sendings
    BY DEF ClaimSlot
  <2>4. FinishSlot => UNCHANGED sendings
    BY DEF FinishSlot
  <2> QED
    BY <1>1, <1>4, <2>1, <2>2, <2>3, <2>4
<1>5. CASE UNCHANGED workspaceVars
  BY <1>5 DEF workspaceVars, SendsOnlyLive
<1> QED
  BY <1>1, <1>2, <1>3, <1>4, <1>5, Zenon DEF WorkspacesNext, RunNext

-----------------------------------------------------------------------------
(* Media: what files and rules are.                                         *)

LEMMA RulesAre ==
  ASSUME NEW p \in Platforms
  PROVE  /\ Rules[p].max \in Nat /\ Rules[p].max <= Several
         /\ Rules[p].images \subseteq Pictures /\ Rules[p].videos \subseteq Films
         /\ \A i \in DOMAIN Rules[p].formats : Rules[p].formats[i] \in Formats
         /\ Rules[p].formats # <<>> => 1 \in DOMAIN Rules[p].formats
  BY SeveralAssumption DEF Rules, Rule, Platforms, Pictures, Films, Formats

LEMMA KindsAre ==
  ASSUME NEW f
  PROVE  /\ KindOf(f) \in {"video", "image", "document"}
         /\ KindOf(f) = "video" <=> f.type \in Films
         /\ KindOf(f) = "image" <=> f.type \in Pictures
  BY DEF KindOf, Films, Pictures

LEMMA OfKindIs ==
  ASSUME NEW files, NEW kind, NEW f
  PROVE  f \in OfKind(files, kind) <=> f \in files /\ KindOf(f) = kind
  BY DEF OfKind

(* What one file fewer leaves acceptable.                                   *)
LEMMA FewerAreAcceptable ==
  ASSUME NEW p \in Platforms, NEW A, IsFiniteSet(A), NEW B, B \subseteq A,
         Acceptable(p, A, FALSE)
  PROVE  Acceptable(p, B, FALSE)
<1>1. CASE B = {}
  BY <1>1 DEF Acceptable
<1>2. CASE B # {}
  <2>1. /\ A # {} /\ Cardinality(A) <= Several /\ OfKind(A, "document") = {}
        /\ \/ A = OfKind(A, "video") /\ Cardinality(OfKind(A, "video")) = 1
              /\ \A f \in OfKind(A, "video") : f.type \in Rules[p].videos
           \/ OfKind(A, "video") = {} /\ Cardinality(A) <= Rules[p].max
              /\ \A f \in A : f.type \in Rules[p].images
    BY <1>2 DEF Acceptable
  <2>2. /\ IsFiniteSet(B) /\ Cardinality(B) \in Nat /\ Cardinality(A) \in Nat
        /\ Cardinality(B) <= Cardinality(A)
    BY FS_Subset, FS_CardinalityType
  <2>3. Cardinality(B) # 0
    BY <1>2, <2>2, FS_EmptySet
  <2>4. OfKind(B, "document") = {}
    BY <2>1 DEF OfKind
  <2>5. CASE A = OfKind(A, "video") /\ Cardinality(OfKind(A, "video")) = 1
             /\ \A f \in OfKind(A, "video") : f.type \in Rules[p].videos
    <3>1. B = OfKind(B, "video")
      BY <2>5, Zenon DEF OfKind
    <3>2. Cardinality(A) = 1
      BY <2>5
    <3>3. Cardinality(B) = 1 /\ Cardinality(B) <= Several
      BY <2>2, <2>3, <3>2, SeveralAssumption
    <3>4. \A f \in B : f.type \in Rules[p].videos
      BY <2>5
    <3> QED
      BY <1>2, <2>4, <3>1, <3>3, <3>4 DEF Acceptable
  <2>6. CASE OfKind(A, "video") = {} /\ Cardinality(A) <= Rules[p].max
             /\ \A f \in A : f.type \in Rules[p].images
    <3>1. OfKind(B, "video") = {}
      BY <2>6 DEF OfKind
    <3>2. Cardinality(B) <= Rules[p].max /\ Cardinality(B) <= Several
      BY <2>2, <2>6, RulesAre, SeveralAssumption
    <3>3. \A f \in B : f.type \in Rules[p].images
      BY <2>6
    <3> QED
      BY <1>2, <2>4, <3>1, <3>2, <3>3 DEF Acceptable
  <2> QED
    BY <2>1, <2>5, <2>6
<1> QED
  BY <1>1, <1>2

(* What the picker lets somebody add stays acceptable.                      *)
LEMMA AttachableIsAcceptable ==
  ASSUME NEW p \in Platforms, NEW A, IsFiniteSet(A), NEW f, f \notin A,
         Acceptable(p, A, FALSE), Attachable(p, f, A)
  PROVE  Acceptable(p, A \cup {f}, FALSE)
<1> DEFINE B == A \cup {f}
<1>1. /\ IsFiniteSet(B) /\ Cardinality(B) = Cardinality(A) + 1 /\ Cardinality(A) \in Nat
  BY FS_AddElement, FS_CardinalityType
<1>2. CASE KindOf(f) = "video" /\ f.type \in Rules[p].videos /\ A = {}
  <2>1. B = {f} /\ Cardinality(B) = 1
    BY <1>1, <1>2, FS_EmptySet
  <2>2. OfKind(B, "document") = {} /\ OfKind(B, "video") = B
    BY <1>2, <2>1, KindsAre DEF OfKind
  <2> QED
    BY <1>2, <2>1, <2>2, SeveralAssumption DEF Acceptable
<1>3. CASE KindOf(f) = "image" /\ f.type \in Rules[p].images /\ RoomFor(Rules[p].max, A)
  <2>1. OfKind(A, "video") = {} /\ Cardinality(A) < Rules[p].max
    BY <1>3 DEF RoomFor
  <2>2. \A g \in A : g.type \in Rules[p].images /\ KindOf(g) # "document"
    <3>1. CASE A = {}
      BY <3>1
    <3>2. CASE A # {}
      BY <2>1, <3>2 DEF Acceptable, OfKind
    <3> QED
      BY <3>1, <3>2
  <2>3. OfKind(B, "document") = {} /\ OfKind(B, "video") = {}
    BY <1>3, <2>1, <2>2 DEF OfKind
  <2>4. Cardinality(B) <= Rules[p].max /\ Cardinality(B) <= Several
    BY <1>1, <2>1, RulesAre, SeveralAssumption
  <2> QED
    BY <1>3, <2>2, <2>3, <2>4 DEF Acceptable
<1> QED
  BY <1>2, <1>3 DEF Attachable

(* What can be planned is what the platform has, and takes.                 *)
LEMMA AcceptableIs ==
  ASSUME NEW p \in Platforms, NEW A, IsFiniteSet(A), Acceptable(p, A, TRUE)
  PROVE  \/ A = {} /\ ~ Rules[p].required
         \/ /\ A # {} /\ OfKind(A, "video") = A /\ Cardinality(A) = 1
            /\ \A f \in A : f.type \in Rules[p].videos
         \/ /\ A # {} /\ OfKind(A, "video") = {} /\ Cardinality(A) <= Rules[p].max
            /\ Cardinality(A) \in Nat \ {0} /\ \A f \in A : f.type \in Rules[p].images
<1>1. A # {} => Cardinality(A) \in Nat \ {0}
  BY FS_CardinalityType, FS_EmptySet
<1>2. A = {} => ~ Rules[p].required
  BY DEF Acceptable
<1>3. A # {} => \/ A = OfKind(A, "video") /\ Cardinality(OfKind(A, "video")) = 1
                   /\ \A f \in OfKind(A, "video") : f.type \in Rules[p].videos
                \/ OfKind(A, "video") = {} /\ Cardinality(A) <= Rules[p].max
                   /\ \A f \in A : f.type \in Rules[p].images
  BY DEF Acceptable
<1> QED
  BY <1>1, <1>2, <1>3

LEMMA PlannedIsDeclared ==
  ASSUME NEW p \in Platforms, NEW A, IsFiniteSet(A), Acceptable(p, A, TRUE), NEW format
  PROVE  Capability(A, format) \in Declared(p)
<1>1. CASE A = {} /\ ~ Rules[p].required
  <2>1. p \in {"LINKEDIN", "FACEBOOK"}
    BY <1>1 DEF Rules, Rule, Platforms
  <2>2. Capability(A, format) = "TEXT_POST"
    BY <1>1 DEF Capability, OfKind
  <2> QED
    BY <2>1, <2>2 DEF Declared
<1>2. CASE /\ A # {} /\ OfKind(A, "video") = A /\ Cardinality(A) = 1
           /\ \A f \in A : f.type \in Rules[p].videos
  <2>1. p # "LINKEDIN"
    BY <1>2 DEF Rules, Rule, Platforms
  <2>2. Capability(A, format) \in {"SHORT_VIDEO", "VIDEO_POST"}
    BY <1>2 DEF Capability
  <2> QED
    BY <2>1, <2>2 DEF Declared, Platforms
<1>3. CASE /\ A # {} /\ OfKind(A, "video") = {} /\ Cardinality(A) <= Rules[p].max
           /\ Cardinality(A) \in Nat \ {0} /\ \A f \in A : f.type \in Rules[p].images
  <2>1. PICK n \in Nat : n = Cardinality(A) /\ n > 0 /\ n <= Rules[p].max
    BY <1>3
  <2>2. /\ p \in {"LINKEDIN", "FACEBOOK", "INSTAGRAM"}
        /\ p = "LINKEDIN" => n = 1
    BY <2>1 DEF Rules, Rule, Platforms
  <2>3. Capability(A, format) = IF n > 1 THEN "CAROUSEL" ELSE "IMAGE_POST"
    BY <1>3, <2>1 DEF Capability
  <2> QED
    BY <2>1, <2>2, <2>3 DEF Declared
<1> QED
  BY <1>1, <1>2, <1>3, AcceptableIs

LEMMA PlannedIsTaken ==
  ASSUME NEW p \in Platforms, NEW A, IsFiniteSet(A), Acceptable(p, A, TRUE),
         NEW text \in {"short", "long"}, NEW title, ~ Takes(p, text, title, A)
  PROVE  text = "long" \/ title = "long" \/ (p = "INSTAGRAM" /\ \E f \in A : f.large)
<1> SUFFICES ASSUME text = "short", title # "long", p = "INSTAGRAM" => \A f \in A : ~ f.large
             PROVE  FALSE
  OBVIOUS
<1>1. \/ A = {} /\ ~ Rules[p].required
      \/ /\ A # {} /\ OfKind(A, "video") = A /\ Cardinality(A) = 1
         /\ \A f \in A : f.type \in Rules[p].videos
      \/ /\ A # {} /\ OfKind(A, "video") = {} /\ Cardinality(A) <= Rules[p].max
         /\ Cardinality(A) \in Nat \ {0} /\ \A f \in A : f.type \in Rules[p].images
  BY AcceptableIs
<1>2. PICK n \in Nat : n = Cardinality(A) /\ (A = {} => n = 0)
  BY FS_CardinalityType, FS_EmptySet
<1>3. ASSUME p = "LINKEDIN" PROVE FALSE
  <2>1. n <= 1 /\ \A f \in A : f.type \in {"image/jpeg", "image/png"}
    BY <1>1, <1>2, <1>3 DEF Rules, Rule, Platforms
  <2> QED
    BY <1>2, <1>3, <2>1 DEF Takes, LinkedInTakes
<1>4. ASSUME p = "FACEBOOK" PROVE FALSE
  <2>1. \/ \A f \in A : f.type \in {"video/mp4", "video/quicktime"}
        \/ n <= Several /\ \A f \in A : f.type \in {"image/jpeg", "image/png", "image/gif"}
    BY <1>1, <1>2, <1>4 DEF Rules, Rule, Platforms
  <2> QED
    BY <1>2, <1>4, <2>1 DEF Takes, FacebookTakes, Pictures
<1>5. ASSUME p = "INSTAGRAM" PROVE FALSE
  <2>1. \/ \A f \in A : f.type \in {"video/mp4", "video/quicktime"}
        \/ A # {} /\ n <= Several /\ \A f \in A : f.type = "image/jpeg"
    BY <1>1, <1>2, <1>5 DEF Rules, Rule, Platforms
  <2> QED
    BY <1>2, <1>5, <2>1 DEF Takes, InstagramTakes
<1>6. ASSUME p = "TIKTOK" PROVE FALSE
  <2>1. \A f \in A : f.type \in Films
    BY <1>1, <1>2, <1>6 DEF Rules, Rule, Platforms
  <2> QED
    BY <1>6, <2>1 DEF Takes, TikTokTakes
<1>7. ASSUME p = "YOUTUBE" PROVE FALSE
  BY <1>7 DEF Takes, YouTubeTakes
<1> QED
  BY <1>3, <1>4, <1>5, <1>6, <1>7 DEF Platforms

(* A format is resolved exactly when there is a video.                      *)
LEMMA ResolvedIs ==
  ASSUME NEW p \in Platforms, NEW A, Acceptable(p, A, FALSE), NEW requested
  PROVE  /\ Resolved(p, A, requested) \in Formats \cup {None}
         /\ Resolved(p, A, requested) # None <=> OfKind(A, "video") # {}
<1>1. PICK formats : formats = Rules[p].formats
  OBVIOUS
<1>2. /\ \A i \in DOMAIN formats : formats[i] \in Formats
      /\ formats # <<>> => 1 \in DOMAIN formats
  BY <1>1, RulesAre
<1>3. None \notin Formats
  BY DEF None, Formats
<1>4. CASE OfKind(A, "video") = {}
  BY <1>4 DEF Resolved
<1>5. CASE OfKind(A, "video") # {}
  <2>1. formats # <<>>
    <3>1. PICK f : f \in OfKind(A, "video") /\ f \in A
      BY <1>5 DEF OfKind
    <3>2. f.type \in Films /\ f.type \notin Pictures
      BY <3>1, KindsAre, OfKindIs
    <3>3. f.type \in Rules[p].videos \/ f.type \in Rules[p].images
      BY <3>1 DEF Acceptable
    <3>4. f.type \in Rules[p].videos
      BY <3>2, <3>3, RulesAre
    <3>5. p # "LINKEDIN"
      BY <3>4 DEF Rules, Rule, Platforms
    <3> QED
      BY <1>1, <3>5 DEF Rules, Rule, Platforms
  <2>2. Resolved(p, A, requested) =
          IF \E i \in DOMAIN formats : formats[i] = requested THEN requested ELSE formats[1]
    BY <1>1, <1>5, <2>1 DEF Resolved
  <2>3. Resolved(p, A, requested) \in Formats
    BY <1>2, <2>1, <2>2
  <2> QED
    BY <1>3, <1>5, <2>3
<1> QED
  BY <1>4, <1>5

(* The inductive invariant: what is attached is acceptable, whatever is     *)
(* edited, and what is selected in the picker is.                           *)
MediaInv ==
  /\ MediaTypeOK
  /\ IsFiniteSet(draft.media) /\ IsFiniteSet(picker.selected)
  /\ Acceptable(draft.platform, draft.media, FALSE)
  /\ PickerAgrees /\ OnlyTooMuchIsRefused /\ FormatFollowsVideo

LEMMA DraftIs ==
  ASSUME MediaInv
  PROVE  /\ draft.platform \in Platforms /\ draft.text \in {"short", "long"}
         /\ draft.title \in {None, "short", "long"} /\ draft.format \in Formats \cup {None}
         /\ draft.media \subseteq Shelf /\ shelf \subseteq Shelf /\ picker.selected \subseteq Shelf
         /\ draft = [platform |-> draft.platform, text |-> draft.text, title |-> draft.title,
                     media |-> draft.media, format |-> draft.format]
         /\ going \in {None, "queued", "sent", "refused", "unsupported", "stopped"}
  BY DEF MediaInv, MediaTypeOK

LEMMA AttachedIs ==
  ASSUME MediaInv, NEW B, B \subseteq Attached
  PROVE  IsFiniteSet(B) /\ B \subseteq Shelf /\ B \subseteq shelf /\ Acceptable(draft.platform, B, FALSE)
<1>1. B \subseteq draft.media /\ B \subseteq shelf
  BY DEF Attached
<1>2. IsFiniteSet(B)
  BY <1>1, FS_Subset DEF MediaInv
<1>3. Acceptable(draft.platform, B, FALSE)
  BY <1>1, DraftIs, FewerAreAcceptable DEF MediaInv
<1> QED
  BY <1>1, <1>2, <1>3, DraftIs

LEMMA SelectedIs ==
  ASSUME MediaInv, NEW B, B \subseteq Selected
  PROVE  IsFiniteSet(B) /\ B \subseteq Shelf /\ B \subseteq shelf
         /\ (picker.open => Acceptable(draft.platform, B, FALSE))
<1>1. B \subseteq picker.selected /\ B \subseteq shelf /\ Selected \subseteq picker.selected
  BY DEF Selected
<1>2. IsFiniteSet(B) /\ IsFiniteSet(Selected)
  BY <1>1, FS_Subset DEF MediaInv
<1>3. ASSUME picker.open PROVE Acceptable(draft.platform, B, FALSE)
  BY <1>2, <1>3, DraftIs, FewerAreAcceptable DEF MediaInv, PickerAgrees
<1> QED
  BY <1>1, <1>2, <1>3, DraftIs

(* A new version of the post.                                               *)
LEMMA MediaDraftKeeps ==
  ASSUME MediaInv, Editing, NEW text \in {"short", "long"}, NEW title \in {None, "short", "long"},
         NEW media, media \subseteq Shelf, IsFiniteSet(media), Acceptable(draft.platform, media, FALSE),
         NEW format,
         draft' = [platform |-> draft.platform, text |-> text, title |-> title, media |-> media,
                   format |-> Resolved(draft.platform, media, format)],
         picker' = picker \/ picker' = Closed, UNCHANGED <<shelf, going>>
  PROVE  MediaInv'
<1>1. PICK p \in Platforms : p = draft.platform
  BY DraftIs
<1>2. PICK d : d = Resolved(p, media, format)
  OBVIOUS
<1>3. d \in Formats \cup {None} /\ (d # None <=> OfKind(media, "video") # {})
  BY <1>1, <1>2, ResolvedIs
<1>4. /\ draft' = [platform |-> p, text |-> text, title |-> title, media |-> media, format |-> d]
      /\ draft'.platform = p /\ draft'.media = media /\ draft'.format = d
  BY <1>1, <1>2
<1>5. /\ picker' \in [open : BOOLEAN, selected : SUBSET Shelf] /\ IsFiniteSet(picker'.selected)
      /\ picker'.open => picker' = picker
  <2>1. CASE picker' = picker
    BY <2>1 DEF MediaInv, MediaTypeOK
  <2>2. CASE picker' = Closed
    <3>1. picker' = [open |-> FALSE, selected |-> {}]
      BY <2>2 DEF Closed
    <3>2. picker' \in [open : BOOLEAN, selected : SUBSET Shelf] /\ ~ picker'.open
      BY <3>1
    <3>3. picker'.selected = {}
      BY <3>1
    <3> QED
      BY <3>2, <3>3, FS_EmptySet
  <2> QED
    BY <2>1, <2>2
<1>6. MediaTypeOK'
  BY <1>3, <1>4, <1>5 DEF MediaInv, MediaTypeOK
<1>7. PickerAgrees'
  <2>1. CASE picker' = picker
    BY <1>1, <1>4, <2>1 DEF MediaInv, PickerAgrees, Selected
  <2>2. CASE picker' = Closed
    BY <2>2 DEF Closed, PickerAgrees
  <2> QED
    BY <2>1, <2>2
<1>8. OnlyTooMuchIsRefused'
  BY DEF Editing, OnlyTooMuchIsRefused, None
<1>9. FormatFollowsVideo'
  BY <1>3, <1>4 DEF FormatFollowsVideo
<1> QED
  BY <1>1, <1>4, <1>5, <1>6, <1>7, <1>8, <1>9 DEF MediaInv

(* Of steps that leave the draft alone.                                     *)
LEMMA DraftRests ==
  ASSUME MediaInv, UNCHANGED draft, shelf' \subseteq Shelf,
         picker' \in [open : BOOLEAN, selected : SUBSET Shelf], IsFiniteSet(picker'.selected),
         picker'.open => Acceptable(draft.platform, Selected', FALSE),
         going' \in {None, "queued", "sent", "refused", "stopped"}, OnlyTooMuchIsRefused'
  PROVE  MediaInv'
<1>1. MediaTypeOK'
  BY DEF MediaInv, MediaTypeOK
<1>2. PickerAgrees' /\ FormatFollowsVideo'
  BY DEF MediaInv, PickerAgrees, FormatFollowsVideo
<1> QED
  BY <1>1, <1>2 DEF MediaInv

LEMMA WriteTextStep == ASSUME MediaInv, WriteText PROVE MediaInv'
<1>1. PICK text \in {"short", "long"}, title \in {None, "short", "long"} :
        draft' = [draft EXCEPT !.text = text, !.title = title, !.media = Attached,
                               !.format = Resolved(draft.platform, Attached, @)]
  BY DEF WriteText
<1>2. draft' = [platform |-> draft.platform, text |-> text, title |-> title, media |-> Attached,
                format |-> Resolved(draft.platform, Attached, draft.format)]
  BY <1>1, DraftIs
<1>3. Editing /\ UNCHANGED <<shelf, picker, going>>
  BY DEF WriteText
<1>4. IsFiniteSet(Attached) /\ Attached \subseteq Shelf /\ Acceptable(draft.platform, Attached, FALSE)
  BY AttachedIs
<1> QED
  BY <1>2, <1>3, <1>4, MediaDraftKeeps

LEMMA SaveMediaStep ==
  ASSUME MediaInv, NEW media, NEW format, SaveMedia(media, format), IsFiniteSet(media),
         picker' = picker \/ picker' = Closed, UNCHANGED <<shelf, going>>
  PROVE  MediaInv'
<1>1. Editing /\ media \subseteq Shelf /\ Acceptable(draft.platform, media, FALSE)
  BY DraftIs DEF SaveMedia
<1>2. draft' = [draft EXCEPT !.media = media, !.format = Resolved(draft.platform, media, format)]
  BY DEF SaveMedia, SaveVersion
<1>3. draft' = [platform |-> draft.platform, text |-> draft.text, title |-> draft.title, media |-> media,
                format |-> Resolved(draft.platform, media, format)]
  BY <1>2, DraftIs
<1>4. draft.text \in {"short", "long"} /\ draft.title \in {None, "short", "long"}
  BY DraftIs
<1> QED
  BY <1>1, <1>3, <1>4, MediaDraftKeeps

LEMMA DetachStep == ASSUME MediaInv, Detach PROVE MediaInv'
<1>1. PICK f \in Attached : SaveMedia(Attached \ {f}, draft.format)
  BY DEF Detach
<1>2. IsFiniteSet(Attached \ {f})
  BY AttachedIs
<1> QED
  BY <1>1, <1>2, SaveMediaStep DEF Detach

LEMMA ChooseFormatStep == ASSUME MediaInv, ChooseFormat PROVE MediaInv'
<1>1. PICK format : SaveMedia(Attached, format)
  BY DEF ChooseFormat
<1>2. IsFiniteSet(Attached)
  BY AttachedIs
<1> QED
  BY <1>1, <1>2, SaveMediaStep DEF ChooseFormat

LEMMA ConfirmStep == ASSUME MediaInv, Confirm PROVE MediaInv'
<1>1. SaveMedia(Selected, draft.format) /\ picker' = Closed /\ UNCHANGED <<shelf, going>>
  BY DEF Confirm
<1>2. IsFiniteSet(Selected)
  BY SelectedIs
<1> QED
  BY <1>1, <1>2, SaveMediaStep

LEMMA OpenPickerStep == ASSUME MediaInv, OpenPicker PROVE MediaInv'
<1>1. picker' = [open |-> TRUE, selected |-> Attached] /\ UNCHANGED <<draft, shelf, going>> /\ Editing
  BY DEF OpenPicker
<1>2. IsFiniteSet(Attached) /\ Attached \subseteq Shelf /\ Acceptable(draft.platform, Attached, FALSE)
  BY AttachedIs
<1>3. Selected' = Attached
  BY <1>1 DEF Selected, Attached
<1>4. OnlyTooMuchIsRefused' /\ going' \in {None, "queued", "sent", "refused", "stopped"}
  BY <1>1, DraftIs DEF MediaInv, OnlyTooMuchIsRefused, Bare
<1> QED
  BY <1>1, <1>2, <1>3, <1>4, DraftIs, DraftRests

LEMMA ToggleStep == ASSUME MediaInv, Toggle PROVE MediaInv'
<1>1. PICK f \in shelf :
        \/ f \in picker.selected /\ picker' = [picker EXCEPT !.selected = @ \ {f}]
        \/ /\ f \notin picker.selected /\ Attachable(draft.platform, f, Selected)
           /\ picker' = [picker EXCEPT !.selected = @ \cup {f}]
  BY DEF Toggle
<1>2. picker.open /\ UNCHANGED <<draft, shelf, going>>
  BY DEF Toggle
<1>3. PICK S \in SUBSET Shelf : S = picker.selected /\ IsFiniteSet(S)
  BY DraftIs DEF MediaInv
<1>4. OnlyTooMuchIsRefused' /\ going' \in {None, "queued", "sent", "refused", "stopped"} /\ shelf' \subseteq Shelf
  BY <1>2, DraftIs DEF MediaInv, OnlyTooMuchIsRefused, Bare
<1>5. picker \in [open : BOOLEAN, selected : SUBSET Shelf]
  BY DEF MediaInv, MediaTypeOK
<1>6. CASE f \in picker.selected /\ picker' = [picker EXCEPT !.selected = @ \ {f}]
  <2>1. picker' = [picker EXCEPT !.selected = S \ {f}]
    BY <1>3, <1>6
  <2>2. picker' \in [open : BOOLEAN, selected : SUBSET Shelf] /\ picker'.selected = S \ {f}
    BY <1>5, <2>1
  <2>3. IsFiniteSet(S \ {f})
    BY <1>3, FS_Subset
  <2>4. Selected' \subseteq Selected
    BY <1>2, <1>3, <2>2 DEF Selected
  <2>5. Acceptable(draft.platform, Selected', FALSE)
    BY <1>2, <2>4, SelectedIs
  <2> QED
    BY <1>2, <1>4, <2>2, <2>3, <2>5, DraftRests
<1>7. CASE /\ f \notin picker.selected /\ Attachable(draft.platform, f, Selected)
           /\ picker' = [picker EXCEPT !.selected = @ \cup {f}]
  <2>1. picker' = [picker EXCEPT !.selected = S \cup {f}] /\ f \in Shelf
    BY <1>1, <1>3, <1>7, DraftIs
  <2>2. picker' \in [open : BOOLEAN, selected : SUBSET Shelf] /\ picker'.selected = S \cup {f}
    BY <1>5, <2>1
  <2>3. IsFiniteSet(S \cup {f})
    BY <1>3, FS_AddElement
  <2>4. Selected' = Selected \cup {f} /\ f \notin Selected
    BY <1>1, <1>2, <1>3, <1>7, <2>2 DEF Selected
  <2>5. Acceptable(draft.platform, Selected \cup {f}, FALSE)
    <3>1. IsFiniteSet(Selected) /\ Acceptable(draft.platform, Selected, FALSE)
      BY <1>2, SelectedIs
    <3> QED
      BY <1>7, <2>4, <3>1, DraftIs, AttachableIsAcceptable
  <2> QED
    BY <1>2, <1>4, <2>2, <2>3, <2>4, <2>5, DraftRests
<1> QED
  BY <1>1, <1>6, <1>7

LEMMA DismissStep == ASSUME MediaInv, Dismiss PROVE MediaInv'
<1>1. picker' = Closed /\ UNCHANGED <<draft, shelf, going>>
  BY DEF Dismiss
<1>2. /\ Closed \in [open : BOOLEAN, selected : SUBSET Shelf] /\ ~ Closed.open
      /\ IsFiniteSet(Closed.selected)
  BY FS_EmptySet DEF Closed
<1>3. OnlyTooMuchIsRefused' /\ going' \in {None, "queued", "sent", "refused", "stopped"}
  BY <1>1, DraftIs DEF MediaInv, OnlyTooMuchIsRefused, Bare
<1> QED
  BY <1>1, <1>2, <1>3, DraftIs, DraftRests

LEMMA TakeOffStep == ASSUME MediaInv, TakeOff PROVE MediaInv'
<1>1. shelf' \subseteq shelf /\ UNCHANGED <<draft, picker, going>>
  BY DEF TakeOff
<1>2. Selected' \subseteq Selected
  BY <1>1 DEF Selected
<1>3. picker.open => Acceptable(draft.platform, Selected', FALSE)
  BY <1>2, SelectedIs
<1>4. OnlyTooMuchIsRefused' /\ going' \in {None, "queued", "sent", "refused", "stopped"}
  BY <1>1, DraftIs DEF MediaInv, OnlyTooMuchIsRefused, Bare
<1>5. picker \in [open : BOOLEAN, selected : SUBSET Shelf] /\ IsFiniteSet(picker.selected)
  BY DEF MediaInv, MediaTypeOK
<1> QED
  BY <1>1, <1>3, <1>4, <1>5, DraftIs, DraftRests

LEMMA GoesOn ==
  ASSUME MediaInv, UNCHANGED <<draft, shelf, picker>>,
         going' \in {None, "queued", "sent", "refused", "stopped"}, OnlyTooMuchIsRefused'
  PROVE  MediaInv'
<1>1. Selected' = Selected /\ (picker.open => Acceptable(draft.platform, Selected, FALSE))
  BY DEF Selected, MediaInv, PickerAgrees
<1>2. picker \in [open : BOOLEAN, selected : SUBSET Shelf] /\ IsFiniteSet(picker.selected)
  BY DEF MediaInv, MediaTypeOK
<1> QED
  BY <1>1, <1>2, DraftIs, DraftRests

LEMMA ScheduleDraftStep == ASSUME MediaInv, ScheduleDraft PROVE MediaInv'
<1>1. going' = "queued" /\ UNCHANGED <<draft, shelf, picker>>
  BY DEF ScheduleDraft
<1> QED
  BY <1>1, GoesOn DEF OnlyTooMuchIsRefused

LEMMA SendDraftStep == ASSUME MediaInv, SendDraft PROVE MediaInv'
<1>1. /\ UNCHANGED <<draft, shelf, picker>>
      /\ going' = IF ~Plannable THEN "stopped"
                  ELSE IF Capability(draft.media, draft.format) \notin Declared(draft.platform)
                    THEN "unsupported"
                  ELSE IF Takes(draft.platform, draft.text, draft.title, draft.media)
                    THEN "sent" ELSE "refused"
  BY DEF SendDraft
<1>2. IsFiniteSet(draft.media)
  BY DEF MediaInv
<1>3. CASE ~Plannable
  <2>1. Acceptable(draft.platform, draft.media, FALSE)
    BY DEF MediaInv
  <2>2. Acceptable(draft.platform, draft.media, TRUE) \/ Bare
    BY <2>1 DEF Acceptable, Bare
  <2>3. ~(draft.media \subseteq shelf) \/ Bare
    BY <1>3, <2>2 DEF Plannable
  <2>4. OnlyTooMuchIsRefused'
    BY <1>1, <1>3, <2>3 DEF OnlyTooMuchIsRefused, Bare
  <2> QED
    BY <1>1, <1>3, <2>4, GoesOn
<1>4. CASE Plannable
  <2>1. Acceptable(draft.platform, draft.media, TRUE)
    BY <1>4 DEF Plannable
  <2>2. Capability(draft.media, draft.format) \in Declared(draft.platform)
    BY <1>2, <2>1, DraftIs, PlannedIsDeclared
  <2>3. going' = IF Takes(draft.platform, draft.text, draft.title, draft.media) THEN "sent" ELSE "refused"
    BY <1>1, <1>4, <2>2
  <2>4. going' = "refused" => \/ draft.text = "long" \/ draft.title = "long"
                              \/ draft.platform = "INSTAGRAM" /\ \E f \in draft.media : f.large
    BY <1>2, <2>1, <2>3, DraftIs, PlannedIsTaken
  <2>5. OnlyTooMuchIsRefused'
    BY <1>1, <2>3, <2>4 DEF OnlyTooMuchIsRefused
  <2> QED
    BY <1>1, <2>3, <2>5, GoesOn
<1> QED
  BY <1>3, <1>4

LEMMA MediaStarts == ASSUME MediaInit PROVE MediaInv
<1>1. /\ draft.platform \in Platforms /\ draft.text = "short" /\ draft.title = None /\ draft.media = {}
      /\ draft.format = None /\ shelf = Shelf /\ picker = Closed /\ going = None
      /\ draft \in [platform : Platforms, text : {"short", "long"}, title : {None, "short", "long"},
                    media : SUBSET Shelf, format : Formats \cup {None}]
  BY DEF MediaInit
<1>2. MediaTypeOK
  BY <1>1 DEF MediaTypeOK, Closed
<1>3. IsFiniteSet(draft.media) /\ IsFiniteSet(picker.selected)
  BY <1>1, FS_EmptySet DEF Closed
<1>4. Acceptable(draft.platform, draft.media, FALSE)
  BY <1>1 DEF Acceptable
<1>5. PickerAgrees /\ OnlyTooMuchIsRefused
  BY <1>1 DEF PickerAgrees, OnlyTooMuchIsRefused, Closed, None
<1>6. FormatFollowsVideo
  BY <1>1 DEF FormatFollowsVideo, OfKind
<1> QED
  BY <1>2, <1>3, <1>4, <1>5, <1>6 DEF MediaInv

LEMMA MediaStepKeeps == ASSUME MediaInv, [MediaNext]_mediaVars PROVE MediaInv'
<1>1. CASE MediaNext
  BY <1>1, WriteTextStep, DetachStep, ChooseFormatStep, OpenPickerStep, ToggleStep, ConfirmStep,
     DismissStep, TakeOffStep, ScheduleDraftStep, SendDraftStep DEF MediaNext
<1>2. CASE UNCHANGED mediaVars
  BY <1>2 DEF mediaVars, MediaInv, MediaTypeOK, PickerAgrees, Selected, OnlyTooMuchIsRefused,
     Bare, FormatFollowsVideo
<1> QED
  BY <1>1, <1>2

LEMMA MediaInvHolds == MediaInv => MediaHolds
PROOF BY DEF MediaInv, MediaHolds

-----------------------------------------------------------------------------
(* Profiles: the inductive invariant.                                       *)

(* What a request may make of the copy it read.                             *)
Fair(what, copy, mine) ==
  /\ copy \in Profile /\ mine \in Profile
  /\ copy.completed \cap copy.skipped = {} /\ mine.completed \cap mine.skipped = {}
  /\ copy.saved => copy.status # "NOT_STARTED"
  /\ mine.status # "NOT_STARTED"
  /\ mine.status = copy.status \/ copy.status = "NOT_STARTED" \/ mine.status = "COMPLETED"
  /\ copy.completed \subseteq mine.completed \cup mine.skipped
  /\ what # "complete" /\ mine.status = "COMPLETED" => copy.status = "COMPLETED"
  /\ \A s \in Required :
       mine.field[s] = Blank /\ mine.field[s] # copy.field[s] =>
         what = "draft" /\ copy.status # "COMPLETED"

(* How the copy stands to the profile while its request is in progress: the *)
(* steps of a copy are those of the profile as long as the version is.      *)
Current(copy) ==
  IF copy.saved
    THEN /\ profile.saved /\ copy.version <= profile.version
         /\ copy.version = profile.version =>
              profile.completed = copy.completed /\ profile.skipped = copy.skipped
    ELSE ~profile.saved => profile = copy

Filled == Unfilled(profile, Wizard) = {} \/ crossed

RequestInv(c) ==
  /\ asked[c].what \in {"draft", "step", "complete"}
  /\ asked[c].at \in {"new", "over", "save"}
  /\ asked[c].at = "save" =>
       /\ Fair(asked[c].what, asked[c].copy, asked[c].mine)
       /\ Current(asked[c].copy)
       /\ asked[c].what = "complete" => Filled

ProfilesInv ==
  /\ profile \in Profile /\ crossed \in BOOLEAN
  /\ profile.saved <=> profile.status # "NOT_STARTED"
  /\ StepsApart
  /\ profile.status = "COMPLETED" => Filled
  /\ DOMAIN asked \subseteq Nat \ {Blank}
  /\ \A c \in DOMAIN asked : RequestInv(c)
-----------------------------------------------------------------------------
(* Requests.                                                                *)

RestStays(c) == \A d \in DOMAIN asked : d # c => asked'[d] = asked[d]

LEMMA RefusedIs ==
  ASSUME NEW c \in DOMAIN asked, Refused(c)
  PROVE  /\ DOMAIN asked' = DOMAIN asked /\ RestStays(c)
         /\ asked'[c].what = asked[c].what /\ asked'[c].at = "over"
  BY SMT DEF Refused, RestStays

LEMMA ChangesIs ==
  ASSUME NEW c \in DOMAIN asked, NEW mine, Changes(c, mine)
  PROVE  /\ DOMAIN asked' = DOMAIN asked /\ RestStays(c)
         /\ asked'[c].what = asked[c].what /\ asked'[c].at = "save"
         /\ asked'[c].copy = profile /\ asked'[c].mine = mine
  BY SMT DEF Changes, RestStays

(* A request that reads the profile, and changes its copy fairly or is      *)
(* refused, keeps the invariant.                                            *)
LEMMA ReadKeeps ==
  ASSUME ProfilesInv, NEW c \in DOMAIN asked, UNCHANGED <<profile, crossed>>,
         Refused(c) \/ \E mine : /\ Changes(c, mine) /\ Fair(asked[c].what, profile, mine)
                                 /\ asked[c].what = "complete" => Filled
  PROVE  ProfilesInv'
<1>1. DOMAIN asked' = DOMAIN asked /\ RestStays(c) /\ asked'[c].what = asked[c].what
  BY RefusedIs, ChangesIs
<1>2. RequestInv(c)'
  <2>1. CASE Refused(c)
    BY <2>1, RefusedIs DEF RequestInv, ProfilesInv
  <2>2. ASSUME NEW mine, Changes(c, mine), Fair(asked[c].what, profile, mine),
               asked[c].what = "complete" => Filled
        PROVE  RequestInv(c)'
    <3>1. /\ asked'[c].at = "save" /\ asked'[c].copy = profile /\ asked'[c].mine = mine
          /\ asked[c].what \in {"draft", "step", "complete"}
      BY <2>2, ChangesIs DEF RequestInv, ProfilesInv
    <3>2. Fair(asked[c].what, asked[c].copy, asked[c].mine)'
      BY <1>1, <2>2, <3>1, Zenon DEF Fair
    <3>3. Current(profile)
      BY SMT DEF Current, ProfilesInv, Profile
    <3>4. Current(asked[c].copy)'
      BY <3>1, <3>3 DEF Current
    <3>5. Filled' <=> Filled
      BY DEF Filled
    <3> QED
      BY <1>1, <2>2, <3>1, <3>2, <3>4, <3>5 DEF RequestInv
  <2> QED
    BY <2>1, <2>2
<1>3. \A d \in DOMAIN asked : d # c => RequestInv(d)'
  BY <1>1 DEF RestStays, RequestInv, ProfilesInv, Fair, Current, Filled
<1> QED
  BY <1>1, <1>2, <1>3, Zenon DEF ProfilesInv, StepsApart, Filled

LEMMA ProfileIs ==
  ASSUME NEW saved \in BOOLEAN, NEW edition \in Nat,
         NEW status \in {"NOT_STARTED", "IN_PROGRESS", "COMPLETED"},
         NEW field \in [Wizard -> Nat], NEW completed \in SUBSET Wizard, NEW skipped \in SUBSET Wizard
  PROVE  [saved |-> saved, version |-> edition, status |-> status, field |-> field,
          completed |-> completed, skipped |-> skipped] \in Profile
  BY SMT DEF Profile

LEMMA SetField ==
  ASSUME NEW p \in Profile, NEW x \in [Wizard -> Nat]
  PROVE  LET q == [p EXCEPT !.field = x] IN
         /\ q \in Profile /\ q.saved = p.saved /\ q.status = p.status
         /\ q.completed = p.completed /\ q.skipped = p.skipped
  BY SMT DEF Profile

LEMMA SetCompleted ==
  ASSUME NEW p \in Profile, NEW x \in SUBSET Wizard
  PROVE  [p EXCEPT !.completed = x] \in Profile
  BY SMT DEF Profile

LEMMA SetSkipped ==
  ASSUME NEW p \in Profile, NEW x \in SUBSET Wizard
  PROVE  [p EXCEPT !.skipped = x] \in Profile
  BY SMT DEF Profile

(* Several fields set at once are set one after the other.                  *)
LEMMA SetSteps ==
  ASSUME NEW p \in Profile, NEW x \in SUBSET Wizard, NEW y \in SUBSET Wizard
  PROVE  [p EXCEPT !.completed = x, !.skipped = y] \in Profile
<1>1. [p EXCEPT !.completed = x, !.skipped = y] = [[p EXCEPT !.completed = x] EXCEPT !.skipped = y]
  BY Zenon
<1> QED
  BY <1>1, SetCompleted, SetSkipped, Zenon

LEMMA SetParts ==
  ASSUME NEW p \in Profile, NEW f \in [Wizard -> Nat], NEW x \in SUBSET Wizard, NEW y \in SUBSET Wizard
  PROVE  [p EXCEPT !.field = f, !.completed = x, !.skipped = y] \in Profile
<1>1. [p EXCEPT !.field = f, !.completed = x, !.skipped = y]
        = [[p EXCEPT !.field = f] EXCEPT !.completed = x, !.skipped = y]
  BY Zenon
<1> QED
  BY <1>1, SetField, SetSteps, Zenon

LEMMA InProgress ==
  ASSUME NEW p \in Profile
  PROVE  /\ MarkInProgress(p) \in Profile /\ MarkInProgress(p).status # "NOT_STARTED"
         /\ MarkInProgress(p).status = p.status \/ p.status = "NOT_STARTED"
         /\ MarkInProgress(p).status = "COMPLETED" => p.status = "COMPLETED"
         /\ MarkInProgress(p).field = p.field
         /\ MarkInProgress(p).completed = p.completed /\ MarkInProgress(p).skipped = p.skipped
  BY SMT DEF MarkInProgress, Profile

LEMMA DraftKeeps ==
  ASSUME ProfilesInv, NEW c \in DOMAIN asked, SaveDraft(c)
  PROVE  ProfilesInv'
<1> DEFINE mineOf(given, filled) == [profile EXCEPT !.field = [s \in Wizard |->
             IF s \in filled THEN c ELSE IF s \in given THEN Blank ELSE @[s]]]
<1>1. PICK given \in SUBSET Wizard : \E filled \in SUBSET given :
        IF MayDraft(mineOf(given, filled)) THEN Changes(c, MarkInProgress(mineOf(given, filled)))
                                          ELSE Refused(c)
  BY DEF SaveDraft
<1>2. PICK filled \in SUBSET given :
        IF MayDraft(mineOf(given, filled)) THEN Changes(c, MarkInProgress(mineOf(given, filled)))
                                          ELSE Refused(c)
  BY <1>1
<1> DEFINE drafted == mineOf(given, filled)
           mine == MarkInProgress(drafted)
<1>3. c \in Nat /\ profile \in Profile
  BY DEF ProfilesInv
<1>4. /\ drafted \in Profile /\ drafted.saved = profile.saved /\ drafted.status = profile.status
      /\ drafted.completed = profile.completed /\ drafted.skipped = profile.skipped
  <2> DEFINE f == [s \in Wizard |-> IF s \in filled THEN c ELSE IF s \in given THEN Blank ELSE profile.field[s]]
  <2>1. f \in [Wizard -> Nat]
    BY <1>3, SMT DEF Profile, Blank
  <2>2. drafted = [profile EXCEPT !.field = f]
    OBVIOUS
  <2> HIDE DEF f, drafted, mineOf
  <2> QED
    BY <1>3, <2>1, <2>2, SetField, Zenon
<1> HIDE DEF drafted
<1>5. ASSUME MayDraft(drafted) PROVE Fair("draft", profile, mine)
  <2>1. profile.status = "COMPLETED" => \A s \in Required : drafted.field[s] # Blank
    BY <1>4, <1>5, Zenon DEF MayDraft, Unfilled, Required
  <2> QED
    BY <1>3, <1>4, <2>1, InProgress, SMT DEF Fair, ProfilesInv, StepsApart
<1>6. asked[c].what = "draft" /\ UNCHANGED <<profile, crossed>>
  BY DEF SaveDraft, IsNew
<1> QED
  BY <1>2, <1>5, <1>6, ReadKeeps DEF drafted

LEMMA StepKeeps ==
  ASSUME ProfilesInv, NEW c \in DOMAIN asked, NEW s \in Wizard, SaveStep(c, s) \/ SkipStep(c, s)
  PROVE  ProfilesInv'
<1>1. asked[c].what = "step" /\ UNCHANGED <<profile, crossed>> /\ c \in Nat /\ profile \in Profile
  BY DEF SaveStep, SkipStep, IsNew, ProfilesInv
<1>2. ASSUME NEW value \in Nat, s \in Required => value # Blank
      PROVE  Fair("step", profile, MarkInProgress([profile EXCEPT
               !.field[s] = value, !.completed = @ \cup {s}, !.skipped = @ \ {s}]))
  <2> DEFINE mine == [profile EXCEPT
               !.field[s] = value, !.completed = @ \cup {s}, !.skipped = @ \ {s}]
  <2>1. /\ mine \in Profile /\ mine.status = profile.status /\ mine.saved = profile.saved
        /\ mine.completed = profile.completed \cup {s} /\ mine.skipped = profile.skipped \ {s}
        /\ mine.field = [profile.field EXCEPT ![s] = value]
    <3>1. /\ [profile.field EXCEPT ![s] = value] \in [Wizard -> Nat]
          /\ profile.completed \cup {s} \in SUBSET Wizard /\ profile.skipped \ {s} \in SUBSET Wizard
      BY <1>1, <1>2, SMT DEF Profile
    <3>2. mine \in Profile
      BY <1>1, <3>1, SetParts, Zenon
    <3> QED
      BY <1>1, <3>2, SMT DEF Profile
  <2> HIDE DEF mine
  <2>2. \A t \in Required : mine.field[t] = Blank => mine.field[t] = profile.field[t]
    BY <1>1, <1>2, <2>1, SMT DEF Required, Profile
  <2> DEFINE all == MarkInProgress(mine)
  <2>3. /\ all \in Profile /\ all.status # "NOT_STARTED"
        /\ all.status = profile.status \/ profile.status = "NOT_STARTED"
        /\ all.status = "COMPLETED" => profile.status = "COMPLETED"
        /\ all.field = mine.field
        /\ all.completed = profile.completed \cup {s} /\ all.skipped = profile.skipped \ {s}
    BY <2>1, InProgress, Zenon
  <2> HIDE DEF all
  <2>4. /\ profile.completed \cap profile.skipped = {}
        /\ profile.saved => profile.status # "NOT_STARTED"
    BY DEF ProfilesInv, StepsApart
  <2>5. /\ all.completed \cap all.skipped = {}
        /\ profile.completed \subseteq all.completed \cup all.skipped
    BY <2>3, <2>4
  <2>6. \A t \in Required : all.field[t] = Blank => all.field[t] = profile.field[t]
    BY <2>2, <2>3, Zenon
  <2>7. Fair("step", profile, all)
    BY <1>1, <2>3, <2>4, <2>5, <2>6, SMT DEF Fair
  <2> QED
    BY <2>7 DEF all, mine
<1>3. ASSUME s \notin Required
      PROVE  Fair("step", profile, MarkInProgress([profile EXCEPT
               !.completed = @ \ {s}, !.skipped = @ \cup {s}]))
  <2> DEFINE mine == [profile EXCEPT !.completed = @ \ {s}, !.skipped = @ \cup {s}]
  <2>1. /\ mine \in Profile /\ mine.status = profile.status /\ mine.saved = profile.saved
        /\ mine.completed = profile.completed \ {s} /\ mine.skipped = profile.skipped \cup {s}
        /\ mine.field = profile.field
    <3>1. profile.completed \ {s} \in SUBSET Wizard /\ profile.skipped \cup {s} \in SUBSET Wizard
      BY <1>1, SMT DEF Profile
    <3>2. mine \in Profile
      BY <1>1, <3>1, SetSteps, Zenon
    <3> QED
      BY <1>1, <3>2, SMT DEF Profile
  <2> HIDE DEF mine
  <2>2. Fair("step", profile, MarkInProgress(mine))
    BY <1>1, <2>1, InProgress, SMT DEF Fair, ProfilesInv, StepsApart
  <2> QED
    BY <2>2 DEF mine
<1>4. CASE SaveStep(c, s)
  <2>1. PICK value \in {c, Blank, profile.field[s]} :
          IF s \in Required /\ value = Blank THEN Refused(c)
          ELSE Changes(c, MarkInProgress([profile EXCEPT
                 !.field[s] = value, !.completed = @ \cup {s}, !.skipped = @ \ {s}]))
    BY <1>4 DEF SaveStep
  <2>2. value \in Nat
    BY <1>1, SMT DEF Profile, Blank
  <2> QED
    BY <1>1, <1>2, <2>1, <2>2, ReadKeeps
<1>5. CASE SkipStep(c, s)
  BY <1>1, <1>3, <1>5, ReadKeeps DEF SkipStep
<1> QED
  BY <1>4, <1>5

LEMMA CompleteKeeps ==
  ASSUME ProfilesInv, NEW c \in DOMAIN asked, Complete(c)
  PROVE  ProfilesInv'
<1> DEFINE mine == [profile EXCEPT !.status = "COMPLETED"]
<1>1. asked[c].what = "complete" /\ UNCHANGED <<profile, crossed>> /\ profile \in Profile
  BY DEF Complete, IsNew, ProfilesInv
<1>2. /\ mine \in Profile /\ mine.status = "COMPLETED" /\ mine.field = profile.field
      /\ mine.completed = profile.completed /\ mine.skipped = profile.skipped
  BY <1>1, SMT DEF Profile
<1> HIDE DEF mine
<1>3. Fair("complete", profile, mine)
  BY <1>1, <1>2, SMT DEF Fair, ProfilesInv, StepsApart
<1>4. Refused(c) \/ (Changes(c, mine) /\ Filled)
  BY DEF Complete, mine, Filled
<1> QED
  BY <1>1, <1>3, <1>4, ReadKeeps

-----------------------------------------------------------------------------
(* Saves.                                                                   *)

(* What one save makes of the profile's status and lists, whatever was      *)
(* saved since its copy was read.                                           *)
LEMMA ProfileSavedIs ==
  ASSUME ProfilesInv, NEW c \in DOMAIN asked, asked[c].at = "save", Saves(c)
  PROVE  /\ Merged(c) \in Profile /\ Merged(c).saved /\ Merged(c).status # "NOT_STARTED"
         /\ profile.status = "COMPLETED" => Merged(c).status = "COMPLETED"
         /\ Merged(c).status = "COMPLETED" => profile.status = "COMPLETED" \/ asked[c].what = "complete"
         /\ Merged(c).completed \cap Merged(c).skipped = {}
         /\ profile.completed \subseteq Merged(c).completed \cup Merged(c).skipped
         /\ profile.version <= Merged(c).version
         /\ profile.saved /\ Merged(c).version = profile.version =>
              Merged(c).completed = profile.completed /\ Merged(c).skipped = profile.skipped
         /\ Merged(c).field = [s \in Wizard |-> IF Altered(c, s) THEN asked[c].mine.field[s]
                                                                 ELSE profile.field[s]]
<1> DEFINE m == Merged(c) copy == asked[c].copy mine == asked[c].mine
           f == [s \in Wizard |-> IF Altered(c, s) THEN mine.field[s] ELSE profile.field[s]]
<1>1. /\ Fair(asked[c].what, copy, mine) /\ Current(copy)
      /\ profile \in Profile
      /\ profile.saved <=> profile.status # "NOT_STARTED"
      /\ profile.completed \cap profile.skipped = {}
  BY DEF ProfilesInv, RequestInv, StepsApart
<1>2. /\ m.saved = TRUE
      /\ m.version = IF copy.saved /\ WritesList(c) THEN profile.version + 1 ELSE profile.version
      /\ m.status = IF mine.status = copy.status THEN profile.status ELSE mine.status
      /\ m.completed = IF mine.completed = copy.completed THEN profile.completed ELSE mine.completed
      /\ m.skipped = IF mine.skipped = copy.skipped THEN profile.skipped ELSE mine.skipped
      /\ m.field = f
      /\ m = [saved |-> m.saved, version |-> m.version, status |-> m.status, field |-> m.field,
              completed |-> m.completed, skipped |-> m.skipped]
  BY SMT DEF Merged
<1>3. f \in [Wizard -> Nat]
  BY <1>1, SMT DEF Fair, Profile
(* A list is written only over the one that was read.                       *)
<1>4. mine.completed # copy.completed \/ mine.skipped # copy.skipped =>
        /\ profile.completed = copy.completed /\ profile.skipped = copy.skipped
        /\ profile.saved => m.version = profile.version + 1
  BY <1>1, <1>2 DEF Current, Saves, Starts, WritesList
<1>5. /\ copy.saved => profile.saved
      /\ ~copy.saved => profile.status = copy.status /\ copy.status = "NOT_STARTED"
  BY <1>1 DEF Current, Saves, Starts
<1> HIDE DEF m, copy, mine, f
<1>6. /\ mine.status \in {"NOT_STARTED", "IN_PROGRESS", "COMPLETED"}
      /\ copy.saved => copy.status # "NOT_STARTED"
      /\ mine.status # "NOT_STARTED"
      /\ mine.status = copy.status \/ copy.status = "NOT_STARTED" \/ mine.status = "COMPLETED"
      /\ asked[c].what # "complete" /\ mine.status = "COMPLETED" => copy.status = "COMPLETED"
      /\ mine.completed \subseteq Wizard /\ mine.skipped \subseteq Wizard
      /\ mine.completed \cap mine.skipped = {}
      /\ copy.completed \subseteq mine.completed \cup mine.skipped
  BY <1>1, SMT DEF Fair, Profile
<1>7. /\ profile.status \in {"NOT_STARTED", "IN_PROGRESS", "COMPLETED"} /\ profile.version \in Nat
      /\ profile.completed \subseteq Wizard /\ profile.skipped \subseteq Wizard
  BY <1>1, SMT DEF Profile
<1>8. /\ m.status \in {"NOT_STARTED", "IN_PROGRESS", "COMPLETED"} /\ m.status # "NOT_STARTED"
      /\ profile.status = "COMPLETED" => m.status = "COMPLETED"
      /\ m.status = "COMPLETED" => profile.status = "COMPLETED" \/ asked[c].what = "complete"
  BY <1>1, <1>2, <1>5, <1>6, <1>7
<1>9. /\ m.completed \subseteq Wizard /\ m.skipped \subseteq Wizard
      /\ m.completed \cap m.skipped = {}
      /\ profile.completed \subseteq m.completed \cup m.skipped
  BY <1>1, <1>2, <1>4, <1>6, <1>7
<1>10. /\ m.version \in Nat /\ profile.version <= m.version
       /\ profile.saved /\ m.version = profile.version =>
            m.completed = profile.completed /\ m.skipped = profile.skipped
  BY <1>2, <1>4, <1>7
<1>11. m \in Profile
  <2>1. /\ m.saved \in BOOLEAN /\ m.field \in [Wizard -> Nat]
        /\ m.completed \in SUBSET Wizard /\ m.skipped \in SUBSET Wizard
    BY <1>2, <1>3, <1>9
  <2>2. [saved |-> m.saved, version |-> m.version, status |-> m.status, field |-> m.field,
         completed |-> m.completed, skipped |-> m.skipped] \in Profile
    BY <1>8, <1>10, <2>1, ProfileIs, Zenon
  <2> QED
    BY <1>2, <2>2, Zenon
<1> QED
  BY <1>2, <1>8, <1>9, <1>10, <1>11 DEF m, f, mine

(* A required field is emptied only by a draft that read an uncompleted     *)
(* profile.                                                                 *)
LEMMA WholeKept ==
  ASSUME ProfilesInv, Filled, NEW c \in DOMAIN asked, asked[c].at = "save", Saves(c),
         profile' = Merged(c), crossed' = (crossed \/ Crosses(c)),
         \/ profile.status = "COMPLETED"
         \/ asked[c].what = "complete"
         \/ \E d \in DOMAIN asked : asked[d].what = "complete" /\ asked[d].at = "save"
  PROVE  Filled'
<1>1. Fair(asked[c].what, asked[c].copy, asked[c].mine)
  BY DEF ProfilesInv, RequestInv
<1>2. Clears(c) => Crosses(c)
  BY <1>1 DEF Clears, Crosses, Fair, Altered
<1>3. profile'.field = [s \in Wizard |-> IF Altered(c, s) THEN asked[c].mine.field[s]
                                                          ELSE profile.field[s]]
  BY ProfileSavedIs
<1>4. ASSUME ~Clears(c) PROVE Unfilled(profile', Wizard) \subseteq Unfilled(profile, Wizard)
  BY <1>3, <1>4 DEF Clears, Unfilled, Required
<1> QED
  BY <1>2, <1>4 DEF Filled

LEMMA SaveKeeps ==
  ASSUME ProfilesInv, NEW c \in DOMAIN asked, SaveProfile(c)
  PROVE  /\ ProfilesInv'
         /\ profile.status = "COMPLETED" => profile'.status = "COMPLETED"
         /\ profile.completed \subseteq profile'.completed \cup profile'.skipped
<1>1. /\ DOMAIN asked' = DOMAIN asked /\ RestStays(c) /\ asked[c].at = "save"
      /\ asked'[c].what = asked[c].what /\ asked'[c].at = "over"
  BY RefusedIs DEF SaveProfile
<1>2. RequestInv(c)'
  BY <1>1 DEF RequestInv, ProfilesInv
<1>3. CASE ~Saves(c)
  <2>1. UNCHANGED <<profile, crossed>>
    BY <1>3 DEF SaveProfile
  <2>2. \A d \in DOMAIN asked : d # c => RequestInv(d)'
    BY <1>1, <2>1 DEF RestStays, RequestInv, ProfilesInv, Fair, Current, Filled
  <2> QED
    BY <1>1, <1>2, <2>1, <2>2, Zenon DEF ProfilesInv, StepsApart, Filled
<1>4. CASE Saves(c)
  <2>1. profile' = Merged(c) /\ crossed' = (crossed \/ Crosses(c))
    BY <1>4 DEF SaveProfile
  <2>2. /\ profile' \in Profile /\ profile'.saved /\ profile'.status # "NOT_STARTED"
        /\ profile.status = "COMPLETED" => profile'.status = "COMPLETED"
        /\ profile'.status = "COMPLETED" => profile.status = "COMPLETED" \/ asked[c].what = "complete"
        /\ profile'.completed \cap profile'.skipped = {}
        /\ profile.completed \subseteq profile'.completed \cup profile'.skipped
        /\ profile.version <= profile'.version
        /\ profile.saved /\ profile'.version = profile.version =>
              profile'.completed = profile.completed /\ profile'.skipped = profile.skipped
    BY <1>1, <1>4, <2>1, ProfileSavedIs, Zenon
  <2>3. profile'.status = "COMPLETED" => Filled'
    <3>1. ASSUME profile'.status = "COMPLETED" PROVE Filled
      BY <1>1, <2>2, <3>1 DEF ProfilesInv, RequestInv
    <3> QED
      BY <1>1, <1>4, <2>1, <2>2, <3>1, WholeKept
  <2>4. ASSUME NEW d \in DOMAIN asked, d # c PROVE RequestInv(d)'
    <3>1. asked'[d] = asked[d] /\ RequestInv(d)
      BY <1>1, <2>4 DEF RestStays, ProfilesInv
    <3>2. ASSUME asked[d].at = "save", asked[d].what = "complete" PROVE Filled'
      <4>1. Filled
        BY <3>1, <3>2 DEF RequestInv
      <4> QED
        BY <1>1, <1>4, <2>1, <3>2, <4>1, WholeKept
    <3>3. ASSUME asked[d].at = "save" PROVE Current(asked[d].copy)'
      <4>1. Current(asked[d].copy) /\ asked[d].copy \in Profile /\ profile \in Profile
        BY <3>1, <3>3 DEF RequestInv, Fair, ProfilesInv
      <4>2. profile.version \in Nat /\ profile'.version \in Nat /\ asked[d].copy.version \in Nat
        BY <2>2, <4>1, SMT DEF Profile
      <4> QED
        BY <2>2, <3>1, <4>1, <4>2, SMT DEF Current
    <3> QED
      BY <3>1, <3>2, <3>3 DEF RequestInv, Fair
  <2>5. crossed' \in BOOLEAN
    BY <2>1 DEF ProfilesInv, Crosses
  <2> QED
    BY <1>1, <1>2, <2>2, <2>3, <2>4, <2>5, Zenon DEF ProfilesInv, StepsApart
<1> QED
  BY <1>3, <1>4
-----------------------------------------------------------------------------
(* The whole specification.                                                 *)

LEMMA InitHolds == ASSUME ProfilesInit PROVE ProfilesInv
<1>1. PICK story \in Stories : profile = story.profile /\ asked = story.wishes /\ crossed = FALSE
  BY DEF ProfilesInit
<1>2. Found(story.profile) /\ DOMAIN asked \subseteq Nat \ {Blank}
  BY <1>1, StoriesAssumption
<1>3. \A c \in DOMAIN asked : asked[c].what \in {"draft", "step", "complete"} /\ asked[c].at = "new"
  BY <1>1, StoriesAssumption DEF Wish
<1>4. profile.status = "COMPLETED" => Unfilled(profile, Wizard) = {}
  BY <1>1, <1>2 DEF Found, Unfilled, Required
<1> QED
  BY <1>1, <1>2, <1>3, <1>4 DEF ProfilesInv, RequestInv, Found, StepsApart, Filled

LEMMA NextHolds ==
  ASSUME ProfilesInv, [ProfilesNext]_profileVars
  PROVE  /\ ProfilesInv'
         /\ profile.status = "COMPLETED" => profile'.status = "COMPLETED"
         /\ profile.completed \subseteq profile'.completed \cup profile'.skipped
<1>1. CASE UNCHANGED profileVars
  <2>1. profile' = profile /\ asked' = asked /\ crossed' = crossed
    BY <1>1 DEF profileVars
  <2>2. (Filled <=> Filled') /\ (StepsApart <=> StepsApart')
    BY <2>1 DEF Filled, StepsApart
  <2>3. \A copy : Current(copy) <=> Current(copy)'
    BY <2>1 DEF Current
  <2>4. \A c \in DOMAIN asked' : RequestInv(c)'
    BY <2>1, <2>2, <2>3 DEF RequestInv, ProfilesInv
  <2>5. ProfilesInv'
    BY <2>1, <2>2, <2>4 DEF ProfilesInv
  <2> QED
    BY <2>1, <2>5, Zenon DEF ProfilesInv
<1>2. ASSUME NEW c \in DOMAIN asked,
             \/ SaveDraft(c) \/ Complete(c)
             \/ \E s \in Wizard : SaveStep(c, s) \/ SkipStep(c, s)
      PROVE  ProfilesInv' /\ UNCHANGED profile
  BY <1>2, DraftKeeps, CompleteKeeps, StepKeeps DEF SaveDraft, Complete, SaveStep, SkipStep
<1> QED
  BY <1>1, <1>2, SaveKeeps, Zenon DEF ProfilesNext, profileVars

LEMMA InvShows ==
  ProfilesInv => ProfilesTypeOK /\ StepsApart /\ CompletedIsWhole
  BY DEF ProfilesInv, ProfilesTypeOK, CompletedIsWhole, RequestInv, Filled, Fair

(* Whatever teammates ask for at once, and whatever each of them read, no   *)
(* step is both completed and skipped, none is lost, a completed profile    *)
(* stays completed, and its required fields are filled in, except after a   *)
(* draft that emptied one crossed the completion.                           *)
THEOREM ProfileHolds == ProfilesSpec => ProfilesHold
<1>1. ProfilesInit => ProfilesInv
  BY InitHolds
<1>2. ProfilesInv /\ [ProfilesNext]_profileVars => ProfilesInv'
  BY NextHolds
<1>3. ProfilesInv /\ [ProfilesNext]_profileVars
        => [profile.status = "COMPLETED" => profile'.status = "COMPLETED"]_profileVars
  BY NextHolds
<1>4. ProfilesInv /\ [ProfilesNext]_profileVars
        => [profile.completed \subseteq profile'.completed \cup profile'.skipped]_profileVars
  BY NextHolds
<1> QED
  BY <1>1, <1>2, <1>3, <1>4, InvShows, PTL DEF ProfilesSpec, ProfilesHold, NeverReopened, StepsAreKept

-----------------------------------------------------------------------------
(* The workbench: the parts rest, or one of them takes a step.              *)

LEMMA PostsAtRest == PostsRest => PostsInv /\ HistoryFits
<1> SUFFICES ASSUME PostsRest PROVE PostsInv /\ HistoryFits
  OBVIOUS
<1>1. MaxVersion \in Nat /\ 0 \in 0 .. MaxVersion
  BY BoundsAssumption
<1>2. /\ post = [exists |-> FALSE, status |-> "READY", current |-> 0, count |-> 0]
      /\ version = [n \in Numbers |-> NoVersion]
      /\ file = [f \in Files |-> [record |-> FALSE, object |-> FALSE]]
      /\ request = [h \in Requests |-> Idle]
      /\ upload = [pc |-> "done", waiting |-> {}, failed |-> FALSE]
      /\ worker = [pc |-> "idle", number |-> 0, media |-> {}]
      /\ schedule = "none" /\ sent = Nothing /\ kept = {} /\ budget = NoEvents
  BY DEF PostsRest
<1>3. Idle \in Request /\ Idle.pc = "idle"
  BY <1>1 DEF Idle, Request, Steps
<1>4. PostsTypeOK
  <2>1. post \in Post
    BY <1>1, <1>2 DEF Post, Statuses
  <2>2. NoVersion \in Version
    BY DEF NoVersion, Version
  <2>3. version \in [Numbers -> Version] /\ request \in [Requests -> Request]
    BY <1>2, <1>3, <2>2
  <2>4. file \in [Files -> [record : BOOLEAN, object : BOOLEAN]]
    BY <1>2
  <2>5. /\ upload \in [pc : {"ready", "put", "insert", "rollback", "done"},
                       waiting : SUBSET Files, failed : BOOLEAN]
        /\ worker \in [pc : {"idle", "load", "send", "finish", "fail"},
                       number : 0..MaxVersion, media : SUBSET Files]
        /\ sent \in [number : 0..MaxVersion, media : SUBSET Files]
    BY <1>1, <1>2 DEF Nothing
  <2>6. schedule \in {"none", "live", "sending", "cancelled", "published", "failed"}
        /\ kept \subseteq (Numbers \X Nat) /\ budget \in [Events -> Nat]
    BY <1>2 DEF NoEvents
  <2> QED
    BY <2>1, <2>3, <2>4, <2>5, <2>6 DEF PostsTypeOK
<1>5. UploadFits /\ WorkerFits /\ EditsAreKept
  BY <1>2 DEF UploadFits, RecordsHaveObjects, WorkerFits, EditsAreKept, Upcoming
<1>6. \A h \in Requests : Fits(request[h])
  BY <1>2, <1>3, IdleFits
<1>7. ~Readable /\ worker.pc = "idle"
  BY <1>2 DEF Readable
<1> QED
  BY <1>4, <1>5, <1>6, <1>7 DEF PostsInv, HistoryFits, CurrentStands, SentFits

LEMMA RoomAtRest ==
  ASSUME PostsRest
  PROVE  Roomy
<1>1. /\ post.count = 0 /\ \A n \in Numbers : version[n].stored => n <= 0
      /\ \A h \in Requests : request[h].pc = "idle"
  BY DEF PostsRest, NoVersion, Idle
<1>2. budget["edit"] \in Nat /\ budget["edit"] <= Limit
  <2>1. budget["edit"] = 0
    BY DEF PostsRest, NoEvents, Events
  <2> QED
    BY <2>1, BoundsAssumption
<1> QED
  BY <1>1, <1>2, RoomBefore

LEMMA WorkspacesAtRest == WorkspacesRest => WorkspacesInv
<1> SUFFICES ASSUME WorkspacesRest PROVE WorkspacesInv
  OBVIOUS
<1>1. /\ space = [s \in Spaces |->
            [status |-> "NONE", crew |-> {}, invited |-> FALSE, autopilot |-> "PAUSED"]]
      /\ slot = [s \in Spaces |-> Empty]
      /\ landing = [p \in People |-> Nowhere]
      /\ calls = <<>> /\ run = NoRun /\ sendings = [s \in Spaces |-> 0]
      /\ mishaps = 0 /\ wrecked = {}
  BY DEF WorkspacesRest
<1>2. ASSUME NEW s \in Spaces
      PROVE  /\ space[s].status = "NONE" /\ space[s].crew = {} /\ slot[s] = Empty
             /\ space[s] \in Space /\ slot[s] \in Slot
  BY <1>1 DEF Space, Slot, Empty
<1>3. DOMAIN calls = {}
  BY <1>1
<1>4. WorkspacesTypeOK
  <2>1. space \in [Spaces -> Space] /\ slot \in [Spaces -> Slot] /\ sendings \in [Spaces -> Nat]
    BY <1>1, <1>2
  <2>2. /\ landing \in [People -> Spaces \cup {Nowhere}] /\ mishaps \in Nat /\ wrecked \subseteq Spaces
        /\ run \in [at : {"idle", "look", "claim", "send", "finish"},
                    on : Spaces \cup {Nowhere}, since : BOOLEAN]
    BY <1>1 DEF NoRun
  <2> QED
    BY <1>3, <2>1, <2>2 DEF WorkspacesTypeOK
<1>5. DutiesAreOwed
  BY <1>2 DEF DutiesAreOwed, Duties, Due, Exists
<1>6. RunFits
  <2>1. run.at = "idle" /\ run.on = Nowhere /\ run.since = FALSE /\ Nowhere \notin Spaces
    BY <1>1, SpacesAssumption DEF NoRun, Nowhere
  <2> QED
    BY <2>1 DEF RunFits
<1>7. PlanFits
  <2>1. Counted = {} /\ Adding = {} /\ Askers = {}
    BY <1>2, <1>3 DEF Counted, IsActive, Adding, Askers
  <2>2. Cardinality({}) = 0 /\ IsFiniteSet({})
    BY FS_EmptySet
  <2>3. Max({1, 0}) \in Nat /\ Max({1, 0}) >= 1
    BY MaxIs
  <2>4. Cardinality(Counted) = 0 /\ Cardinality(Adding) = 0 /\ Max({1, Cardinality(Askers)}) = Max({1, 0})
    BY <2>1, <2>2
  <2> QED
    BY <1>3, <2>2, <2>3, <2>4, SpacesAssumption DEF PlanFits
<1> QED
  BY <1>2, <1>3, <1>4, <1>5, <1>6, <1>7 DEF WorkspacesInv

LEMMA MediaAtRest == MediaRest => MediaInv
<1> SUFFICES ASSUME MediaRest PROVE MediaInv
  OBVIOUS
<1>1. /\ draft = [platform |-> "LINKEDIN", text |-> "short", title |-> None, media |-> {}, format |-> None]
      /\ shelf = {} /\ picker = [open |-> FALSE, selected |-> {}] /\ going = "sent"
  BY DEF MediaRest, Closed
<1>2. MediaTypeOK
  BY <1>1 DEF MediaTypeOK, Platforms, Closed
<1>3. IsFiniteSet(draft.media) /\ IsFiniteSet(picker.selected)
  BY <1>1, FS_EmptySet
<1>4. Acceptable(draft.platform, draft.media, FALSE)
  BY <1>1 DEF Acceptable
<1>5. PickerAgrees /\ OnlyTooMuchIsRefused
  BY <1>1 DEF PickerAgrees, OnlyTooMuchIsRefused
<1>6. FormatFollowsVideo
  BY <1>1 DEF FormatFollowsVideo, OfKind
<1> QED
  BY <1>2, <1>3, <1>4, <1>5, <1>6 DEF MediaInv

LEMMA ProfileAtRest == ProfileRests => ProfilesInv
<1> SUFFICES ASSUME ProfileRests PROVE ProfilesInv
  OBVIOUS
<1>1. /\ profile = [saved |-> FALSE, version |-> 0, status |-> "NOT_STARTED",
                    field |-> [s \in Wizard |-> Blank], completed |-> {}, skipped |-> {}]
      /\ asked = <<>> /\ crossed = FALSE
  BY DEF ProfileRests, ProfileOf
<1>2. profile \in Profile
  BY <1>1 DEF Profile, Blank
<1>3. DOMAIN asked = {}
  BY <1>1
<1> QED
  BY <1>1, <1>2, <1>3 DEF ProfilesInv, StepsApart

WorkbenchInv == PostsInv /\ WorkspacesInv /\ MediaInv /\ ProfilesInv

LEMMA WorkbenchStarts == Init => WorkbenchInv /\ HistoryFits
BY PostsStart, PostsAtRest, HistoryStart, WorkspacesStart, WorkspacesAtRest, MediaStarts, MediaAtRest,
   InitHolds, ProfileAtRest DEF Init, WorkbenchInv

workbenchVars == <<postVars, workspaceVars, mediaVars, profileVars>>

LEMMA WorkbenchSteps ==
  ASSUME [Next]_workbenchVars
  PROVE  /\ [PostsNext]_postVars /\ [WorkspacesNext]_workspaceVars
         /\ [MediaNext]_mediaVars /\ [ProfilesNext]_profileVars
BY Zenon DEF Next, workbenchVars

LEMMA WorkbenchKeeps ==
  ASSUME WorkbenchInv, [Next]_workbenchVars
  PROVE  WorkbenchInv'
BY WorkbenchSteps, PostsStepKeeps, WorkspacesStepKeeps, MediaStepKeeps, NextHolds DEF WorkbenchInv

LEMMA WorkbenchIsKept == Spec => []WorkbenchInv
<1>1. Init => WorkbenchInv
  BY WorkbenchStarts
<1>2. WorkbenchInv /\ [Next]_workbenchVars => WorkbenchInv'
  BY WorkbenchKeeps
<1> QED
  BY <1>1, <1>2, PTL DEF Spec, workbenchVars

(* Whatever requests, uploads and the worker do to a post at once: what was *)
(* answered with success stays in its history until it is too old, every    *)
(* file listed is in the store, and a post that is on its way or published  *)
(* changes only through a request that had read it before.                  *)
THEOREM PostsAreKept == Spec => [](PostsTypeOK /\ EditsAreKept /\ RecordsHaveObjects) /\ RecordStays
<1>1. WorkbenchInv => PostsTypeOK /\ EditsAreKept /\ RecordsHaveObjects
  BY DEF WorkbenchInv, PostsInv, UploadFits
<1>2. WorkbenchInv /\ [Next]_workbenchVars =>
        [post.status \in {"PUBLISHING", "PUBLISHED"} /\ post'.current # post.current =>
           \E h \in Requests : request[h].late /\ At(h, "save")]_postVars
  BY WorkbenchSteps, StepKeepsRecord DEF WorkbenchInv, KeepsRecord
<1> QED
  BY <1>1, <1>2, WorkbenchIsKept, PTL DEF Spec, RecordStays, workbenchVars

(* As long as no request is overtaken by as many versions as a post keeps,  *)
(* the post points at a version that is there and is sent with the media    *)
(* of the version it is sent as.                                            *)
THEOREM HistoryIsKept == Spec /\ []Timely => []PostsHold /\ SentWhole
<1>1. Init => HistoryFits
  BY WorkbenchStarts
<1>2. WorkbenchInv /\ Timely /\ HistoryFits /\ [Next]_workbenchVars => HistoryFits'
  BY WorkbenchSteps, HistoryStepKeeps DEF WorkbenchInv
<1>3. WorkbenchInv /\ HistoryFits => PostsHold
  BY DEF WorkbenchInv, PostsInv, UploadFits, HistoryFits, PostsHold
<1>4. WorkbenchInv /\ HistoryFits /\ [Next]_workbenchVars =>
        [sent' # sent =>
           /\ post.exists
           /\ \/ worker.media = version[worker.number].media
              \/ ~version[worker.number].stored]_postVars
  BY WorkbenchSteps, StepSendsWhole DEF WorkbenchInv, SendsWhole
<1> QED
  BY <1>1, <1>2, <1>3, <1>4, WorkbenchIsKept, PTL DEF Spec, SentWhole, workbenchVars

(* No more edits than a post keeps versions: nobody is overtaken by that    *)
(* many, and what is current is there and is sent whole.                    *)
THEOREM FewEditsKeepHistory == FewEdits /\ Spec => []PostsHold /\ SentWhole
<1>1. FewEdits /\ Init => Roomy
  BY RoomStarts, RoomAtRest DEF Init
<1>2. WorkbenchInv /\ Roomy /\ [Next]_workbenchVars => Roomy'
  BY WorkbenchSteps, RoomStepKeeps DEF WorkbenchInv
<1>3. WorkbenchInv /\ Roomy => Timely
  BY RoomIsTimely DEF WorkbenchInv
<1>4. FewEdits /\ Spec => []Timely
  BY <1>1, <1>2, <1>3, WorkbenchIsKept, PTL DEF Spec, workbenchVars
<1> QED
  BY <1>4, HistoryIsKept, PTL

(* However requests about an account's workspaces and the worker interleave *)
(* or die: a workspace has its owner, no more are active than the plan and  *)
(* the requests that looked at it together allow, a deleted one shows       *)
(* nothing, an archived one rests, and a run that begins on one that is not *)
(* active sends nothing.                                                    *)
THEOREM WorkspacesAreKept == Spec => []WorkspacesHold /\ NothingGoesOut
<1>1. WorkbenchInv => WorkspacesHold
  BY WorkspacesInvHolds DEF WorkbenchInv
<1>2. WorkbenchInv /\ [Next]_workbenchVars =>
        [\A s \in Spaces : sendings'[s] # sendings[s] => run.on = s /\ ~run.since]_workspaceVars
  BY WorkbenchSteps, WorkspacesStepSends DEF WorkbenchInv, SendsOnlyLive
<1> QED
  BY <1>1, <1>2, WorkbenchIsKept, PTL DEF Spec, NothingGoesOut, workbenchVars

(* The rules a draft's media are held to agree in the picker, on saving, on *)
(* scheduling and at the platform, for any files.                           *)
THEOREM MediaIsKept == Spec => []MediaHolds
<1>1. WorkbenchInv => MediaHolds
  BY MediaInvHolds DEF WorkbenchInv
<1> QED
  BY <1>1, WorkbenchIsKept, PTL

(* The brand profile holds on the workbench as it does by itself.           *)
THEOREM ProfilesAreKept == Spec => ProfilesHold
<1>1. WorkbenchInv => ProfilesTypeOK /\ StepsApart /\ CompletedIsWhole
  BY InvShows DEF WorkbenchInv
<1>2. WorkbenchInv /\ [Next]_workbenchVars =>
        /\ [profile.status = "COMPLETED" => profile'.status = "COMPLETED"]_profileVars
        /\ [profile.completed \subseteq profile'.completed \cup profile'.skipped]_profileVars
  BY WorkbenchSteps, NextHolds DEF WorkbenchInv
<1> QED
  BY <1>1, <1>2, WorkbenchIsKept, PTL DEF Spec, ProfilesHold, NeverReopened, StepsAreKept, workbenchVars
=============================================================================
