---------------------------- MODULE GuidanceSafety ----------------------------
(***************************************************************************)
(* Proofs about strategies and reports, for any number of versions,        *)
(* requests, workers, posts and weeks, any allowance, and any number of    *)
(* crashes and of calls that fail.                                         *)
(***************************************************************************)
EXTENDS Guidance, FiniteSetTheorems, SequenceTheorems, WellFoundedInduction, TLAPS

-----------------------------------------------------------------------------
(* The inductive invariant: strategies.                                    *)

Version == [version : Nat \ {0}, status : Statuses, revision : Nat]
Ats == {"new", "generating", "latest", "create", "lost", "update", "delete", "previous",
        "archive", "activate", "restore", "asking", "save", "done", "dead"}
Saws == Statuses \cup {""}
Asked ==
  [what : Whats, role : Roles, at : Ats, on : Nat, saw : Saws,
   revision : Nat, previous : SUBSET Nat, latest : Nat, tries : Nat, week : Nat]

StrategiesTyped == strategies \in Seq(Version)
RequestsTyped == requests \in [DOMAIN requests -> Asked]

(* A version number is never larger than the number of versions written.   *)
VersionsApart ==
  /\ \A s, t \in Stored : strategies[s].version = strategies[t].version => s = t
  /\ \A s \in Ids : strategies[s].version <= Len(strategies)

(* What was active once is no draft again.                                 *)
Used == {"ACTIVE", "ARCHIVED", "REMOVED"}
Holds(q) ==
  /\ q.previous \subseteq Ids
  /\ \A s, t \in q.previous : s = t
  /\ \A s \in q.previous : strategies[s].status \in Used

(* What a request may rely on, by its step.                                *)
Fits(q) ==
  /\ q.at \in {"update", "delete", "previous", "archive", "activate", "restore"} => q.on \in Ids
  /\ q.at = "update" /\ q.saw = "ACTIVE" => q.role = "ADMIN"
  /\ q.at = "create" => q.latest <= Len(strategies)
  /\ q.at \in {"archive", "activate", "restore"} => Holds(q)
  /\ q.at \in {"generating", "latest", "create"} => q.what \in {"generate", "regenerate"}
  /\ q.at \in {"asking", "save"} => q.week \in Weeks
RequestsFit == \A r \in DOMAIN requests : Fits(requests[r])

(* While no version is active though one was, somebody is about to make one *)
(* active, or died over it.                                                *)
Bereft ==
  /\ \E s \in Ids : strategies[s].status = "ARCHIVED"
  /\ \A s \in Ids : strategies[s].status # "REMOVED"
  /\ Active = {}
Restores(q) == q.at = "dead" \/ (q.at \in {"activate", "restore"} /\ q.previous # {})
SomebodyRestores == Bereft => \E r \in DOMAIN requests : Restores(requests[r])

StrategyInv ==
  /\ StrategiesTyped /\ RequestsTyped /\ VersionsApart
  /\ OneActive /\ RequestsFit /\ SomebodyRestores

-----------------------------------------------------------------------------
(* Sets of numbers.                                                        *)

LEMMA LeastNatural ==
  ASSUME NEW S \in SUBSET Nat, S # {}
  PROVE  \E m \in S : \A k \in S : m <= k
<1>1. PICK m \in S : \A k \in S : ~(<<k, m>> \in OpToRel(<, Nat))
  BY WFMin, NatLessThanWellFounded, Zenon
<1>2. \A k \in S : ~(k < m)
  BY <1>1 DEF OpToRel
<1> QED
  BY <1>2, SMT

(* A set of numbers below a bound has a greatest one, and Max is that one.  *)
LEMMA MaxIsThere ==
  ASSUME NEW S \in SUBSET Nat, S # {}, NEW n \in Nat, \A k \in S : k <= n
  PROVE  Max(S) \in S /\ \A k \in S : k <= Max(S)
<1> DEFINE bounds == {m \in Nat : \A k \in S : k <= m}
<1>1. PICK m \in bounds : \A k \in bounds : m <= k
  <2>1. bounds \in SUBSET Nat /\ n \in bounds
    OBVIOUS
  <2> QED
    BY <2>1, LeastNatural
<1>2. m \in S
  <2> SUFFICES ASSUME m \notin S PROVE FALSE
    OBVIOUS
  <2>1. \A k \in S : k < m
    BY <1>1
  <2>2. PICK k \in S : TRUE
    OBVIOUS
  <2>3. k \in Nat /\ k < m /\ m \in Nat
    BY <2>1
  <2>4. m - 1 \in Nat /\ \A j \in S : j <= m - 1
    BY <2>1, <2>3, SMT
  <2> QED
    BY <1>1, <2>3, <2>4, SMT
<1>3. \E x \in S : \A y \in S : x >= y
  BY <1>1, <1>2
<1> QED
  BY <1>3 DEF Max

-----------------------------------------------------------------------------
(* What becomes of a request.                                              *)

(* Only this one goes on, and it stays what it is.                          *)
Stepped(r) ==
  /\ RequestsTyped' /\ DOMAIN requests' = DOMAIN requests
  /\ \A q \in DOMAIN requests \ {r} : requests'[q] = requests[q]
  /\ requests'[r].what = requests[r].what /\ requests'[r].role = requests[r].role
SameAim(r) ==
  /\ requests'[r].on = requests[r].on /\ requests'[r].previous = requests[r].previous
  /\ requests'[r].saw = requests[r].saw
SameCount(r) ==
  /\ requests'[r].latest = requests[r].latest /\ requests'[r].tries = requests[r].tries
SameWeek(r) == requests'[r].week = requests[r].week

(* Fields are put back one by one.                                          *)
LEMMA FieldsTyped ==
  ASSUME NEW q \in Asked
  PROVE  /\ \A a \in Ats : [q EXCEPT !.at = a] \in Asked
         /\ \A s \in Nat : [q EXCEPT !.on = s] \in Asked
         /\ \A st \in Saws : [q EXCEPT !.saw = st] \in Asked
         /\ \A n \in Nat : [q EXCEPT !.revision = n] \in Asked
         /\ \A P \in SUBSET Nat : [q EXCEPT !.previous = P] \in Asked
         /\ \A n \in Nat : [q EXCEPT !.latest = n] \in Asked
         /\ \A n \in Nat : [q EXCEPT !.tries = n] \in Asked
         /\ \A n \in Nat : [q EXCEPT !.week = n] \in Asked
<1>1. /\ \A a \in Ats : [q EXCEPT !.at = a] \in Asked
      /\ \A s \in Nat : [q EXCEPT !.on = s] \in Asked
  BY SMT DEF Asked
<1>2. \A st \in Saws : [q EXCEPT !.saw = st] \in Asked
  BY SMT DEF Asked
<1>3. /\ \A n \in Nat : [q EXCEPT !.revision = n] \in Asked
      /\ \A n \in Nat : [q EXCEPT !.latest = n] \in Asked
  BY SMT DEF Asked
<1>4. \A P \in SUBSET Nat : [q EXCEPT !.previous = P] \in Asked
  BY SMT DEF Asked
<1>5. /\ \A n \in Nat : [q EXCEPT !.tries = n] \in Asked
      /\ \A n \in Nat : [q EXCEPT !.week = n] \in Asked
  BY SMT DEF Asked
<1> QED
  BY <1>1, <1>2, <1>3, <1>4, <1>5

(* One request is put in the place of another.                              *)
LEMMA PutTyped ==
  ASSUME RequestsTyped, NEW r \in DOMAIN requests, NEW next \in Asked,
         requests' = [requests EXCEPT ![r] = next]
  PROVE  /\ RequestsTyped' /\ DOMAIN requests' = DOMAIN requests
         /\ \A q \in DOMAIN requests \ {r} : requests'[q] = requests[q]
         /\ requests'[r] = next
<1>1. requests' \in [DOMAIN requests -> Asked]
  BY Zenon DEF RequestsTyped
<1>2. DOMAIN requests' = DOMAIN requests
  BY <1>1, Zenon
<1>3. RequestsTyped'
  BY <1>1, <1>2, Zenon DEF RequestsTyped
<1> QED
  BY <1>2, <1>3, Zenon DEF RequestsTyped

LEMMA RequestTyped ==
  ASSUME RequestsTyped, NEW r \in DOMAIN requests
  PROVE  requests[r] \in Asked
  BY DEF RequestsTyped

LEMMA GoesOn ==
  ASSUME RequestsTyped, NEW r \in DOMAIN requests, NEW a \in Ats, Goes(r, a)
  PROVE  /\ Stepped(r) /\ requests'[r].at = a
         /\ SameAim(r) /\ SameCount(r) /\ SameWeek(r)
<1>1. PICK next : next = [requests[r] EXCEPT !.at = a]
  OBVIOUS
<1>2. requests' = [requests EXCEPT ![r] = next]
  BY <1>1, Zenon DEF Goes
<1>3. next \in Asked
  BY <1>1, FieldsTyped, RequestTyped, Zenon
<1>4. /\ RequestsTyped' /\ DOMAIN requests' = DOMAIN requests
      /\ \A q \in DOMAIN requests \ {r} : requests'[q] = requests[q]
      /\ requests'[r] = next
  BY <1>2, <1>3, PutTyped
<1>5. /\ next.at = a /\ next.what = requests[r].what /\ next.role = requests[r].role
      /\ next.on = requests[r].on /\ next.previous = requests[r].previous
      /\ next.saw = requests[r].saw /\ next.latest = requests[r].latest
      /\ next.tries = requests[r].tries /\ next.week = requests[r].week
  BY <1>1, RequestTyped, SMT DEF Asked
<1> QED
  BY <1>4, <1>5, Zenon DEF Stepped, SameAim, SameCount, SameWeek

LEMMA StepsAreAts ==
  ASSUME NEW a
  PROVE  a \in {"new", "generating", "latest", "create", "lost", "update", "delete", "previous",
        "archive", "activate", "restore", "asking", "save", "done", "dead"} => a \in Ats
  BY DEF Ats

(* An aim is taken: a version that is there.                                *)
LEMMA Aims ==
  ASSUME RequestsTyped, NEW r \in DOMAIN requests, NEW a \in Ats, NEW s \in Nat,
         requests' = [requests EXCEPT ![r].at = a, ![r].on = s]
  PROVE  /\ Stepped(r) /\ requests'[r].at = a /\ requests'[r].on = s
         /\ SameCount(r) /\ SameWeek(r)
<1> DEFINE one == [requests[r] EXCEPT !.at = a]
           next == [one EXCEPT !.on = s]
<1>1. requests' = [requests EXCEPT ![r] = next]
  BY Zenon
<1>2. one = [requests[r] EXCEPT !.at = a]
  OBVIOUS
<1>3. next = [one EXCEPT !.on = s]
  OBVIOUS
<1> HIDE DEF one, next
<1>4. one \in Asked
  BY <1>2, FieldsTyped, RequestTyped, Zenon
<1>5. next \in Asked
  BY <1>3, <1>4, FieldsTyped, Zenon
<1>6. /\ RequestsTyped' /\ DOMAIN requests' = DOMAIN requests
      /\ \A q \in DOMAIN requests \ {r} : requests'[q] = requests[q]
      /\ requests'[r] = next
  BY <1>5, <1>1, PutTyped
<1>7. /\ one.at = a /\ one.what = requests[r].what /\ one.role = requests[r].role
      /\ one.latest = requests[r].latest /\ one.tries = requests[r].tries
      /\ one.week = requests[r].week
  BY <1>2, RequestTyped, SMT DEF Asked
<1>8. /\ next.at = one.at /\ next.on = s /\ next.what = one.what /\ next.role = one.role
      /\ next.latest = one.latest /\ next.tries = one.tries /\ next.week = one.week
  BY <1>3, <1>4, SMT DEF Asked
<1> QED
  BY <1>6, <1>7, <1>8, Zenon DEF Stepped, SameCount, SameWeek

LEMMA AimsToUpdate ==
  ASSUME RequestsTyped, NEW r \in DOMAIN requests, NEW s \in Nat, NEW status \in Statuses,
         NEW seen \in Nat,
         requests' = [requests EXCEPT ![r].at = "update", ![r].on = s,
                        ![r].saw = status, ![r].revision = seen]
  PROVE  /\ Stepped(r) /\ requests'[r].at = "update" /\ requests'[r].on = s
         /\ requests'[r].saw = status
         /\ SameCount(r) /\ SameWeek(r)
<1> DEFINE one == [requests[r] EXCEPT !.at = "update"]
           two == [one EXCEPT !.on = s]
           three == [two EXCEPT !.saw = status]
           next == [three EXCEPT !.revision = seen]
<1>1. requests' = [requests EXCEPT ![r] = next]
  BY Zenon
<1>2. one = [requests[r] EXCEPT !.at = "update"]
  OBVIOUS
<1>3. two = [one EXCEPT !.on = s]
  OBVIOUS
<1>4. three = [two EXCEPT !.saw = status]
  OBVIOUS
<1>5. next = [three EXCEPT !.revision = seen]
  OBVIOUS
<1> HIDE DEF one, two, three, next
<1>6. one \in Asked
  BY <1>2, FieldsTyped, RequestTyped, StepsAreAts, Zenon
<1>7. two \in Asked
  BY <1>3, <1>6, FieldsTyped, Zenon
<1>8. three \in Asked
  BY <1>4, <1>7, FieldsTyped DEF Saws
<1>9. next \in Asked
  BY <1>5, <1>8, FieldsTyped, Zenon
<1>10. /\ RequestsTyped' /\ DOMAIN requests' = DOMAIN requests
       /\ \A q \in DOMAIN requests \ {r} : requests'[q] = requests[q]
       /\ requests'[r] = next
  BY <1>9, <1>1, PutTyped
<1>11. /\ one.at = "update" /\ one.what = requests[r].what /\ one.role = requests[r].role
       /\ one.latest = requests[r].latest /\ one.tries = requests[r].tries
       /\ one.week = requests[r].week
  BY <1>2, RequestTyped, SMT DEF Asked
<1>12. /\ two.at = one.at /\ two.on = s /\ two.what = one.what /\ two.role = one.role
       /\ two.latest = one.latest /\ two.tries = one.tries /\ two.week = one.week
  BY <1>3, <1>6, SMT DEF Asked
<1>13. /\ three.at = two.at /\ three.on = two.on /\ three.saw = status
       /\ three.what = two.what /\ three.role = two.role
       /\ three.latest = two.latest /\ three.tries = two.tries /\ three.week = two.week
  BY <1>4, <1>7, SMT DEF Asked
<1>14. /\ next.at = three.at /\ next.on = three.on /\ next.saw = three.saw
       /\ next.what = three.what /\ next.role = three.role
       /\ next.latest = three.latest /\ next.tries = three.tries /\ next.week = three.week
  BY <1>5, <1>8, SMT DEF Asked
<1>15. /\ two.at = "update" /\ two.on = s
       /\ two.what = requests[r].what /\ two.role = requests[r].role
       /\ two.latest = requests[r].latest /\ two.tries = requests[r].tries
       /\ two.week = requests[r].week
  BY ONLY <1>11, <1>12, Zenon
<1>16. /\ three.at = "update" /\ three.on = s /\ three.saw = status
       /\ three.what = requests[r].what /\ three.role = requests[r].role
       /\ three.latest = requests[r].latest /\ three.tries = requests[r].tries
       /\ three.week = requests[r].week
  BY ONLY <1>13, <1>15, Zenon
<1>17. /\ next.at = "update" /\ next.on = s /\ next.saw = status
       /\ next.what = requests[r].what /\ next.role = requests[r].role
       /\ next.latest = requests[r].latest /\ next.tries = requests[r].tries
       /\ next.week = requests[r].week
  BY ONLY <1>14, <1>16, Zenon
<1> QED
  BY <1>10, <1>17, Zenon DEF Stepped, SameCount, SameWeek

(* The versions to archive, or to bring back, are noted.                    *)
LEMMA Notes ==
  ASSUME RequestsTyped, NEW r \in DOMAIN requests, NEW a \in Ats, NEW P, P \subseteq Nat,
         requests' = [requests EXCEPT ![r].previous = P, ![r].at = a]
  PROVE  /\ Stepped(r) /\ requests'[r].at = a /\ requests'[r].previous = P
         /\ requests'[r].on = requests[r].on
         /\ SameCount(r) /\ SameWeek(r)
<1> DEFINE one == [requests[r] EXCEPT !.previous = P]
           next == [one EXCEPT !.at = a]
<1>1. requests' = [requests EXCEPT ![r] = next]
  BY Zenon
<1>2. one = [requests[r] EXCEPT !.previous = P]
  OBVIOUS
<1>3. next = [one EXCEPT !.at = a]
  OBVIOUS
<1> HIDE DEF one, next
<1>4. one \in Asked
  <2>1. P \in SUBSET Nat
    OBVIOUS
  <2> QED
    BY <1>2, <2>1, FieldsTyped, RequestTyped, Zenon
<1>5. next \in Asked
  BY <1>3, <1>4, FieldsTyped, Zenon
<1>6. /\ RequestsTyped' /\ DOMAIN requests' = DOMAIN requests
      /\ \A q \in DOMAIN requests \ {r} : requests'[q] = requests[q]
      /\ requests'[r] = next
  BY <1>5, <1>1, PutTyped
<1>7. /\ one.previous = P /\ one.on = requests[r].on
      /\ one.what = requests[r].what /\ one.role = requests[r].role
      /\ one.latest = requests[r].latest /\ one.tries = requests[r].tries
      /\ one.week = requests[r].week
  BY <1>2, RequestTyped, SMT DEF Asked
<1>8. /\ next.at = a /\ next.previous = one.previous /\ next.on = one.on
      /\ next.what = one.what /\ next.role = one.role
      /\ next.latest = one.latest /\ next.tries = one.tries /\ next.week = one.week
  BY <1>3, <1>4, SMT DEF Asked
<1> QED
  BY <1>6, <1>7, <1>8, Zenon DEF Stepped, SameCount, SameWeek

LEMMA FindsLatest ==
  ASSUME RequestsTyped, NEW r \in DOMAIN requests, NEW n \in Nat,
         requests' = [requests EXCEPT ![r].at = "create", ![r].latest = n]
  PROVE  /\ Stepped(r) /\ requests'[r].at = "create" /\ requests'[r].latest = n
         /\ requests'[r].tries = requests[r].tries
         /\ SameAim(r) /\ SameWeek(r)
<1> DEFINE one == [requests[r] EXCEPT !.at = "create"]
           next == [one EXCEPT !.latest = n]
<1>1. requests' = [requests EXCEPT ![r] = next]
  BY Zenon
<1>2. one = [requests[r] EXCEPT !.at = "create"]
  OBVIOUS
<1>3. next = [one EXCEPT !.latest = n]
  OBVIOUS
<1> HIDE DEF one, next
<1>4. one \in Asked
  BY <1>2, FieldsTyped, RequestTyped, StepsAreAts, Zenon
<1>5. next \in Asked
  BY <1>3, <1>4, FieldsTyped, Zenon
<1>6. /\ RequestsTyped' /\ DOMAIN requests' = DOMAIN requests
      /\ \A q \in DOMAIN requests \ {r} : requests'[q] = requests[q]
      /\ requests'[r] = next
  BY <1>5, <1>1, PutTyped
<1>7. /\ one.at = "create" /\ one.what = requests[r].what /\ one.role = requests[r].role
      /\ one.on = requests[r].on /\ one.previous = requests[r].previous
      /\ one.saw = requests[r].saw /\ one.tries = requests[r].tries
      /\ one.week = requests[r].week
  BY <1>2, RequestTyped, SMT DEF Asked
<1>8. /\ next.at = one.at /\ next.latest = n /\ next.what = one.what /\ next.role = one.role
      /\ next.on = one.on /\ next.previous = one.previous /\ next.saw = one.saw
      /\ next.tries = one.tries /\ next.week = one.week
  BY <1>3, <1>4, SMT DEF Asked
<1> QED
  BY <1>6, <1>7, <1>8, Zenon DEF Stepped, SameAim, SameWeek

LEMMA TriesAgain ==
  ASSUME RequestsTyped, NEW r \in DOMAIN requests, NEW a \in Ats,
         requests' = [requests EXCEPT ![r].tries = @ + 1, ![r].at = a]
  PROVE  /\ Stepped(r) /\ requests'[r].at = a /\ requests'[r].tries = requests[r].tries + 1
         /\ SameAim(r) /\ SameWeek(r)
<1> DEFINE one == [requests[r] EXCEPT !.tries = requests[r].tries + 1]
           next == [one EXCEPT !.at = a]
<1>1. requests' = [requests EXCEPT ![r] = next]
  BY Zenon
<1>2. one = [requests[r] EXCEPT !.tries = requests[r].tries + 1]
  OBVIOUS
<1>3. next = [one EXCEPT !.at = a]
  OBVIOUS
<1> HIDE DEF one, next
<1>4. one \in Asked
  <2>1. requests[r].tries + 1 \in Nat
    BY RequestTyped, SMT DEF Asked
  <2> QED
    BY <1>2, <2>1, FieldsTyped, RequestTyped, Zenon
<1>5. next \in Asked
  BY <1>3, <1>4, FieldsTyped, Zenon
<1>6. /\ RequestsTyped' /\ DOMAIN requests' = DOMAIN requests
      /\ \A q \in DOMAIN requests \ {r} : requests'[q] = requests[q]
      /\ requests'[r] = next
  BY <1>5, <1>1, PutTyped
<1>7. /\ one.tries = requests[r].tries + 1
      /\ one.what = requests[r].what /\ one.role = requests[r].role
      /\ one.on = requests[r].on /\ one.previous = requests[r].previous
      /\ one.saw = requests[r].saw /\ one.week = requests[r].week
  BY <1>2, RequestTyped, SMT DEF Asked
<1>8. /\ next.at = a /\ next.tries = one.tries /\ next.what = one.what /\ next.role = one.role
      /\ next.on = one.on /\ next.previous = one.previous /\ next.saw = one.saw
      /\ next.week = one.week
  BY <1>3, <1>4, SMT DEF Asked
<1> QED
  BY <1>6, <1>7, <1>8, Zenon DEF Stepped, SameAim, SameWeek

LEMMA AsksForWeek ==
  ASSUME RequestsTyped, NEW r \in DOMAIN requests, NEW a \in Ats, NEW n \in Nat,
         requests' = [requests EXCEPT ![r].week = n, ![r].at = a]
  PROVE  /\ Stepped(r) /\ requests'[r].at = a /\ requests'[r].week = n
         /\ SameAim(r) /\ SameCount(r)
<1> DEFINE one == [requests[r] EXCEPT !.week = n]
           next == [one EXCEPT !.at = a]
<1>1. requests' = [requests EXCEPT ![r] = next]
  BY Zenon
<1>2. one = [requests[r] EXCEPT !.week = n]
  OBVIOUS
<1>3. next = [one EXCEPT !.at = a]
  OBVIOUS
<1> HIDE DEF one, next
<1>4. one \in Asked
  BY <1>2, FieldsTyped, RequestTyped, Zenon
<1>5. next \in Asked
  BY <1>3, <1>4, FieldsTyped, Zenon
<1>6. /\ RequestsTyped' /\ DOMAIN requests' = DOMAIN requests
      /\ \A q \in DOMAIN requests \ {r} : requests'[q] = requests[q]
      /\ requests'[r] = next
  BY <1>5, <1>1, PutTyped
<1>7. /\ one.week = n
      /\ one.what = requests[r].what /\ one.role = requests[r].role
      /\ one.on = requests[r].on /\ one.previous = requests[r].previous
      /\ one.saw = requests[r].saw /\ one.latest = requests[r].latest
      /\ one.tries = requests[r].tries
  BY <1>2, RequestTyped, SMT DEF Asked
<1>8. /\ next.at = a /\ next.week = one.week /\ next.what = one.what /\ next.role = one.role
      /\ next.on = one.on /\ next.previous = one.previous /\ next.saw = one.saw
      /\ next.latest = one.latest /\ next.tries = one.tries
  BY <1>3, <1>4, SMT DEF Asked
<1> QED
  BY <1>6, <1>7, <1>8, Zenon DEF Stepped, SameAim, SameCount

-----------------------------------------------------------------------------
(* What becomes of the versions.                                           *)

(* Versions keep their numbers; none comes back from being deleted, and none *)
(* that was active becomes a draft.                                         *)
Evolves ==
  /\ StrategiesTyped' /\ Len(strategies) <= Len(strategies')
  /\ \A s \in Ids : strategies[s].status \in Used => strategies'[s].status \in Used
Rewritten ==
  /\ Evolves /\ Len(strategies') = Len(strategies)
  /\ \A s \in Ids : strategies'[s].version = strategies[s].version
  /\ \A s \in Ids : s \in Stored' => s \in Stored

LEMMA IdsAre ==
  ASSUME StrategiesTyped
  PROVE  /\ Ids = 1..Len(strategies) /\ Len(strategies) \in Nat
         /\ \A s \in Ids : s \in Nat /\ strategies[s] \in Version
         /\ \A s \in Ids : strategies[s].status \in Statuses /\ strategies[s].version \in Nat \ {0}
         /\ \A s \in Ids : strategies[s].revision \in Nat
<1>1. /\ Ids = 1..Len(strategies) /\ Len(strategies) \in Nat
      /\ \A s \in Ids : s \in Nat /\ strategies[s] \in Version
  BY SMT DEF StrategiesTyped, Ids
<1> QED
  BY <1>1, SMT DEF Version

LEMMA SameStrategies ==
  ASSUME StrategiesTyped, UNCHANGED strategies
  PROVE  Rewritten /\ Stored' = Stored /\ Active' = Active /\ Ids' = Ids
<1>1. Ids' = Ids
  BY DEF Ids
<1>2. Stored' = Stored /\ Active' = Active
  BY <1>1 DEF Stored, Active
<1>3. StrategiesTyped' /\ Len(strategies') = Len(strategies)
  BY DEF StrategiesTyped
<1> QED
  BY <1>1, <1>2, <1>3, IdsAre, SMT DEF Rewritten, Evolves

LEMMA ApartKept ==
  ASSUME StrategiesTyped, VersionsApart, Rewritten
  PROVE  VersionsApart' /\ Ids' = Ids
<1>1. Ids' = Ids
  BY SMT DEF Rewritten, Evolves, StrategiesTyped, Ids
<1>2. \A s \in Stored' : s \in Stored /\ strategies'[s].version = strategies[s].version
  BY <1>1 DEF Rewritten, Stored
<1>3. \A s \in Ids' : strategies'[s].version <= Len(strategies')
  BY <1>1 DEF Rewritten, VersionsApart
<1>4. \A s, t \in Stored' : strategies'[s].version = strategies'[t].version => s = t
  BY <1>2 DEF VersionsApart
<1> QED
  BY <1>1, <1>3, <1>4 DEF VersionsApart

(* A version is rewritten in place.                                         *)
LEMMA OneRewritten ==
  ASSUME StrategiesTyped, NEW s \in Ids, NEW v \in Version,
         strategies' = [strategies EXCEPT ![s] = v],
         v.version = strategies[s].version,
         strategies[s].status \in Used => v.status \in Used,
         strategies[s].status \in Deleted => v.status \in Deleted
  PROVE  /\ Rewritten /\ strategies'[s] = v
         /\ \A t \in Ids \ {s} : strategies'[t] = strategies[t]
<1>1. s \in 1..Len(strategies) /\ Ids = 1..Len(strategies)
  BY IdsAre
<1>2. /\ strategies' \in Seq(Version) /\ Len(strategies') = Len(strategies)
      /\ strategies'[s] = v
      /\ \A t \in Ids \ {s} : strategies'[t] = strategies[t]
  BY <1>1, SMT DEF StrategiesTyped
<1>3. Ids' = Ids
  BY <1>1, <1>2, SMT DEF Ids
<1>4. \A t \in Ids : t \in Stored' => t \in Stored
  BY <1>2, <1>3 DEF Stored
<1> QED
  BY <1>1, <1>2, <1>4, SMT DEF Rewritten, Evolves, StrategiesTyped

(* Several versions are given a status at once.                             *)
LEMMA StatusesSet ==
  ASSUME StrategiesTyped, NEW chosen \in SUBSET Stored, NEW status \in {"ACTIVE", "ARCHIVED"},
         strategies' = WithStatus(strategies, chosen, status)
  PROVE  /\ Rewritten /\ Ids' = Ids
         /\ \A s \in chosen : strategies'[s].status = status
         /\ \A s \in Ids \ chosen : strategies'[s] = strategies[s]
         /\ \A s \in Ids : strategies'[s].revision = strategies[s].revision
<1> DEFINE v(s) == IF s \in chosen THEN [strategies[s] EXCEPT !.status = status] ELSE strategies[s]
<1>1. Ids = 1..Len(strategies) /\ Len(strategies) \in Nat /\ \A s \in Ids : strategies[s] \in Version
  BY IdsAre
<1>2. status \in Statuses
  BY DEF Statuses
<1>3. \A s \in Ids : v(s) \in Version
  BY <1>1, <1>2, SMT DEF Version
<1>4. \A s \in Ids : /\ v(s).version = strategies[s].version /\ v(s).revision = strategies[s].revision
                     /\ s \in chosen => v(s).status = status
                     /\ s \notin chosen => v(s) = strategies[s]
  BY <1>1, SMT DEF Version
<1>5. strategies' = [s \in 1..Len(strategies) |-> v(s)]
  BY <1>1, Zenon DEF WithStatus, Ids
<1> HIDE DEF v
<1>6. strategies' \in [1..Len(strategies) -> Version] /\ DOMAIN strategies' = 1..Len(strategies)
      /\ \A s \in Ids : strategies'[s] = v(s)
  BY <1>1, <1>3, <1>5
<1>7. strategies' \in Seq(Version) /\ Len(strategies') = Len(strategies)
  BY <1>1, <1>6, SMT
<1>8. Ids' = Ids
  BY <1>1, <1>6 DEF Ids
<1>9. \A s \in Ids : s \in Stored' => s \in Stored
  BY <1>1, <1>4, <1>6, <1>8 DEF Stored
<1>10. \A s \in Ids : strategies[s].status \in Used => strategies'[s].status \in Used
  BY <1>4, <1>6 DEF Used
<1>11. Rewritten
  BY <1>1, <1>4, <1>6, <1>7, <1>9, <1>10, SMT DEF Rewritten, Evolves, StrategiesTyped
<1> QED
  BY <1>4, <1>6, <1>8, <1>11, Zenon DEF Stored

-----------------------------------------------------------------------------
(* The invariant is put together again.                                     *)

LEMMA FitsKept ==
  ASSUME StrategiesTyped, Evolves, NEW q, Fits(q), q \in Asked
  PROVE  Fits(q)'
<1>1. \A s \in Ids : s \in Ids'
  BY SMT DEF Evolves, StrategiesTyped, Ids
<1>2. Holds(q) => Holds(q)'
  BY <1>1 DEF Holds, Evolves
<1>3. q.latest \in Nat
  BY SMT DEF Asked
<1>4. q.latest <= Len(strategies) => q.latest <= Len(strategies')
  BY <1>3, SMT DEF Evolves, StrategiesTyped
<1> QED
  BY <1>1, <1>2, <1>4, Zenon DEF Fits

(* What fits a request at its new step fits the request.                    *)
LEMMA FitsOf ==
  ASSUME NEW q, NEW c, requests'[q] = c, Fits(c)'
  PROVE  Fits(requests[q])'
  BY Zenon DEF Fits, Holds

(* What is asked of a step of request r.                                    *)
LEMMA StrategyStep ==
  ASSUME StrategyInv, NEW r \in DOMAIN requests, Stepped(r), Evolves, VersionsApart', OneActive',
         NEW next, requests'[r] = next, Fits(next)', Bereft' => Bereft \/ Restores(next),
         Restores(requests[r]) /\ Bereft' => Restores(next)
  PROVE  StrategyInv'
<1>1. ASSUME NEW q \in DOMAIN requests'
      PROVE  Fits(requests[q])'
  <2>1. CASE q = r
    BY <2>1, FitsOf
  <2>2. CASE q # r
    <3>1. PICK c : c = requests[q]
      OBVIOUS
    <3>2. requests'[q] = c /\ q \in DOMAIN requests
      BY <2>2, <3>1 DEF Stepped
    <3>3. Fits(c) /\ c \in Asked
      BY <3>1, <3>2, RequestTyped DEF StrategyInv, RequestsFit
    <3>4. Fits(c)'
      BY <3>3, FitsKept DEF StrategyInv
    <3> QED
      BY <3>2, <3>4, FitsOf
  <2> QED
    BY <2>1, <2>2
<1>2. ASSUME Bereft'
      PROVE  \E q \in DOMAIN requests' : Restores(requests[q])'
  <2>1. CASE Restores(next)
    BY <2>1, Zenon DEF Restores, Stepped
  <2>2. CASE ~Restores(next)
    <3>1. PICK q \in DOMAIN requests : Restores(requests[q])
      BY <1>2, <2>2 DEF StrategyInv, SomebodyRestores
    <3>2. q # r
      BY <1>2, <2>2, <3>1
    <3> QED
      BY <3>1, <3>2, Zenon DEF Restores, Stepped
  <2> QED
    BY <2>1, <2>2
<1> QED
  BY <1>1, <1>2 DEF StrategyInv, RequestsFit, Stepped, Evolves, SomebodyRestores

(* A step that leaves the versions alone.                                   *)
LEMMA QuietStep ==
  ASSUME StrategyInv, NEW r \in DOMAIN requests, Stepped(r), UNCHANGED strategies,
         NEW next, requests'[r] = next, Fits(next),
         Bereft /\ Restores(requests[r]) => Restores(next)
  PROVE  StrategyInv'
<1>1. Rewritten /\ Stored' = Stored /\ Active' = Active /\ Ids' = Ids
  BY SameStrategies DEF StrategyInv
<1>2. VersionsApart' /\ OneActive' /\ Evolves
  BY <1>1, ApartKept DEF StrategyInv, OneActive, Rewritten
<1>3. next \in Asked
  BY DEF Stepped, RequestsTyped
<1>4. Fits(next)'
  BY <1>2, <1>3, FitsKept DEF StrategyInv
<1>5. Bereft' => Bereft
  BY <1>1 DEF Bereft
<1> QED
  BY <1>2, <1>4, <1>5, StrategyStep

(* At these steps a request relies on nothing.                              *)
Resting == {"new", "done", "dead", "lost"}
LEMMA RestingFits ==
  ASSUME NEW q, q.at \in Resting
  PROVE  Fits(q)
  BY DEF Fits, Resting

(* What is known of a request, by name.                                     *)
LEMMA Here ==
  ASSUME StrategyInv, NEW r \in DOMAIN requests
  PROVE  /\ requests[r] \in Asked /\ Fits(requests[r]) /\ RequestsTyped /\ StrategiesTyped
         /\ requests[r].at \in Ats /\ requests[r].week \in Nat /\ requests[r].latest \in Nat
         /\ requests[r].what \in Whats /\ requests[r].role \in Roles
<1>1. /\ requests[r] \in Asked /\ Fits(requests[r]) /\ RequestsTyped /\ StrategiesTyped
  BY RequestTyped DEF StrategyInv, RequestsFit
<1> QED
  BY <1>1, SMT DEF Asked

(* A step whose next place needs nothing, taken by one who restores nothing. *)
LEMMA LeavesOff ==
  ASSUME StrategyInv, NEW r \in DOMAIN requests, UNCHANGED strategies, Ends(r),
         requests[r].at \notin {"activate", "restore", "dead"}
  PROVE  StrategyInv'
<1>1. Stepped(r) /\ requests'[r].at = "done"
  BY Here, GoesOn, StepsAreAts DEF Ends
<1>2. Fits(requests'[r])
  BY <1>1, RestingFits DEF Resting
<1>3. ~Restores(requests[r])
  BY DEF Restores
<1> QED
  BY <1>1, <1>2, <1>3, QuietStep

LEMMA GenerateKeeps ==
  ASSUME StrategyInv, NEW r \in DOMAIN requests, Generate(r)
  PROVE  StrategyInv'
<1>1. PICK a \in {"generating", "done"} : Goes(r, a)
  BY Zenon DEF Generate
<1>2. Stepped(r) /\ requests'[r].at = a
  BY <1>1, Here, GoesOn, StepsAreAts
<1>3. requests'[r].what \in {"generate", "regenerate"} /\ requests[r].at = "new" /\ UNCHANGED strategies
  BY <1>2 DEF Generate, OneOf, Is, Stepped
<1>4. Fits(requests'[r]) /\ ~Restores(requests[r])
  BY <1>2, <1>3 DEF Fits, Restores
<1> QED
  BY <1>2, <1>3, <1>4, QuietStep

LEMMA GeneratedKeeps ==
  ASSUME StrategyInv, NEW r \in DOMAIN requests, Generated(r)
  PROVE  StrategyInv'
<1>1. PICK a \in {"latest", "done"} : Goes(r, a)
  BY Zenon DEF Generated
<1>2. Stepped(r) /\ requests'[r].at = a
  BY <1>1, Here, GoesOn, StepsAreAts
<1>3. requests'[r].what \in {"generate", "regenerate"} /\ requests[r].at = "generating" /\ UNCHANGED strategies
  BY <1>2, Here DEF Generated, Is, Stepped, Fits
<1>4. Fits(requests'[r]) /\ ~Restores(requests[r])
  BY <1>2, <1>3 DEF Fits, Restores
<1> QED
  BY <1>2, <1>3, <1>4, QuietStep

(* The newest version that is stored: what Max finds.                       *)
LEMMA NewestIs ==
  ASSUME StrategiesTyped, VersionsApart
  PROVE  LET newest == Max({strategies[s].version : s \in Stored} \cup {0}) IN
         /\ newest \in Nat /\ newest <= Len(strategies)
         /\ \A s \in Stored : strategies[s].version <= newest
<1> DEFINE numbers == {strategies[s].version : s \in Stored} \cup {0}
<1>1. /\ Len(strategies) \in Nat /\ Stored \subseteq Ids
      /\ \A s \in Stored : strategies[s].version \in Nat /\ strategies[s].version <= Len(strategies)
  BY IdsAre DEF Stored, VersionsApart
<1>2. numbers \in SUBSET Nat /\ numbers # {} /\ \A k \in numbers : k <= Len(strategies)
  BY <1>1
<1>3. \A s \in Stored : strategies[s].version \in numbers
  OBVIOUS
<1> HIDE DEF numbers
<1>4. Max(numbers) \in numbers /\ \A k \in numbers : k <= Max(numbers)
  BY <1>1, <1>2, MaxIsThere
<1>5. Max(numbers) \in Nat /\ Max(numbers) <= Len(strategies)
  BY <1>2, <1>4
<1> QED
  BY <1>3, <1>4, <1>5, Zenon DEF numbers

LEMMA FindLatestKeeps ==
  ASSUME StrategyInv, NEW r \in DOMAIN requests, FindLatest(r)
  PROVE  StrategyInv'
<1>1. PICK newest : newest = Max({strategies[s].version : s \in Stored} \cup {0})
  OBVIOUS
<1>2. newest \in Nat /\ newest <= Len(strategies)
  BY <1>1, NewestIs, Here DEF StrategyInv
<1>3. requests' = [requests EXCEPT ![r].at = "create", ![r].latest = newest]
  BY <1>1, Zenon DEF FindLatest
<1>4. Stepped(r) /\ requests'[r].at = "create" /\ requests'[r].latest = newest
  BY <1>2, <1>3, FindsLatest, Here
<1>5. requests[r].at = "latest" /\ UNCHANGED strategies
  BY DEF FindLatest, Is
<1>6. Fits(requests'[r]) /\ ~Restores(requests[r])
  BY <1>2, <1>4, <1>5, Here DEF Fits, Restores, Stepped
<1> QED
  BY <1>4, <1>5, <1>6, QuietStep

(* A new draft, with a number no stored version has.                        *)
LEMMA DraftAdded ==
  ASSUME StrategyInv, NEW next \in Nat \ {0}, next <= Len(strategies) + 1, ~Taken(next),
         strategies' = Append(strategies, Strategy(next, "DRAFT"))
  PROVE  /\ Evolves /\ VersionsApart' /\ OneActive'
         /\ Bereft' => Bereft
         /\ \A s \in Ids : strategies'[s] = strategies[s]
         /\ Ids' = Ids \cup {Len(strategies) + 1}
         /\ strategies'[Len(strategies) + 1].version = next
         /\ strategies'[Len(strategies) + 1].status = "DRAFT"
<1> DEFINE n == Len(strategies) + 1
<1>1. /\ Ids = 1..Len(strategies) /\ Len(strategies) \in Nat /\ strategies \in Seq(Version)
      /\ \A s \in Ids : s # n
  BY IdsAre, SMT DEF StrategyInv, StrategiesTyped
<1>2. PICK draft : draft = Strategy(next, "DRAFT")
  OBVIOUS
<1>3. draft \in Version /\ draft.version = next /\ draft.status = "DRAFT"
  BY <1>2, SMT DEF Version, Strategy, Statuses
<1>4. /\ strategies' \in Seq(Version) /\ Len(strategies') = n
      /\ \A s \in Ids : strategies'[s] = strategies[s]
      /\ strategies'[n] = draft
  BY <1>1, <1>2, <1>3, SMT
<1>5. Ids' = Ids \cup {n}
  BY <1>1, <1>4, SMT DEF Ids
<1>6. Stored' = Stored \cup {n} /\ Active' = Active
  BY <1>1, <1>3, <1>4, <1>5 DEF Stored, Active, Deleted
<1>7. \A s \in Stored : s \in Ids /\ strategies'[s].version = strategies[s].version /\ strategies[s].version # next
  BY <1>4 DEF Stored, Taken
<1>8. \A s, t \in Stored' : strategies'[s].version = strategies'[t].version => s = t
  <2> TAKE s, t \in Stored'
  <2>1. CASE s \in Stored /\ t \in Stored
    BY <1>7, <2>1 DEF StrategyInv, VersionsApart
  <2>2. CASE s \in Stored /\ t = n
    BY <1>3, <1>4, <1>7, <2>2
  <2>3. CASE s = n /\ t \in Stored
    BY <1>3, <1>4, <1>7, <2>3
  <2> QED
    BY <1>6, <2>1, <2>2, <2>3
<1>9. \A s \in Ids' : strategies'[s].version <= Len(strategies')
  <2> TAKE s \in Ids'
  <2>1. CASE s = n
    BY <1>3, <1>4, <2>1
  <2>2. CASE s \in Ids
    <3>1. strategies[s].version \in Nat /\ strategies[s].version <= Len(strategies)
      BY <2>2, IdsAre DEF StrategyInv, VersionsApart
    <3> QED
      BY <1>1, <1>4, <2>2, <3>1, SMT
  <2> QED
    BY <1>5, <2>1, <2>2
<1>10. Evolves
  BY <1>1, <1>4, SMT DEF Evolves, StrategiesTyped
<1>11. VersionsApart' /\ OneActive'
  BY <1>6, <1>8, <1>9 DEF VersionsApart, OneActive, StrategyInv
<1>12. Bereft' => Bereft
  BY <1>3, <1>4, <1>5, <1>6 DEF Bereft
<1> QED
  BY <1>3, <1>4, <1>5, <1>10, <1>11, <1>12

LEMMA CreateVersionKeeps ==
  ASSUME StrategyInv, NEW r \in DOMAIN requests, CreateVersion(r)
  PROVE  StrategyInv'
<1> DEFINE next == requests[r].latest + 1
<1>1. /\ requests[r].at = "create" /\ requests[r].what \in {"generate", "regenerate"}
      /\ requests[r].latest \in Nat /\ requests[r].latest <= Len(strategies)
      /\ ~Restores(requests[r]) /\ Len(strategies) \in Nat
  BY Here, IdsAre DEF CreateVersion, Is, Fits, Restores
<1>2. CASE Taken(next)
  <2>1. PICK a \in {"lost", "latest"} : requests' = [requests EXCEPT ![r].tries = @ + 1, ![r].at = a]
    BY <1>2, Zenon DEF CreateVersion
  <2>2. Stepped(r) /\ requests'[r].at = a
    BY <2>1, TriesAgain, Here, StepsAreAts
  <2>3. Fits(requests'[r]) /\ UNCHANGED strategies
    BY <1>1, <1>2, <2>2 DEF Fits, Stepped, CreateVersion
  <2> QED
    BY <1>1, <2>2, <2>3, QuietStep
<1>3. CASE ~Taken(next)
  <2>1. strategies' = Append(strategies, Strategy(next, "DRAFT")) /\ Ends(r)
    BY <1>3 DEF CreateVersion
  <2>2. next \in Nat \ {0} /\ next <= Len(strategies) + 1
    BY <1>1, SMT
  <2>3. Evolves /\ VersionsApart' /\ OneActive' /\ (Bereft' => Bereft)
    BY <1>3, <2>1, <2>2, DraftAdded
  <2>4. Stepped(r) /\ requests'[r].at = "done"
    BY <2>1, GoesOn, Here, StepsAreAts DEF Ends
  <2>5. PICK ended : ended = requests'[r]
    OBVIOUS
  <2>6. Fits(ended)'
    BY <2>4, <2>5, RestingFits DEF Resting, Fits
  <2> QED
    BY <1>1, <2>3, <2>4, <2>5, <2>6, StrategyStep
<1> QED
  BY <1>2, <1>3

-----------------------------------------------------------------------------
(* Edits, deletions and activations.                                        *)

LEMMA FindForUpdateKeeps ==
  ASSUME StrategyInv, NEW r \in DOMAIN requests, NEW s \in Ids, FindForUpdate(r, s)
  PROVE  StrategyInv'
<1>1. s \in Nat /\ strategies[s].status \in Statuses /\ strategies[s].revision \in Nat
  BY IdsAre DEF StrategyInv
<1>2. PICK seen \in 0 .. strategies[s].revision :
        requests' = [requests EXCEPT ![r].at = "update", ![r].on = s,
                       ![r].saw = strategies[s].status, ![r].revision = seen]
  BY Zenon DEF FindForUpdate
<1>3. PICK status \in Statuses : status = strategies[s].status
  BY <1>1
<1>4. /\ Stepped(r) /\ requests'[r].at = "update" /\ requests'[r].on = s
      /\ requests'[r].saw = strategies[s].status
  <2>1. seen \in Nat /\ RequestsTyped
    BY <1>1, <1>2, Here
  <2>2. requests' = [requests EXCEPT ![r].at = "update", ![r].on = s,
                       ![r].saw = status, ![r].revision = seen]
    BY <1>2, <1>3, Zenon
  <2> QED
    <3>1. /\ Stepped(r) /\ requests'[r].at = "update" /\ requests'[r].on = s
          /\ requests'[r].saw = status
      BY <1>1, <2>1, <2>2, AimsToUpdate, Zenon
    <3> QED
      BY <1>3, <3>1, Zenon
<1>5. /\ requests[r].at = "new" /\ UNCHANGED strategies
      /\ strategies[s].status = "ACTIVE" => requests[r].role = "ADMIN"
  BY DEF FindForUpdate, OneOf, Is, IsAdmin
<1>6. Fits(requests'[r]) /\ ~Restores(requests[r])
  BY <1>4, <1>5 DEF Fits, Restores, Stepped
<1> QED
  BY <1>4, <1>5, <1>6, QuietStep

LEMMA FindForDeleteKeeps ==
  ASSUME StrategyInv, NEW r \in DOMAIN requests, NEW s \in Ids, FindForDelete(r, s)
  PROVE  StrategyInv'
<1>1. s \in Nat
  BY IdsAre DEF StrategyInv
<1>2. /\ Stepped(r) /\ requests'[r].at = "delete" /\ requests'[r].on = s
      /\ requests[r].at = "new" /\ UNCHANGED strategies
  BY <1>1, Aims, Here, StepsAreAts DEF FindForDelete, OneOf, Is
<1>3. Fits(requests'[r]) /\ ~Restores(requests[r])
  BY <1>2 DEF Fits, Restores
<1> QED
  BY <1>2, <1>3, QuietStep

LEMMA FindForActivationKeeps ==
  ASSUME StrategyInv, NEW r \in DOMAIN requests, NEW s \in Ids, FindForActivation(r, s)
  PROVE  StrategyInv'
<1>1. s \in Nat
  BY IdsAre DEF StrategyInv
<1>2. /\ Stepped(r) /\ requests'[r].at = "previous" /\ requests'[r].on = s
      /\ requests[r].at = "new" /\ UNCHANGED strategies
  BY <1>1, Aims, Here, StepsAreAts DEF FindForActivation, OneOf, Is
<1>3. Fits(requests'[r]) /\ ~Restores(requests[r])
  BY <1>2 DEF Fits, Restores
<1> QED
  BY <1>2, <1>3, QuietStep

LEMMA UpdateKeeps ==
  ASSUME StrategyInv, NEW r \in DOMAIN requests, Update(r)
  PROVE  StrategyInv'
<1> DEFINE s == requests[r].on
<1>1. requests[r].at = "update" /\ s \in Ids /\ Ends(r) /\ ~Restores(requests[r])
  BY Here DEF Update, Is, Fits, Restores
<1>2. CASE ~Unchanged(r)
  <2>1. UNCHANGED strategies
    BY <1>2 DEF Update
  <2> QED
    BY <1>1, <2>1, LeavesOff
<1>3. CASE Unchanged(r)
  <2>1. PICK v : v = [strategies[s] EXCEPT !.revision = strategies[s].revision + 1]
    OBVIOUS
  <2>2. strategies' = [strategies EXCEPT ![s] = v]
    BY <1>3, <2>1, Zenon DEF Update
  <2>3. strategies[s] \in Version
    BY <1>1, IdsAre, Here
  <2>4. v \in Version /\ v.version = strategies[s].version /\ v.status = strategies[s].status
    BY <2>1, <2>3, SMT DEF Version
  <2>5. /\ Rewritten /\ strategies'[s] = v
        /\ \A t \in Ids \ {s} : strategies'[t] = strategies[t]
    BY <1>1, <2>2, <2>4, OneRewritten, Here
  <2>6. VersionsApart' /\ Ids' = Ids /\ Evolves
    BY <2>5, ApartKept, Here DEF Rewritten, StrategyInv
  <2>7. \A t \in Ids : strategies'[t].status = strategies[t].status
    BY <2>4, <2>5
  <2>8. Active' = Active /\ (Bereft' => Bereft)
    BY <2>6, <2>7 DEF Active, Bereft
  <2>9. OneActive'
    BY <2>8 DEF OneActive, StrategyInv
  <2>10. Stepped(r) /\ requests'[r].at = "done"
    BY <1>1, GoesOn, Here, StepsAreAts DEF Ends
  <2>11. PICK ended : ended = requests'[r]
    OBVIOUS
  <2>12. Fits(ended)'
    BY <2>10, <2>11 DEF Fits
  <2> QED
    BY <1>1, <2>6, <2>8, <2>9, <2>10, <2>11, <2>12, StrategyStep
<1> QED
  BY <1>2, <1>3

LEMMA DeleteKeeps ==
  ASSUME StrategyInv, NEW r \in DOMAIN requests, Delete(r)
  PROVE  StrategyInv'
<1> DEFINE s == requests[r].on
           was == strategies[s].status
           becomes == IF was \in Deleted THEN was ELSE IF was = "DRAFT" THEN "DELETED" ELSE "REMOVED"
<1>1. requests[r].at = "delete" /\ s \in Ids /\ Ends(r) /\ ~Restores(requests[r])
  BY Here DEF Delete, Is, Fits, Restores
<1>2. PICK v : v = [strategies[s] EXCEPT !.status = becomes]
  OBVIOUS
<1>3. strategies' = [strategies EXCEPT ![s] = v]
  BY <1>2, Zenon DEF Delete
<1>4. strategies[s] \in Version /\ was \in Statuses
  BY <1>1, IdsAre, Here
<1>5. /\ becomes \in Deleted /\ becomes \in Statuses
      /\ was \in Used => becomes = "REMOVED"
      /\ becomes \notin {"ACTIVE", "ARCHIVED"}
  BY <1>4 DEF Deleted, Statuses, Used
<1> HIDE DEF becomes
<1>6. v \in Version /\ v.version = strategies[s].version /\ v.status = becomes
  BY <1>2, <1>4, <1>5, SMT DEF Version
<1>7. /\ Rewritten /\ strategies'[s] = v
      /\ \A t \in Ids \ {s} : strategies'[t] = strategies[t]
  <2>1. was \in Used => v.status \in Used
    BY <1>5, <1>6 DEF Used
  <2>2. v.status \in Deleted
    BY <1>5, <1>6
  <2> QED
    BY <1>1, <1>3, <1>6, <2>1, <2>2, OneRewritten, Here
<1>8. VersionsApart' /\ Ids' = Ids /\ Evolves
  BY <1>7, ApartKept, Here DEF Rewritten, StrategyInv
<1>9. Active' = Active \ {s}
  BY <1>5, <1>6, <1>7, <1>8 DEF Active
<1>10. OneActive'
  BY <1>9 DEF OneActive, StrategyInv
<1>11. Bereft' => Bereft
  <2> SUFFICES ASSUME Bereft' PROVE Bereft
    OBVIOUS
  <2>1. becomes # "REMOVED" /\ (\A t \in Ids : strategies'[t].status # "REMOVED")
    BY <1>1, <1>6, <1>7, <1>8 DEF Bereft
  <2>2. was \notin Used
    BY <1>5, <2>1
  <2>3. Active' = Active
    BY <1>9, <2>2 DEF Active, Used
  <2>4. \A t \in Ids : strategies[t].status # "REMOVED"
    BY <1>7, <2>1, <2>2 DEF Used
  <2>5. \E t \in Ids : strategies[t].status = "ARCHIVED"
    BY <1>5, <1>6, <1>7, <1>8 DEF Bereft
  <2> QED
    BY <2>3, <2>4, <2>5 DEF Bereft
<1>12. Stepped(r) /\ requests'[r].at = "done"
  BY <1>1, GoesOn, Here, StepsAreAts DEF Ends
<1>13. PICK ended : ended = requests'[r]
  OBVIOUS
<1>14. Fits(ended)'
  BY <1>12, <1>13 DEF Fits
<1> QED
  BY <1>1, <1>8, <1>10, <1>11, <1>12, <1>13, <1>14, StrategyStep

LEMMA FindPreviousKeeps ==
  ASSUME StrategyInv, NEW r \in DOMAIN requests, FindPrevious(r)
  PROVE  StrategyInv'
<1>1. PICK a \in {"activate", "archive"} :
        requests' = [requests EXCEPT ![r].previous = Active, ![r].at = a]
  BY Zenon DEF FindPrevious
<1>2. PICK active \in SUBSET Nat : active = Active
  BY IdsAre, Here DEF Active
<1>3. /\ Stepped(r) /\ requests'[r].at = a /\ requests'[r].previous = Active
      /\ requests'[r].on = requests[r].on
  <2>1. requests' = [requests EXCEPT ![r].previous = active, ![r].at = a]
    BY <1>1, <1>2, Zenon
  <2>2. RequestsTyped /\ a \in Ats /\ active \subseteq Nat
    BY <1>2, Here, StepsAreAts
  <2> QED
    <3>1. /\ Stepped(r) /\ requests'[r].at = a /\ requests'[r].previous = active
          /\ requests'[r].on = requests[r].on
      BY <2>1, <2>2, Notes, Zenon
    <3> QED
      BY <1>2, <3>1, Zenon
<1>4. requests[r].at = "previous" /\ UNCHANGED strategies /\ requests[r].on \in Ids
  BY Here DEF FindPrevious, Is, Fits
<1>5. PICK next : next = requests'[r]
  OBVIOUS
<1>6. Holds(next)
  BY <1>3, <1>5 DEF Holds, Active, Used, StrategyInv, OneActive
<1>7. Fits(next) /\ ~Restores(requests[r])
  BY <1>3, <1>4, <1>5, <1>6 DEF Fits, Restores
<1> QED
  BY <1>3, <1>4, <1>5, <1>7, QuietStep

LEMMA ArchivePreviousKeeps ==
  ASSUME StrategyInv, NEW r \in DOMAIN requests, ArchivePrevious(r)
  PROVE  StrategyInv'
<1> DEFINE chosen == requests[r].previous \cap Stored
<1>1. /\ requests[r].at = "archive" /\ Holds(requests[r]) /\ ~Restores(requests[r])
      /\ requests[r].on \in Ids
  BY Here DEF ArchivePrevious, Is, Fits, Restores
<1>2. /\ strategies' = WithStatus(strategies, chosen, "ARCHIVED") /\ Goes(r, "activate")
  BY DEF ArchivePrevious
<1>3. /\ Rewritten /\ Ids' = Ids
      /\ \A s \in chosen : strategies'[s].status = "ARCHIVED"
      /\ \A s \in Ids \ chosen : strategies'[s] = strategies[s]
  <2>1. chosen \in SUBSET Stored /\ StrategiesTyped
    BY Here
  <2> QED
    BY <1>2, <2>1, StatusesSet
<1>4. Active' = Active \ chosen
  BY <1>3 DEF Active, Stored
<1>5. VersionsApart' /\ OneActive' /\ Evolves
  BY <1>3, <1>4, ApartKept DEF OneActive, StrategyInv, Rewritten
<1>6. Stepped(r) /\ requests'[r].at = "activate" /\ SameAim(r)
  BY <1>2, GoesOn, Here, StepsAreAts
<1>7. PICK next : next = requests'[r]
  OBVIOUS
<1>8. next.at = "activate" /\ next.on = requests[r].on /\ next.previous = requests[r].previous
  BY <1>6, <1>7 DEF SameAim
<1>9. Fits(next)'
  <2>1. Fits(next)
    BY <1>1, <1>8 DEF Fits, Holds
  <2>2. next \in Asked
    BY <1>6, <1>7 DEF Stepped, RequestsTyped
  <2> QED
    BY <1>5, <2>1, <2>2, FitsKept, Here
<1>10. Bereft' => Bereft \/ Restores(next)
  <2>1. CASE chosen = {}
    BY <1>3, <1>4, <2>1 DEF Bereft
  <2>2. CASE chosen # {}
    BY <1>8, <2>2 DEF Restores
  <2> QED
    BY <2>1, <2>2
<1> QED
  BY <1>1, <1>5, <1>6, <1>7, <1>9, <1>10, StrategyStep

(* A version is made the active one, by an activation or again.             *)
LEMMA MadeActive ==
  ASSUME StrategyInv, NEW r \in DOMAIN requests, Ends(r), NEW chosen \in SUBSET Stored,
         chosen # {}, \A s, t \in chosen : s = t, \A s \in chosen : Accepted(s),
         strategies' = WithStatus(strategies, chosen, "ACTIVE")
  PROVE  StrategyInv'
<1>1. /\ Rewritten /\ Ids' = Ids
      /\ \A s \in chosen : strategies'[s].status = "ACTIVE"
      /\ \A s \in Ids \ chosen : strategies'[s] = strategies[s]
  BY StatusesSet, Here
<1>2. Active' = Active \cup chosen /\ Active \subseteq chosen
  BY <1>1 DEF Active, Stored, Accepted
<1>3. VersionsApart' /\ OneActive' /\ Evolves
  BY <1>1, <1>2, ApartKept DEF OneActive, StrategyInv, Rewritten
<1>4. Stepped(r) /\ requests'[r].at = "done"
  BY GoesOn, Here, StepsAreAts DEF Ends
<1>5. PICK ended : ended = requests'[r]
  OBVIOUS
<1>6. Fits(ended)'
  BY <1>4, <1>5 DEF Fits
<1>7. ~Bereft'
  BY <1>2 DEF Bereft
<1> QED
  BY <1>3, <1>4, <1>5, <1>6, <1>7, StrategyStep

LEMMA ActivateKeeps ==
  ASSUME StrategyInv, NEW r \in DOMAIN requests, Activate(r)
  PROVE  StrategyInv'
<1> DEFINE s == requests[r].on
<1>1. requests[r].at = "activate" /\ s \in Ids /\ Holds(requests[r])
  BY Here DEF Activate, Is, Fits
<1>2. CASE Waiting(s) /\ Accepted(s) /\ strategies' = WithStatus(strategies, {s}, "ACTIVE") /\ Ends(r)
  <2>1. {s} \in SUBSET Stored
    BY <1>2 DEF Waiting
  <2> QED
    BY <1>2, <2>1, MadeActive
<1>3. CASE Waiting(s) /\ ~Accepted(s) /\ Ends(r) /\ UNCHANGED strategies
  <2>1. Stepped(r) /\ requests'[r].at = "done"
    BY <1>3, Here, GoesOn, StepsAreAts DEF Ends
  <2>2. Fits(requests'[r])
    BY <2>1, RestingFits DEF Resting
  <2>3. ~Bereft
    BY <1>3 DEF Accepted, Bereft
  <2> QED
    BY <1>3, <2>1, <2>2, <2>3, QuietStep
<1>4. CASE Goes(r, "restore") /\ UNCHANGED strategies
  <2>1. Stepped(r) /\ requests'[r].at = "restore" /\ SameAim(r)
    BY <1>4, Here, GoesOn, StepsAreAts
  <2>2. requests'[r].on = s /\ requests'[r].previous = requests[r].previous
    BY <2>1 DEF SameAim
  <2>3. Fits(requests'[r])
    BY <1>1, <2>1, <2>2 DEF Fits, Holds
  <2>4. Restores(requests[r]) => Restores(requests'[r])
    BY <1>1, <2>1, <2>2 DEF Restores
  <2> QED
    BY <1>4, <2>1, <2>3, <2>4, QuietStep
<1> QED
  BY <1>2, <1>3, <1>4, Zenon DEF Activate, AfterLoss

LEMMA RestorePreviousKeeps ==
  ASSUME StrategyInv, NEW r \in DOMAIN requests, RestorePrevious(r)
  PROVE  StrategyInv'
<1> DEFINE back == requests[r].previous \cap Stored
<1>1. requests[r].at = "restore" /\ Holds(requests[r]) /\ Ends(r)
  BY Here DEF RestorePrevious, Is, Fits
<1>2. Stepped(r) /\ requests'[r].at = "done"
  BY <1>1, Here, GoesOn, StepsAreAts DEF Ends
<1>3. Fits(requests'[r])
  BY <1>2, RestingFits DEF Resting
<1>4. CASE back # {} /\ \A s \in back : Accepted(s)
  <2>1. \A s, t \in back : s = t
    BY <1>1 DEF Holds
  <2>2. strategies' = WithStatus(strategies, back, "ACTIVE")
    BY <1>4 DEF RestorePrevious
  <2> QED
    BY <1>1, <1>4, <2>1, <2>2, MadeActive
<1>5. CASE ~ \A s \in back : Accepted(s)
  <2>1. UNCHANGED strategies
    BY <1>5 DEF RestorePrevious
  <2>2. ~Bereft
    BY <1>5 DEF Bereft, Accepted
  <2> QED
    BY <1>2, <1>3, <2>1, <2>2, QuietStep
<1>6. CASE back = {}
  <2>1. UNCHANGED strategies
    <3>1. strategies' = WithStatus(strategies, {}, "ACTIVE")
      BY <1>6, Zenon DEF RestorePrevious
    <3>2. strategies' = [s \in DOMAIN strategies |-> strategies[s]]
      BY <3>1, SMT DEF WithStatus
    <3>3. strategies \in Seq(Version)
      BY Here DEF StrategiesTyped
    <3> QED
      BY <3>2, <3>3, SMT
  <2>2. Bereft => ~Restores(requests[r])
    <3> SUFFICES ASSUME Bereft PROVE requests[r].previous = {}
      BY <1>1 DEF Restores
    <3>1. \A s \in requests[r].previous : s \in Ids /\ strategies[s].status \in {"ACTIVE", "ARCHIVED"}
      BY <1>1 DEF Holds, Used, Bereft
    <3> QED
      BY <1>6, <3>1 DEF Stored, Deleted
  <2> QED
    BY <1>2, <1>3, <2>1, <2>2, QuietStep
<1> QED
  BY <1>4, <1>5, <1>6

LEMMA DiesKeeps ==
  ASSUME StrategyInv, NEW r \in DOMAIN requests, Dies(r)
  PROVE  StrategyInv'
<1>1. Stepped(r) /\ requests'[r].at = "dead" /\ UNCHANGED strategies
  BY Here, GoesOn, StepsAreAts DEF Dies
<1>2. Fits(requests'[r]) /\ Restores(requests'[r])
  BY <1>1, RestingFits DEF Resting, Restores
<1> QED
  BY <1>1, <1>2, QuietStep

LEMMA RequestKeeps ==
  ASSUME StrategyInv, NEW r \in DOMAIN requests, Request(r)
  PROVE  StrategyInv'
<1>1. CASE Generate(r)
  BY <1>1, GenerateKeeps
<1>2. CASE Generated(r)
  BY <1>2, GeneratedKeeps
<1>3. CASE FindLatest(r)
  BY <1>3, FindLatestKeeps
<1>4. CASE CreateVersion(r)
  BY <1>4, CreateVersionKeeps
<1>5. CASE Update(r)
  BY <1>5, UpdateKeeps
<1>6. CASE Delete(r)
  BY <1>6, DeleteKeeps
<1>7. CASE FindPrevious(r)
  BY <1>7, FindPreviousKeeps
<1>8. CASE ArchivePrevious(r)
  BY <1>8, ArchivePreviousKeeps
<1>9. CASE Activate(r)
  BY <1>9, ActivateKeeps
<1>10. CASE RestorePrevious(r)
  BY <1>10, RestorePreviousKeeps
<1>11. CASE Dies(r)
  BY <1>11, DiesKeeps
<1>12. ASSUME NEW s \in Ids, FindForUpdate(r, s) \/ FindForDelete(r, s) \/ FindForActivation(r, s)
       PROVE  StrategyInv'
  BY <1>12, FindForUpdateKeeps, FindForDeleteKeeps, FindForActivationKeeps
<1> QED
  BY <1>1, <1>2, <1>3, <1>4, <1>5, <1>6, <1>7, <1>8, <1>9, <1>10, <1>11, <1>12 DEF Request

-----------------------------------------------------------------------------
(* The inductive invariant: reports and the allowance.                     *)

Worker == [at : Phases, todo : SUBSET Posts, week : Weeks]
InsightsTyped ==
  /\ published \in SUBSET Posts /\ week \in Weeks
  /\ account \in {"CONNECTED", "REAUTH_REQUIRED"}
  /\ readings \in [Entities -> Ages]
  /\ workers \in [DOMAIN workers -> Worker]
  /\ uses \in Nat /\ faults \in Nat /\ troubles \in Nat

(* Who announces a week's report has just stored it.                        *)
ReportsStand ==
  /\ reports \in [Weeks -> [Kinds -> Nat]]
  /\ announced \in [Weeks -> {0, 1}]
  /\ OneWeeklyReport
  /\ \A w \in DOMAIN workers :
       At(w, "announce") => reports[workers[w].week]["automatic"] = 1

(* Who has looked the allowance up and not yet counted its use: a look-up   *)
(* found one generation left, and others may have found the same.           *)
Looked == {r \in DOMAIN requests : requests[r].at \in {"generating", "asking"}}
Interpreting == {w \in DOMAIN workers : At(w, "asking")}
Spending ==
  /\ IsFiniteSet(DOMAIN requests) /\ IsFiniteSet(DOMAIN workers)
  /\ uses + Cardinality(Looked) + Cardinality(Interpreting)
       <= Quota + Cardinality(DOMAIN requests) + Cardinality(DOMAIN workers) - 1

GuidanceInv == StrategyInv /\ InsightsTyped /\ ReportsStand /\ Spending

-----------------------------------------------------------------------------
(* The allowance.                                                          *)

LEMMA LookedAre ==
  ASSUME Spending
  PROVE  /\ IsFiniteSet(Looked) /\ IsFiniteSet(Interpreting)
         /\ Cardinality(Looked) \in Nat /\ Cardinality(Interpreting) \in Nat
         /\ Cardinality(Looked) <= Cardinality(DOMAIN requests)
         /\ Cardinality(Interpreting) <= Cardinality(DOMAIN workers)
         /\ Cardinality(DOMAIN requests) \in Nat /\ Cardinality(DOMAIN workers) \in Nat
<1>1. Looked \subseteq DOMAIN requests /\ Interpreting \subseteq DOMAIN workers
  BY DEF Looked, Interpreting
<1> QED
  BY <1>1, FS_Subset, FS_CardinalityType DEF Spending

LEMMA SpendingKept ==
  ASSUME Spending, uses \in Nat, uses' \in Nat,
         DOMAIN requests' = DOMAIN requests, DOMAIN workers' = DOMAIN workers,
         \/ uses' = uses /\ MayGenerate
         \/ uses' = uses /\ Looked' \subseteq Looked /\ Interpreting' \subseteq Interpreting
         \/ /\ uses' <= uses + 1 /\ Interpreting' \subseteq Interpreting
            /\ \E r \in Looked : Looked' \subseteq Looked \ {r}
         \/ /\ uses' <= uses + 1 /\ Looked' \subseteq Looked
            /\ \E w \in Interpreting : Interpreting' \subseteq Interpreting \ {w}
  PROVE  Spending'
<1> DEFINE all == Cardinality(DOMAIN requests) + Cardinality(DOMAIN workers)
<1>1. Quota \in Nat
  BY GuidanceAssumption
<1>2. /\ IsFiniteSet(Looked) /\ IsFiniteSet(Interpreting)
      /\ Cardinality(Looked) \in Nat /\ Cardinality(Interpreting) \in Nat
      /\ all \in Nat
  BY LookedAre
<1>3. uses + Cardinality(Looked) + Cardinality(Interpreting) <= Quota + all - 1
  <2>1. /\ Cardinality(DOMAIN requests) \in Nat /\ Cardinality(DOMAIN workers) \in Nat
    BY LookedAre
  <2> QED
    BY <1>1, <1>2, <2>1, SMT DEF Spending
<1>4. /\ Looked' \subseteq DOMAIN requests /\ Interpreting' \subseteq DOMAIN workers
      /\ IsFiniteSet(DOMAIN requests) /\ IsFiniteSet(DOMAIN workers)
  BY DEF Looked, Interpreting, Spending
<1>5. /\ Cardinality(Looked') \in Nat /\ Cardinality(Interpreting') \in Nat
      /\ Cardinality(Looked') + Cardinality(Interpreting') <= all
  <2>1. /\ IsFiniteSet(Looked') /\ Cardinality(Looked') <= Cardinality(DOMAIN requests)
        /\ IsFiniteSet(Interpreting')
        /\ Cardinality(Interpreting') <= Cardinality(DOMAIN workers)
    BY <1>4, FS_Subset
  <2> QED
    BY <2>1, LookedAre, FS_CardinalityType
<1>6. uses' + Cardinality(Looked') + Cardinality(Interpreting') <= Quota + all - 1
  <2>1. CASE uses' = uses /\ MayGenerate
    BY <1>1, <1>2, <1>5, <2>1, SMT DEF MayGenerate
  <2>2. ASSUME Looked' \subseteq Looked, Interpreting' \subseteq Interpreting
        PROVE  Cardinality(Looked') <= Cardinality(Looked)
               /\ Cardinality(Interpreting') <= Cardinality(Interpreting)
    BY <1>2, <2>2, FS_Subset
  <2>3. CASE uses' = uses /\ Looked' \subseteq Looked /\ Interpreting' \subseteq Interpreting
    BY <1>1, <1>2, <1>3, <1>5, <2>2, <2>3, SMT
  <2>4. ASSUME uses' <= uses + 1, Interpreting' \subseteq Interpreting,
               NEW r \in Looked, Looked' \subseteq Looked \ {r}
        PROVE  uses' + Cardinality(Looked') + Cardinality(Interpreting') <= Quota + all - 1
    <3>1. IsFiniteSet(Looked \ {r}) /\ Cardinality(Looked \ {r}) = Cardinality(Looked) - 1
      BY <1>2, FS_RemoveElement
    <3>2. Cardinality(Looked') <= Cardinality(Looked \ {r})
      BY <2>4, <3>1, FS_Subset
    <3>3. Cardinality(Interpreting') <= Cardinality(Interpreting)
      BY <1>2, <2>4, FS_Subset
    <3> QED
      BY <1>1, <1>2, <1>3, <1>5, <2>4, <3>1, <3>2, <3>3, SMT
  <2>5. ASSUME uses' <= uses + 1, Looked' \subseteq Looked,
               NEW w \in Interpreting, Interpreting' \subseteq Interpreting \ {w}
        PROVE  uses' + Cardinality(Looked') + Cardinality(Interpreting') <= Quota + all - 1
    <3>1. IsFiniteSet(Interpreting \ {w}) /\ Cardinality(Interpreting \ {w}) = Cardinality(Interpreting) - 1
      BY <1>2, FS_RemoveElement
    <3>2. Cardinality(Interpreting') <= Cardinality(Interpreting \ {w})
      BY <2>5, <3>1, FS_Subset
    <3>3. Cardinality(Looked') <= Cardinality(Looked)
      BY <1>2, <2>5, FS_Subset
    <3> QED
      BY <1>1, <1>2, <1>3, <1>5, <2>5, <3>1, <3>2, <3>3, SMT
  <2> QED
    BY <2>1, <2>3, <2>4, <2>5
<1>7. IsFiniteSet(DOMAIN requests') /\ IsFiniteSet(DOMAIN workers')
  BY <1>4
<1>8. Cardinality(DOMAIN requests') + Cardinality(DOMAIN workers') = all
  OBVIOUS
<1>9. /\ Cardinality(DOMAIN requests') \in Nat /\ Cardinality(DOMAIN workers') \in Nat
  BY LookedAre
<1> HIDE DEF all
<1> QED
  BY <1>1, <1>2, <1>5, <1>6, <1>7, <1>8, <1>9, SMT DEF Spending

LEMMA UsageRecorded ==
  ASSUME InsightsTyped, NEW answer, RecordUsage(answer)
  PROVE  uses' \in Nat /\ faults' \in Nat /\ uses' <= uses + 1
<1>1. uses \in Nat /\ faults \in Nat
  BY DEF InsightsTyped
<1>2. CASE Counted(answer) /\ UNCHANGED faults
  BY <1>1, <1>2 DEF Counted
<1>3. CASE Uncounted(answer)
  BY <1>1, <1>3 DEF Uncounted
<1> QED
  BY <1>2, <1>3 DEF RecordUsage

-----------------------------------------------------------------------------
(* Requests, beside the versions.                                           *)

(* A step that only concerns people leaves the workers' records alone.      *)
LEMMA WorkersRest ==
  ASSUME InsightsTyped, ReportsStand, UNCHANGED insightVars, uses' \in Nat, faults' \in Nat
  PROVE  InsightsTyped' /\ ReportsStand' /\ Interpreting' = Interpreting
         /\ DOMAIN workers' = DOMAIN workers
<1>1. /\ UNCHANGED <<published, account, readings, week>>
      /\ UNCHANGED <<reports, announced, workers, troubles>>
  BY DEF insightVars
<1>2. InsightsTyped'
  BY <1>1 DEF InsightsTyped
<1>3. ReportsStand'
  BY <1>1, Zenon DEF ReportsStand, OneWeeklyReport, At
<1> QED
  BY <1>1, <1>2, <1>3 DEF Interpreting, At

(* Which requests have looked the allowance up, after a step of one.        *)
LEMMA LookedAfter ==
  ASSUME NEW r \in DOMAIN requests, Stepped(r)
  PROVE  /\ Looked' \subseteq Looked \cup {r}
         /\ requests'[r].at \notin {"generating", "asking"} => Looked' \subseteq Looked \ {r}
  BY Zenon DEF Stepped, Looked

(* Where a request goes and what it does to the allowance.                  *)
LEMMA RequestSpends ==
  ASSUME GuidanceInv, NEW r \in DOMAIN requests, Request(r)
  PROVE  /\ Stepped(r) /\ uses' \in Nat /\ faults' \in Nat
         /\ requests[r].at # "done"
         /\ \/ uses' = uses /\ MayGenerate
            \/ uses' = uses /\ requests'[r].at \notin {"generating", "asking"}
            \/ /\ uses' <= uses + 1 /\ r \in Looked
               /\ requests'[r].at \notin {"generating", "asking"}
<1>1. StrategyInv /\ uses \in Nat /\ faults \in Nat /\ RequestsTyped
  BY DEF GuidanceInv, InsightsTyped, StrategyInv
<1>2. CASE Generate(r)
  <2>1. PICK a \in {"generating", "done"} : Goes(r, a) /\ (a = "generating" => MayGenerate)
    BY <1>2, Zenon DEF Generate
  <2>2. Stepped(r) /\ requests'[r].at = a
    BY <1>1, <2>1, GoesOn, StepsAreAts
  <2> QED
    BY <1>1, <1>2, <2>1, <2>2 DEF Generate, OneOf, Is
<1>3. CASE Generated(r)
  <2>1. PICK answer \in Answers : RecordUsage(answer) /\ Goes(r, IF answer = "usable" THEN "latest" ELSE "done")
    BY <1>3 DEF Generated
  <2>2. PICK a \in {"latest", "done"} : Goes(r, a)
    BY <2>1, Zenon
  <2>3. Stepped(r) /\ requests'[r].at = a
    BY <1>1, <2>2, GoesOn, StepsAreAts
  <2>4. uses' \in Nat /\ faults' \in Nat /\ uses' <= uses + 1
    BY <2>1, UsageRecorded DEF GuidanceInv
  <2>5. r \in Looked /\ requests[r].at = "generating"
    BY <1>3 DEF Generated, Is, Looked
  <2> QED
    BY <2>3, <2>4, <2>5
<1>4. CASE FindLatest(r)
  <2>1. PICK newest : newest = Max({strategies[s].version : s \in Stored} \cup {0})
    OBVIOUS
  <2>2. newest \in Nat
    BY <2>1, NewestIs, <1>1 DEF StrategyInv
  <2>3. requests' = [requests EXCEPT ![r].at = "create", ![r].latest = newest]
    BY <1>4, <2>1, Zenon DEF FindLatest
  <2>4. Stepped(r) /\ requests'[r].at = "create"
    BY <1>1, <2>2, <2>3, FindsLatest
  <2> QED
    BY <1>1, <1>4, <2>4 DEF FindLatest, Is
<1>5. CASE CreateVersion(r)
  <2>1. uses' = uses /\ faults' = faults /\ requests[r].at = "create"
    BY <1>5 DEF CreateVersion, Is
  <2>2. CASE \E a \in {"lost", "latest"} :
               requests' = [requests EXCEPT ![r].tries = @ + 1, ![r].at = a]
    <3>1. PICK a \in {"lost", "latest"} :
            requests' = [requests EXCEPT ![r].tries = @ + 1, ![r].at = a]
      BY <2>2
    <3>2. Stepped(r) /\ requests'[r].at = a
      BY <1>1, <3>1, TriesAgain, StepsAreAts
    <3> QED
      BY <1>1, <2>1, <3>2
  <2>3. CASE Ends(r)
    <3>1. Stepped(r) /\ requests'[r].at = "done"
      BY <1>1, <2>3, GoesOn, StepsAreAts DEF Ends
    <3> QED
      BY <1>1, <2>1, <3>1
  <2> QED
    BY <1>5, <2>2, <2>3, Zenon DEF CreateVersion
<1>6. CASE Dies(r)
  <2>1. Stepped(r) /\ requests'[r].at = "dead"
    BY <1>1, <1>6, GoesOn, StepsAreAts DEF Dies
  <2> QED
    BY <1>1, <1>6, <2>1 DEF Dies, Is
<1>7. CASE \E a \in {"done", "activate", "restore"} : Goes(r, a) /\ UNCHANGED <<uses, faults>> /\ ~Is(r, "done")
  <2>1. PICK a \in {"done", "activate", "restore"} : Goes(r, a) /\ UNCHANGED <<uses, faults>> /\ ~Is(r, "done")
    BY <1>7
  <2>2. Stepped(r) /\ requests'[r].at = a
    BY <1>1, <2>1, GoesOn, StepsAreAts
  <2> QED
    BY <1>1, <2>1, <2>2 DEF Is
<1>8. CASE Update(r) \/ Delete(r) \/ ArchivePrevious(r) \/ Activate(r) \/ RestorePrevious(r)
  <2>1. Update(r) \/ Delete(r) \/ RestorePrevious(r) =>
          Goes(r, "done") /\ UNCHANGED <<uses, faults>> /\ ~Is(r, "done")
    BY DEF Update, Delete, RestorePrevious, Ends, Is
  <2>2. ArchivePrevious(r) => Goes(r, "activate") /\ UNCHANGED <<uses, faults>> /\ ~Is(r, "done")
    BY DEF ArchivePrevious, Is
  <2>3. Activate(r) => \E a \in {"done", "restore"} :
                         Goes(r, a) /\ UNCHANGED <<uses, faults>> /\ ~Is(r, "done")
    BY DEF Activate, Ends, AfterLoss, Is
  <2> QED
    BY <1>7, <1>8, <2>1, <2>2, <2>3, Zenon
<1>9. CASE FindPrevious(r)
  <2>1. PICK a \in {"activate", "archive"} :
          requests' = [requests EXCEPT ![r].previous = Active, ![r].at = a]
    BY <1>9, Zenon DEF FindPrevious
  <2>2. PICK active : active = Active /\ active \subseteq Nat
    BY <1>1, IdsAre DEF Active, StrategyInv
  <2>3. requests' = [requests EXCEPT ![r].previous = active, ![r].at = a]
    BY <2>1, <2>2, Zenon
  <2>4. a \in Ats
    BY <2>1, StepsAreAts
  <2>5. Stepped(r) /\ requests'[r].at = a
    BY <1>1, <2>2, <2>3, <2>4, Notes, Zenon
  <2> QED
    BY <1>1, <1>9, <2>1, <2>5 DEF FindPrevious, Is
<1>10. ASSUME NEW s \in Ids, FindForUpdate(r, s)
       PROVE  Stepped(r) /\ requests'[r].at = "update" /\ uses' = uses /\ faults' = faults
              /\ requests[r].at = "new"
  <2>1. PICK status \in Statuses : status = strategies[s].status
    BY <1>1, IdsAre DEF StrategyInv
  <2>2. PICK seen \in Nat : requests' = [requests EXCEPT ![r].at = "update", ![r].on = s,
                              ![r].saw = strategies[s].status, ![r].revision = seen]
    <3>1. strategies[s].revision \in Nat
      BY <1>1, IdsAre DEF StrategyInv
    <3>2. PICK seen \in 0 .. strategies[s].revision :
            requests' = [requests EXCEPT ![r].at = "update", ![r].on = s,
                           ![r].saw = strategies[s].status, ![r].revision = seen]
      BY <1>10, Zenon DEF FindForUpdate
    <3>3. seen \in Nat
      BY <3>1, <3>2
    <3> QED
      BY <3>2, <3>3, Zenon
  <2>3. requests' = [requests EXCEPT ![r].at = "update", ![r].on = s,
                       ![r].saw = status, ![r].revision = seen]
    BY <2>1, <2>2, Zenon
  <2>4. s \in Nat
    BY <1>1, IdsAre DEF StrategyInv
  <2>5. Stepped(r) /\ requests'[r].at = "update"
    BY <1>1, <2>3, <2>4, AimsToUpdate, Zenon
  <2> QED
    BY <1>10, <2>5 DEF FindForUpdate, OneOf, Is
<1>11. ASSUME NEW s \in Ids, FindForDelete(r, s) \/ FindForActivation(r, s)
       PROVE  /\ Stepped(r) /\ requests'[r].at \in {"delete", "previous"}
              /\ uses' = uses /\ faults' = faults /\ requests[r].at = "new"
  <2>1. s \in Nat
    BY <1>1, IdsAre DEF StrategyInv
  <2>2. Stepped(r) /\ requests'[r].at \in {"delete", "previous"}
    BY <1>1, <1>11, <2>1, Aims, StepsAreAts DEF FindForDelete, FindForActivation
  <2> QED
    BY <1>11, <2>2 DEF FindForDelete, FindForActivation, OneOf, Is
<1> QED
  BY <1>1, <1>2, <1>3, <1>4, <1>5, <1>6, <1>8, <1>9, <1>10, <1>11 DEF Request

LEMMA StrategiesStepKeeps ==
  ASSUME GuidanceInv, NEW r \in DOMAIN requests, Request(r), UNCHANGED insightVars
  PROVE  GuidanceInv'
<1>1. StrategyInv'
  BY RequestKeeps DEF GuidanceInv
<1>2. /\ Stepped(r) /\ uses' \in Nat /\ faults' \in Nat
      /\ \/ uses' = uses /\ MayGenerate
         \/ uses' = uses /\ requests'[r].at \notin {"generating", "asking"}
         \/ /\ uses' <= uses + 1 /\ r \in Looked
            /\ requests'[r].at \notin {"generating", "asking"}
  BY RequestSpends
<1>3. InsightsTyped' /\ ReportsStand' /\ Interpreting' = Interpreting
      /\ DOMAIN workers' = DOMAIN workers
  BY <1>2, WorkersRest DEF GuidanceInv
<1>4. requests'[r].at \notin {"generating", "asking"} => Looked' \subseteq Looked \ {r}
  BY <1>2, LookedAfter
<1>5. Spending'
  BY <1>2, <1>3, <1>4, SpendingKept DEF GuidanceInv, InsightsTyped, Stepped
<1> QED
  BY <1>1, <1>3, <1>5 DEF GuidanceInv

-----------------------------------------------------------------------------
(* Reports that people ask for.                                             *)

LEMMA AskReportKeeps ==
  ASSUME GuidanceInv, NEW r \in DOMAIN requests, AskReport(r)
  PROVE  GuidanceInv'
<1>1. /\ StrategyInv /\ RequestsTyped /\ week \in Weeks /\ uses \in Nat /\ faults \in Nat
      /\ UNCHANGED <<strategies, insightVars, uses, faults>> /\ requests[r].at = "new"
  BY DEF GuidanceInv, StrategyInv, InsightsTyped, AskReport, OneOf, Is
<1>2. PICK a \in {"asking", "save"} :
        requests' = [requests EXCEPT ![r].week = week, ![r].at = a] /\ (a = "asking" => MayGenerate)
  BY Zenon DEF AskReport
<1>3. PICK wk \in Weeks : wk = week
  BY <1>1
<1>4. Stepped(r) /\ requests'[r].at = a /\ requests'[r].week \in Weeks
  <2>1. wk \in Nat /\ a \in Ats
    BY <1>3, StepsAreAts, InsightsAssumption DEF Weeks
  <2>2. requests' = [requests EXCEPT ![r].week = wk, ![r].at = a]
    BY <1>2, <1>3, Zenon
  <2>3. Stepped(r) /\ requests'[r].at = a /\ requests'[r].week = wk
    BY <1>1, <2>1, <2>2, AsksForWeek, Zenon
  <2> QED
    BY <1>3, <2>3
<1>5. StrategyInv'
  <2>1. Fits(requests'[r]) /\ ~Restores(requests[r])
    BY <1>1, <1>4 DEF Fits, Restores
  <2> QED
    BY <1>1, <1>4, <2>1, QuietStep
<1>6. InsightsTyped' /\ ReportsStand' /\ Interpreting' = Interpreting
      /\ DOMAIN workers' = DOMAIN workers
  BY <1>1, WorkersRest DEF GuidanceInv
<1>7. Looked' \subseteq Looked \/ MayGenerate
  BY <1>2, <1>4, LookedAfter
<1>8. Spending'
  BY <1>1, <1>4, <1>6, <1>7, SpendingKept DEF GuidanceInv, Stepped
<1> QED
  BY <1>5, <1>6, <1>8 DEF GuidanceInv

LEMMA ReportAnsweredKeeps ==
  ASSUME GuidanceInv, NEW r \in DOMAIN requests, ReportAnswered(r)
  PROVE  GuidanceInv'
<1>1. /\ StrategyInv /\ RequestsTyped /\ uses \in Nat
      /\ UNCHANGED <<strategies, insightVars>> /\ requests[r].at = "asking" /\ r \in Looked
  BY DEF GuidanceInv, StrategyInv, InsightsTyped, ReportAnswered, Is, Looked
<1>2. PICK answer : RecordUsage(answer) /\ Goes(r, "save")
  BY DEF ReportAnswered, AfterAnswer
<1>3. Stepped(r) /\ requests'[r].at = "save" /\ SameWeek(r)
  BY <1>1, <1>2, GoesOn, StepsAreAts
<1>4. uses' \in Nat /\ faults' \in Nat /\ uses' <= uses + 1
  BY <1>2, UsageRecorded DEF GuidanceInv
<1>5. StrategyInv'
  <2>1. requests[r].week \in Weeks
    BY <1>1, Here DEF Fits
  <2>2. Fits(requests'[r]) /\ ~Restores(requests[r])
    BY <1>1, <1>3, <2>1 DEF Fits, Restores, SameWeek
  <2> QED
    BY <1>1, <1>3, <2>2, QuietStep
<1>6. InsightsTyped' /\ ReportsStand' /\ Interpreting' = Interpreting
      /\ DOMAIN workers' = DOMAIN workers
  BY <1>1, <1>4, WorkersRest DEF GuidanceInv
<1>7. Looked' \subseteq Looked \ {r}
  BY <1>3, LookedAfter
<1>8. Spending'
  BY <1>1, <1>3, <1>4, <1>6, <1>7, SpendingKept DEF GuidanceInv, Stepped
<1> QED
  BY <1>5, <1>6, <1>8 DEF GuidanceInv

(* One more report of a kind is stored.                                     *)
LEMMA StoreTyped ==
  ASSUME reports \in [Weeks -> [Kinds -> Nat]], NEW kind \in Kinds, NEW wk \in Weeks, Store(kind, wk)
  PROVE  /\ reports' \in [Weeks -> [Kinds -> Nat]]
         /\ reports'[wk][kind] = reports[wk][kind] + 1
         /\ \A v \in Weeks, k \in Kinds : v # wk \/ k # kind => reports'[v][k] = reports[v][k]
<1> DEFINE row == [reports[wk] EXCEPT ![kind] = reports[wk][kind] + 1]
<1>1. reports' = [reports EXCEPT ![wk] = row]
  BY Zenon DEF Store
<1>2. reports[wk] \in [Kinds -> Nat] /\ reports[wk][kind] + 1 \in Nat
  BY SMT
<1>3. /\ row \in [Kinds -> Nat] /\ row[kind] = reports[wk][kind] + 1
      /\ \A k \in Kinds \ {kind} : row[k] = reports[wk][k]
  BY <1>2, Zenon
<1> HIDE DEF row
<1>4. /\ reports' \in [Weeks -> [Kinds -> Nat]] /\ reports'[wk] = row
      /\ \A v \in Weeks \ {wk} : reports'[v] = reports[v]
  BY <1>1, <1>3, Zenon
<1> QED
  BY <1>3, <1>4, Zenon

LEMMA SaveAskedKeeps ==
  ASSUME GuidanceInv, NEW r \in DOMAIN requests, SaveAsked(r)
  PROVE  GuidanceInv'
<1> DEFINE wk == requests[r].week
<1>1. /\ StrategyInv /\ RequestsTyped /\ uses \in Nat /\ requests[r].at = "save"
      /\ UNCHANGED <<strategies, published, account, readings, week, announced,
                     workers, troubles, uses, faults>>
      /\ Store("manual", wk) /\ Ends(r)
  BY DEF GuidanceInv, StrategyInv, InsightsTyped, SaveAsked, Is
<1>2. Stepped(r) /\ requests'[r].at = "done"
  BY <1>1, GoesOn, StepsAreAts DEF Ends
<1>3. StrategyInv'
  BY <1>1, LeavesOff
<1>4. wk \in Weeks
  BY <1>1, Here DEF Fits
<1>5. InsightsTyped' /\ Interpreting' = Interpreting /\ DOMAIN workers' = DOMAIN workers
  BY <1>1 DEF GuidanceInv, InsightsTyped, Interpreting, At
<1>6. ReportsStand'
  <2>1. /\ reports' \in [Weeks -> [Kinds -> Nat]]
        /\ \A v \in Weeks : reports'[v]["automatic"] = reports[v]["automatic"]
    BY <1>1, <1>4, StoreTyped DEF GuidanceInv, ReportsStand, Kinds
  <2>2. \A w \in DOMAIN workers : workers[w].week \in Weeks
    BY DEF GuidanceInv, InsightsTyped, Worker
  <2> QED
    BY <1>1, <2>1, <2>2 DEF GuidanceInv, ReportsStand, OneWeeklyReport, At
<1>7. Looked' \subseteq Looked
  BY <1>2, LookedAfter
<1>8. Spending'
  BY <1>1, <1>2, <1>5, <1>7, SpendingKept DEF GuidanceInv, Stepped
<1> QED
  BY <1>3, <1>5, <1>6, <1>8 DEF GuidanceInv

-----------------------------------------------------------------------------
(* Workers.                                                                 *)

(* What stays when a worker, or the world, takes a step.                    *)
LEMMA PeopleRest ==
  ASSUME GuidanceInv, UNCHANGED strategyVars
  PROVE  StrategyInv' /\ Looked' = Looked /\ DOMAIN requests' = DOMAIN requests
<1>1. UNCHANGED <<strategies, requests>>
  BY DEF strategyVars
<1>2. /\ Ids' = Ids /\ Stored' = Stored /\ Active' = Active
  BY <1>1 DEF Ids, Stored, Active
<1>3. VersionsApart' /\ OneActive' /\ StrategiesTyped' /\ RequestsTyped'
  <2>1. VersionsApart' = VersionsApart /\ OneActive' = OneActive
    BY <1>1, <1>2, Zenon DEF VersionsApart, OneActive
  <2>2. StrategiesTyped' = StrategiesTyped /\ RequestsTyped' = RequestsTyped
    BY <1>1, Zenon DEF StrategiesTyped, RequestsTyped
  <2> QED
    BY <2>1, <2>2, Zenon DEF GuidanceInv, StrategyInv
<1>4. RequestsFit'
  <2> SUFFICES ASSUME NEW r \in DOMAIN requests'
               PROVE  Fits(requests[r])'
    BY DEF RequestsFit
  <2>1. PICK c : c = requests[r]
    OBVIOUS
  <2>2. Fits(c) /\ c \in Asked /\ StrategiesTyped /\ requests'[r] = c
    BY <1>1, <2>1, Here DEF GuidanceInv
  <2>3. Evolves
    BY <1>1, <2>2, SameStrategies DEF Rewritten
  <2>4. Fits(c)'
    BY <2>2, <2>3, FitsKept
  <2> QED
    BY <2>2, <2>4, FitsOf
<1>5. SomebodyRestores' = SomebodyRestores
  BY <1>1, <1>2, Zenon DEF SomebodyRestores, Bereft, Restores
<1> QED
  BY <1>1, <1>3, <1>4, <1>5, Zenon DEF GuidanceInv, StrategyInv, Looked

LEMMA WorkerTyped ==
  ASSUME NEW q \in Worker
  PROVE  /\ \A a \in Phases : [q EXCEPT !.at = a] \in Worker
         /\ \A T \in SUBSET Posts : [q EXCEPT !.todo = T] \in Worker
         /\ \A a \in Phases : [q EXCEPT !.at = a].week = q.week /\ [q EXCEPT !.at = a].at = a
         /\ \A T \in SUBSET Posts : [q EXCEPT !.todo = T].week = q.week
                                    /\ [q EXCEPT !.todo = T].at = q.at
<1>1. \A a \in Phases : [q EXCEPT !.at = a] \in Worker
  BY SMT DEF Worker
<1>2. \A T \in SUBSET Posts : [q EXCEPT !.todo = T] \in Worker
  BY SMT DEF Worker
<1>3. \A a \in Phases : [q EXCEPT !.at = a].week = q.week /\ [q EXCEPT !.at = a].at = a
  BY SMT DEF Worker
<1>4. \A T \in SUBSET Posts : [q EXCEPT !.todo = T].week = q.week /\ [q EXCEPT !.todo = T].at = q.at
  BY SMT DEF Worker
<1> QED
  BY <1>1, <1>2, <1>3, <1>4

LEMMA IdleTyped == Idle \in Worker /\ Idle.at = "idle"
<1>1. 1 \in Weeks /\ "idle" \in Phases
  BY InsightsAssumption DEF Weeks, Phases
<1> QED
  BY <1>1, SMT DEF Idle, Worker

LEMMA PhasesAre ==
  \A a \in {"idle", "account", "posts", "due", "samples", "asking", "save", "announce"} : a \in Phases
  BY DEF Phases

(* A worker's step, beside reports and the allowance.                       *)
LEMMA WorkerStep ==
  ASSUME GuidanceInv, NEW w \in DOMAIN workers, NEW next \in Worker,
         workers' = [workers EXCEPT ![w] = next]
  PROVE  /\ workers' \in [DOMAIN workers' -> Worker] /\ DOMAIN workers' = DOMAIN workers
         /\ workers'[w] = next
         /\ \A v \in DOMAIN workers \ {w} : workers'[v] = workers[v]
         /\ next.at # "asking" => Interpreting' \subseteq Interpreting \ {w}
         /\ Interpreting' \subseteq Interpreting \cup {w}
<1>1. /\ workers' \in [DOMAIN workers -> Worker] /\ workers'[w] = next
      /\ \A v \in DOMAIN workers \ {w} : workers'[v] = workers[v]
  BY Zenon DEF GuidanceInv, InsightsTyped
<1>2. DOMAIN workers' = DOMAIN workers
  BY <1>1, Zenon
<1> QED
  BY <1>1, <1>2, Zenon DEF Interpreting, At

LEMMA WorkerHere ==
  ASSUME GuidanceInv, NEW w \in DOMAIN workers
  PROVE  /\ workers[w] \in Worker /\ workers[w].at \in Phases /\ workers[w].week \in Weeks
         /\ workers[w].todo \in SUBSET Posts
<1>1. workers[w] \in Worker
  BY DEF GuidanceInv, InsightsTyped
<1> QED
  BY <1>1, SMT DEF Worker

(* A worker's step that stores and announces nothing.                       *)
LEMMA WorkerKeeps ==
  ASSUME GuidanceInv, NEW w \in DOMAIN workers, NEW next \in Worker,
         workers' = [workers EXCEPT ![w] = next],
         next.at # "announce", UNCHANGED strategyVars,
         UNCHANGED <<published, week, reports, announced>>,
         readings' \in [Entities -> Ages], account' \in {"CONNECTED", "REAUTH_REQUIRED"},
         troubles' \in Nat, uses' \in Nat, faults' \in Nat,
         \/ uses' = uses /\ MayGenerate
         \/ uses' = uses /\ next.at # "asking"
         \/ uses' <= uses + 1 /\ At(w, "asking") /\ next.at # "asking"
  PROVE  GuidanceInv'
<1>1. StrategyInv' /\ Looked' = Looked /\ DOMAIN requests' = DOMAIN requests
  BY PeopleRest
<1>2. /\ workers' \in [DOMAIN workers' -> Worker] /\ DOMAIN workers' = DOMAIN workers
      /\ workers'[w] = next
      /\ \A v \in DOMAIN workers \ {w} : workers'[v] = workers[v]
      /\ next.at # "asking" => Interpreting' \subseteq Interpreting \ {w}
  BY WorkerStep
<1>3. InsightsTyped'
  BY <1>2 DEF InsightsTyped, GuidanceInv
<1>4. ReportsStand'
  BY <1>2, Zenon DEF ReportsStand, GuidanceInv, OneWeeklyReport, At
<1>5. Spending'
  BY <1>1, <1>2, SpendingKept DEF GuidanceInv, InsightsTyped, Interpreting
<1> QED
  BY <1>1, <1>3, <1>4, <1>5 DEF GuidanceInv

LEMMA CollectKeeps ==
  ASSUME GuidanceInv, UNCHANGED strategyVars, NEW w \in DOMAIN workers, Collect(w)
  PROVE  GuidanceInv'
<1>1. PICK a \in {"account", "due"} : Become(w, a)
  BY Zenon DEF Collect
<1>2. PICK next : next = [workers[w] EXCEPT !.at = a]
  OBVIOUS
<1>3. workers' = [workers EXCEPT ![w] = next]
  BY <1>1, <1>2, Zenon DEF Become
<1>4. next \in Worker /\ next.at = a
  BY <1>2, WorkerHere, WorkerTyped, PhasesAre
<1> QED
  BY <1>1, <1>3, <1>4, WorkerKeeps DEF Collect, GuidanceInv, InsightsTyped

(* What a call to the platform may change.                                  *)
LEMMA PlatformCalled ==
  ASSUME GuidanceInv, NEW e \in Entities, Read(e) \/ Unavailable(e) \/ Stopping
  PROVE  /\ readings' \in [Entities -> Ages] /\ account' \in {"CONNECTED", "REAUTH_REQUIRED"}
         /\ troubles' \in Nat
<1>1. /\ readings \in [Entities -> Ages] /\ account \in {"CONNECTED", "REAUTH_REQUIRED"}
      /\ troubles \in Nat
  BY DEF GuidanceInv, InsightsTyped
<1>2. CASE Read(e)
  <2>1. "new" \in Ages
    BY DEF Ages
  <2> QED
    BY <1>1, <1>2, <2>1, Zenon DEF Read
<1>3. CASE Unavailable(e)
  BY <1>1, <1>3, SMT DEF Unavailable
<1>4. CASE Stopping
  BY <1>1, <1>4, SMT DEF Stopping
<1> QED
  BY <1>2, <1>3, <1>4

LEMMA CollectAccountKeeps ==
  ASSUME GuidanceInv, UNCHANGED strategyVars, NEW w \in DOMAIN workers, CollectAccount(w)
  PROVE  GuidanceInv'
<1>1. /\ readings' \in [Entities -> Ages] /\ account' \in {"CONNECTED", "REAUTH_REQUIRED"}
      /\ troubles' \in Nat
  <2>1. TheAccount \in Entities
    BY DEF Entities
  <2> QED
    BY <2>1, PlatformCalled DEF CollectAccount
<1>2. PICK next \in Worker : workers' = [workers EXCEPT ![w] = next] /\ next.at \in {"posts", "due"}
  <2>1. CASE workers' = [workers EXCEPT ![w].at = "posts", ![w].todo = published]
    <3> DEFINE one == [workers[w] EXCEPT !.at = "posts"]
               next == [one EXCEPT !.todo = published]
    <3>1. workers' = [workers EXCEPT ![w] = next]
      BY <2>1, Zenon
    <3>2. one \in Worker /\ one.at = "posts"
      BY WorkerHere, WorkerTyped, PhasesAre
    <3> HIDE DEF one
    <3>3. published \in SUBSET Posts
      BY DEF GuidanceInv, InsightsTyped
    <3>4. next \in Worker /\ next.at = "posts"
      BY <3>2, <3>3, WorkerTyped
    <3> QED
      BY <3>1, <3>4
  <2>2. CASE Become(w, "due")
    <3>1. PICK next : next = [workers[w] EXCEPT !.at = "due"]
      OBVIOUS
    <3>2. workers' = [workers EXCEPT ![w] = next]
      BY <2>2, <3>1, Zenon DEF Become
    <3>3. next \in Worker /\ next.at = "due"
      BY <3>1, WorkerHere, WorkerTyped, PhasesAre
    <3> QED
      BY <3>2, <3>3
  <2> QED
    BY <2>1, <2>2 DEF CollectAccount
<1>3. /\ UNCHANGED <<published, week, reports, announced, uses, faults>>
      /\ uses \in Nat /\ faults \in Nat
  BY DEF CollectAccount, GuidanceInv, InsightsTyped
<1> QED
  BY <1>1, <1>2, <1>3, WorkerKeeps

LEMMA CollectPostKeeps ==
  ASSUME GuidanceInv, UNCHANGED strategyVars, NEW w \in DOMAIN workers, CollectPost(w)
  PROVE  GuidanceInv'
<1>1. PICK p \in workers[w].todo :
        \/ Read(p) /\ workers' = [workers EXCEPT ![w].todo = @ \ {p}]
        \/ Unavailable(p) /\ workers' = [workers EXCEPT ![w].todo = @ \ {p}]
        \/ Stopping /\ workers' = [workers EXCEPT ![w].todo = {}]
  BY Zenon DEF CollectPost, AfterUnavailable
<1>2. p \in Entities
  BY WorkerHere DEF Entities
<1>3. /\ readings' \in [Entities -> Ages] /\ account' \in {"CONNECTED", "REAUTH_REQUIRED"}
      /\ troubles' \in Nat
  BY <1>1, <1>2, PlatformCalled
<1>4. PICK T \in SUBSET Posts : workers' = [workers EXCEPT ![w].todo = T]
  <2>1. workers[w].todo \ {p} \in SUBSET Posts /\ {} \in SUBSET Posts
    BY WorkerHere
  <2> QED
    BY <1>1, <2>1, Zenon
<1>5. PICK next : next = [workers[w] EXCEPT !.todo = T]
  OBVIOUS
<1>6. workers' = [workers EXCEPT ![w] = next]
  BY <1>4, <1>5, Zenon
<1>7. next \in Worker /\ next.at = "posts"
  BY <1>5, WorkerHere, WorkerTyped DEF CollectPost, At
<1>8. /\ UNCHANGED <<published, week, reports, announced, uses, faults>>
      /\ uses \in Nat /\ faults \in Nat
  BY DEF CollectPost, GuidanceInv, InsightsTyped
<1> QED
  BY <1>3, <1>6, <1>7, <1>8, WorkerKeeps

LEMMA CollectedKeeps ==
  ASSUME GuidanceInv, UNCHANGED strategyVars, NEW w \in DOMAIN workers, Collected(w)
  PROVE  GuidanceInv'
<1>1. PICK next : next = [workers[w] EXCEPT !.at = "due"]
  OBVIOUS
<1>2. workers' = [workers EXCEPT ![w] = next]
  BY <1>1, Zenon DEF Collected, Become
<1>3. next \in Worker /\ next.at = "due"
  BY <1>1, WorkerHere, WorkerTyped, PhasesAre
<1> QED
  BY <1>2, <1>3, WorkerKeeps DEF Collected, GuidanceInv, InsightsTyped

LEMMA FindReportKeeps ==
  ASSUME GuidanceInv, UNCHANGED strategyVars, NEW w \in DOMAIN workers, FindReport(w)
  PROVE  GuidanceInv'
<1> DEFINE sampling == [Idle EXCEPT !.at = "samples", !.week = week]
<1>1. sampling \in Worker /\ sampling.at = "samples"
  <2> DEFINE one == [Idle EXCEPT !.at = "samples"]
  <2>1. one \in Worker /\ one.at = "samples"
    BY IdleTyped, WorkerTyped, PhasesAre
  <2>2. sampling = [one EXCEPT !.week = week]
    BY Zenon
  <2> HIDE DEF one, sampling
  <2>3. week \in Weeks
    BY DEF GuidanceInv, InsightsTyped
  <2> QED
    BY <2>1, <2>2, <2>3, SMT DEF Worker
<1> HIDE DEF sampling
<1>2. PICK next \in {sampling, Idle} : workers' = [workers EXCEPT ![w] = next]
  BY Zenon DEF FindReport, sampling
<1>3. next \in Worker /\ next.at \in {"samples", "idle"}
  BY <1>1, <1>2, IdleTyped
<1> QED
  BY <1>2, <1>3, WorkerKeeps DEF FindReport, GuidanceInv, InsightsTyped

LEMMA LoadSamplesKeeps ==
  ASSUME GuidanceInv, UNCHANGED strategyVars, NEW w \in DOMAIN workers, LoadSamples(w)
  PROVE  GuidanceInv'
<1>1. PICK a \in {"asking", "save"} : Become(w, a) /\ (a = "asking" => MayGenerate)
  BY Zenon DEF LoadSamples
<1>2. PICK next : next = [workers[w] EXCEPT !.at = a]
  OBVIOUS
<1>3. workers' = [workers EXCEPT ![w] = next]
  BY <1>1, <1>2, Zenon DEF Become
<1>4. next \in Worker /\ next.at = a
  BY <1>2, WorkerHere, WorkerTyped, PhasesAre
<1> QED
  BY <1>1, <1>3, <1>4, WorkerKeeps DEF LoadSamples, GuidanceInv, InsightsTyped

LEMMA InterpretKeeps ==
  ASSUME GuidanceInv, UNCHANGED strategyVars, NEW w \in DOMAIN workers, Interpret(w)
  PROVE  GuidanceInv'
<1>1. PICK answer : RecordUsage(answer) /\ Become(w, "save")
  BY DEF Interpret, AfterAnswer
<1>2. PICK next : next = [workers[w] EXCEPT !.at = "save"]
  OBVIOUS
<1>3. workers' = [workers EXCEPT ![w] = next]
  BY <1>1, <1>2, Zenon DEF Become
<1>4. next \in Worker /\ next.at = "save"
  BY <1>2, WorkerHere, WorkerTyped, PhasesAre
<1>5. uses' \in Nat /\ faults' \in Nat /\ uses' <= uses + 1
  BY <1>1, UsageRecorded DEF GuidanceInv
<1> QED
  BY <1>3, <1>4, <1>5, WorkerKeeps DEF Interpret, GuidanceInv, InsightsTyped

LEMMA SaveReportKeeps ==
  ASSUME GuidanceInv, UNCHANGED strategyVars, NEW w \in DOMAIN workers, SaveReport(w)
  PROVE  GuidanceInv'
<1> DEFINE wk == workers[w].week
<1>1. /\ wk \in Weeks /\ At(w, "save")
      /\ UNCHANGED <<published, account, readings, week, announced, troubles, uses, faults>>
  BY WorkerHere DEF SaveReport
<1>2. CASE Duplicate(wk)
  <2>1. UNCHANGED reports /\ workers' = [workers EXCEPT ![w] = Idle]
    BY <1>2 DEF SaveReport
  <2> QED
    BY <1>1, <2>1, IdleTyped, WorkerKeeps DEF GuidanceInv, InsightsTyped
<1>3. CASE ~Duplicate(wk)
  <2>1. Store("automatic", wk) /\ Become(w, "announce")
    BY <1>3 DEF SaveReport
  <2>2. PICK next : next = [workers[w] EXCEPT !.at = "announce"]
    OBVIOUS
  <2>3. workers' = [workers EXCEPT ![w] = next]
    BY <2>1, <2>2, Zenon DEF Become
  <2>4. next \in Worker /\ next.at = "announce" /\ next.week = wk
    BY <2>2, WorkerHere, WorkerTyped, PhasesAre
  <2>5. /\ workers' \in [DOMAIN workers' -> Worker] /\ DOMAIN workers' = DOMAIN workers
        /\ workers'[w] = next
        /\ \A v \in DOMAIN workers \ {w} : workers'[v] = workers[v]
        /\ Interpreting' \subseteq Interpreting
    BY <2>3, <2>4, WorkerStep
  <2>6. StrategyInv' /\ Looked' = Looked /\ DOMAIN requests' = DOMAIN requests
    BY PeopleRest
  <2>7. InsightsTyped'
    BY <1>1, <2>5 DEF InsightsTyped, GuidanceInv
  <2>8. /\ reports' \in [Weeks -> [Kinds -> Nat]]
        /\ reports'[wk]["automatic"] = 1
        /\ \A v \in Weeks \ {wk} : reports'[v]["automatic"] = reports[v]["automatic"]
    <3>1. reports \in [Weeks -> [Kinds -> Nat]] /\ "automatic" \in Kinds
      BY DEF GuidanceInv, ReportsStand, Kinds
    <3>2. reports[wk]["automatic"] = 0
      BY <1>1, <1>3, <3>1, SMT DEF Duplicate, Written
    <3>3. /\ reports' \in [Weeks -> [Kinds -> Nat]]
          /\ reports'[wk]["automatic"] = reports[wk]["automatic"] + 1
          /\ \A v \in Weeks, k \in Kinds : v # wk \/ k # "automatic" => reports'[v][k] = reports[v][k]
      BY <1>1, <2>1, <3>1, StoreTyped
    <3> QED
      BY <3>1, <3>2, <3>3
  <2>9. ReportsStand'
    <3>1. \A v \in DOMAIN workers : workers[v].week \in Weeks
      BY WorkerHere
    <3>2. OneWeeklyReport'
      <4>1. \A v \in Weeks : announced[v] \in {0, 1} /\ announced[v] <= reports[v]["automatic"]
                             /\ reports[v]["automatic"] <= 1
        BY DEF GuidanceInv, ReportsStand, OneWeeklyReport
      <4> QED
        BY <1>1, <2>8, <4>1, SMT DEF OneWeeklyReport
    <3>3. ASSUME NEW v \in DOMAIN workers', At(v, "announce")'
          PROVE  reports'[workers'[v].week]["automatic"] = 1
      <4>1. CASE v = w
        BY <2>4, <2>5, <2>8, <4>1
      <4>2. CASE v # w
        <5>1. workers'[v] = workers[v] /\ At(v, "announce") /\ v \in DOMAIN workers
          BY <2>5, <3>3, <4>2 DEF At
        <5>2. reports[workers[v].week]["automatic"] = 1
          BY <5>1 DEF GuidanceInv, ReportsStand
        <5> QED
          BY <2>8, <3>1, <5>1, <5>2
      <4> QED
        BY <4>1, <4>2
    <3> QED
      BY <1>1, <2>8, <3>2, <3>3 DEF ReportsStand, GuidanceInv
  <2>10. Spending'
    BY <1>1, <2>5, <2>6, <2>7, SpendingKept DEF GuidanceInv, InsightsTyped
  <2> QED
    BY <2>6, <2>7, <2>9, <2>10 DEF GuidanceInv
<1> QED
  BY <1>2, <1>3

LEMMA AnnounceKeeps ==
  ASSUME GuidanceInv, UNCHANGED strategyVars, NEW w \in DOMAIN workers, Announce(w)
  PROVE  GuidanceInv'
<1> DEFINE wk == workers[w].week
<1>1. /\ wk \in Weeks /\ At(w, "announce")
      /\ UNCHANGED <<published, account, readings, week, reports, troubles, uses, faults>>
      /\ announced' = [announced EXCEPT ![wk] = 1] /\ workers' = [workers EXCEPT ![w] = Idle]
  BY WorkerHere DEF Announce
<1>2. /\ workers' \in [DOMAIN workers' -> Worker] /\ DOMAIN workers' = DOMAIN workers
      /\ workers'[w] = Idle
      /\ \A v \in DOMAIN workers \ {w} : workers'[v] = workers[v]
      /\ Interpreting' \subseteq Interpreting
  BY <1>1, IdleTyped, WorkerStep
<1>3. StrategyInv' /\ Looked' = Looked /\ DOMAIN requests' = DOMAIN requests
  BY PeopleRest
<1>4. InsightsTyped'
  BY <1>1, <1>2 DEF InsightsTyped, GuidanceInv
<1>5. ReportsStand'
  <2>1. /\ reports[wk]["automatic"] = 1 /\ announced \in [Weeks -> {0, 1}]
        /\ \A v \in Weeks : announced[v] <= reports[v]["automatic"] /\ reports[v]["automatic"] <= 1
    BY <1>1 DEF GuidanceInv, ReportsStand, OneWeeklyReport
  <2>2. /\ announced' \in [Weeks -> {0, 1}]
        /\ \A v \in Weeks : announced'[v] <= reports[v]["automatic"]
    BY <1>1, <2>1, SMT
  <2>3. \A v \in DOMAIN workers' : At(v, "announce")' => reports[workers'[v].week]["automatic"] = 1
    BY <1>2, IdleTyped DEF GuidanceInv, ReportsStand, At
  <2> QED
    BY <1>1, <2>1, <2>2, <2>3 DEF ReportsStand, OneWeeklyReport, GuidanceInv
<1>6. Spending'
  BY <1>1, <1>2, <1>3, SpendingKept DEF GuidanceInv, InsightsTyped
<1> QED
  BY <1>3, <1>4, <1>5, <1>6 DEF GuidanceInv

LEMMA WorkKeeps ==
  ASSUME GuidanceInv, UNCHANGED strategyVars, NEW w \in DOMAIN workers, Work(w)
  PROVE  GuidanceInv'
  BY CollectKeeps, CollectAccountKeeps, CollectPostKeeps, CollectedKeeps, FindReportKeeps,
     LoadSamplesKeeps, InterpretKeeps, SaveReportKeeps, AnnounceKeeps DEF Work

(* The world: what it changes is typed, and nothing else depends on it.     *)
LEMMA OutsideKeeps ==
  ASSUME GuidanceInv, UNCHANGED strategyVars, Outside
  PROVE  GuidanceInv'
<1>1. StrategyInv' /\ Looked' = Looked /\ DOMAIN requests' = DOMAIN requests
  BY PeopleRest
<1>2. CASE \E w \in DOMAIN workers : WorkerDies(w)
  <2>1. PICK w \in DOMAIN workers : WorkerDies(w)
    BY <1>2
  <2>2. faults' \in Nat /\ uses' = uses /\ uses \in Nat
    BY <2>1 DEF WorkerDies, GuidanceInv, InsightsTyped
  <2> QED
    BY <2>1, <2>2, IdleTyped, WorkerKeeps DEF WorkerDies, GuidanceInv, InsightsTyped
<1>3. CASE (\E p \in Posts : Publish(p)) \/ Reconnect \/ IntervalPasses \/ NextWeek
  <2>1. UNCHANGED <<reports, announced, workers, troubles, uses, faults>>
    BY <1>3 DEF Publish, Reconnect, IntervalPasses, NextWeek
  <2>2. published' \in SUBSET Posts
    BY <1>3 DEF Publish, Reconnect, IntervalPasses, NextWeek, GuidanceInv, InsightsTyped
  <2>3. week' \in Weeks
    BY <1>3 DEF Publish, Reconnect, IntervalPasses, NextWeek, GuidanceInv, InsightsTyped
  <2>4. account' \in {"CONNECTED", "REAUTH_REQUIRED"}
    BY <1>3 DEF Publish, Reconnect, IntervalPasses, NextWeek, GuidanceInv, InsightsTyped
  <2>5. readings' \in [Entities -> Ages]
    BY <1>3 DEF Publish, Reconnect, IntervalPasses, NextWeek, GuidanceInv, InsightsTyped, Ages
  <2>6. InsightsTyped'
    BY <2>1, <2>2, <2>3, <2>4, <2>5 DEF GuidanceInv, InsightsTyped
  <2>7. ReportsStand'
    BY <2>1, Zenon DEF GuidanceInv, ReportsStand, OneWeeklyReport, At
  <2>8. Interpreting' = Interpreting /\ DOMAIN workers' = DOMAIN workers
    BY <2>1 DEF Interpreting, At
  <2>9. Spending'
    BY <1>1, <2>1, <2>8, SpendingKept DEF GuidanceInv, InsightsTyped
  <2> QED
    BY <1>1, <2>6, <2>7, <2>9 DEF GuidanceInv
<1> QED
  BY <1>2, <1>3 DEF Outside

-----------------------------------------------------------------------------
(* Every behaviour.                                                         *)

LEMMA AskTyped ==
  ASSUME NEW what \in Whats, NEW role \in Roles
  PROVE  Ask(what, role) \in Asked /\ Ask(what, role).at = "new" /\ Ask(what, role).tries = 0
         /\ Ask(what, role).what = what
<1>1. PICK nothing \in Saws : nothing = ""
  BY Zenon DEF Saws
<1>2. Ask(what, role) =
        [what |-> what, role |-> role, at |-> "new", on |-> 0, saw |-> nothing,
         revision |-> 0, previous |-> {}, latest |-> 0, tries |-> 0, week |-> 0]
  BY <1>1, Zenon DEF Ask
<1>3. "new" \in Ats
  BY StepsAreAts
<1> QED
  BY <1>2, <1>3, SMT DEF Asked

(* Where a behaviour may begin.                                             *)
LEMMA Begins ==
  ASSUME Init
  PROVE  \E opening \in Openings :
           /\ Sound(opening)
           /\ strategies = [i \in DOMAIN opening.stored |-> Strategy(i, opening.stored[i])]
           /\ requests = opening.asks
           /\ workers = [w \in opening.working |-> Idle]
           /\ troubles = opening.troubles /\ faults = opening.faults
  BY GuidanceAssumption, Zenon DEF Init

LEMMA FirstRequests ==
  ASSUME Init
  PROVE  /\ requests \in [DOMAIN requests -> Asked] /\ IsFiniteSet(DOMAIN requests)
         /\ \A r \in DOMAIN requests : requests[r].at = "new" /\ requests[r].tries = 0
<1>1. PICK opening \in Openings : Sound(opening) /\ requests = opening.asks
  BY Begins
<1> DEFINE kinds == {Ask(what, role) : what \in Whats, role \in Roles}
<1>2. requests \in Seq(kinds)
  BY <1>1 DEF Sound
<1>3. \A q \in kinds : q \in Asked /\ q.at = "new" /\ q.tries = 0
  BY AskTyped
<1> HIDE DEF kinds
<1>4. /\ Len(requests) \in Nat /\ DOMAIN requests = 1..Len(requests)
      /\ \A r \in DOMAIN requests : requests[r] \in kinds
      /\ requests \in [1..Len(requests) -> kinds]
  BY <1>2, SMT
<1>5. IsFiniteSet(DOMAIN requests)
  BY <1>4, FS_Interval
<1>6. requests \in [DOMAIN requests -> Asked]
  BY <1>3, <1>4
<1> QED
  BY <1>3, <1>4, <1>5, <1>6

LEMMA FirstStrategies ==
  ASSUME Init
  PROVE  StrategiesTyped /\ VersionsApart /\ OneActive /\ ~Bereft
<1>1. PICK opening \in Openings :
        /\ Sound(opening)
        /\ strategies = [i \in DOMAIN opening.stored |-> Strategy(i, opening.stored[i])]
  BY Begins
<1> DEFINE stored == opening.stored
<1>2. stored \in Seq(Statuses)
  BY <1>1 DEF Sound
<1>3. /\ \A s, t \in DOMAIN stored : stored[s] = "ACTIVE" /\ stored[t] = "ACTIVE" => s = t
      /\ (\E s \in DOMAIN stored : stored[s] = "ARCHIVED")
           => \E s \in DOMAIN stored : stored[s] \in {"ACTIVE", "REMOVED"}
  BY <1>1 DEF Sound
<1> HIDE DEF stored
<1>4. Len(stored) \in Nat /\ DOMAIN stored = 1..Len(stored) /\ \A i \in DOMAIN stored : stored[i] \in Statuses
  BY <1>2, SMT
<1>5. \A i \in 1..Len(stored) :
        /\ Strategy(i, stored[i]) \in Version
        /\ Strategy(i, stored[i]).version = i /\ Strategy(i, stored[i]).status = stored[i]
  <2> TAKE i \in 1..Len(stored)
  <2>1. i \in Nat \ {0} /\ stored[i] \in Statuses
    BY <1>4
  <2>2. Strategy(i, stored[i]) = [version |-> i, status |-> stored[i], revision |-> 0]
    BY DEF Strategy
  <2> QED
    BY <2>1, <2>2, SMT DEF Version
<1>6. strategies = [i \in 1..Len(stored) |-> Strategy(i, stored[i])]
  BY <1>1, <1>4, Zenon DEF stored
<1>7. /\ strategies \in [1..Len(stored) -> Version] /\ DOMAIN strategies = 1..Len(stored)
      /\ \A i \in 1..Len(stored) : strategies[i] = Strategy(i, stored[i])
  BY <1>5, <1>6
<1>8. strategies \in Seq(Version) /\ Len(strategies) = Len(stored)
  BY <1>4, <1>7, SMT
<1>9. \A s \in Ids : /\ s \in DOMAIN stored /\ strategies[s].version = s /\ s <= Len(stored)
                     /\ strategies[s].status = stored[s]
  BY <1>4, <1>5, <1>7 DEF Ids
<1>10. Ids = DOMAIN stored
  BY <1>4, <1>7 DEF Ids
<1>11. OneActive /\ ~Bereft
  BY <1>3, <1>9, <1>10 DEF OneActive, Bereft, Active
<1>12. VersionsApart
  BY <1>8, <1>9 DEF VersionsApart, Stored
<1> QED
  BY <1>8, <1>11, <1>12 DEF StrategiesTyped

LEMMA FirstAllowance ==
  ASSUME Init
  PROVE  Spending
<1>1. PICK opening \in Openings :
        Sound(opening) /\ requests = opening.asks /\ workers = [w \in opening.working |-> Idle]
  BY Begins
<1>2. DOMAIN workers = opening.working /\ \A w \in DOMAIN workers : workers[w] = Idle
  BY <1>1
<1>3. IsFiniteSet(DOMAIN requests) /\ IsFiniteSet(DOMAIN workers)
  BY <1>1, <1>2, FirstRequests DEF Sound
<1>4. DOMAIN requests # {} \/ DOMAIN workers # {}
  <2>1. requests # <<>> \/ DOMAIN workers # {}
    BY <1>1, <1>2 DEF Sound
  <2>2. requests \in Seq(Asked)
    <3>1. PICK kinds : requests \in Seq(kinds)
      BY <1>1 DEF Sound
    <3>2. Len(requests) \in Nat /\ DOMAIN requests = 1..Len(requests)
      BY <3>1, SMT
    <3> QED
      BY <3>2, FirstRequests, SMT
  <2>3. DOMAIN requests = {} => requests = <<>>
    <3> SUFFICES ASSUME DOMAIN requests = {} PROVE requests = <<>>
      OBVIOUS
    <3>1. Len(requests) \in Nat /\ DOMAIN requests = 1..Len(requests)
      BY <2>2, SMT
    <3>2. Len(requests) = 0
      BY <3>1, SMT
    <3> QED
      BY <2>2, <3>2, EmptySeq, SMT
  <2> QED
    BY <2>1, <2>3
<1>5. Looked = {} /\ Interpreting = {}
  BY <1>2, FirstRequests, IdleTyped DEF Looked, Interpreting, At
<1>6. Cardinality({}) = 0
  BY FS_EmptySet
<1>7. /\ Cardinality(DOMAIN requests) \in Nat /\ Cardinality(DOMAIN workers) \in Nat
      /\ Cardinality(DOMAIN requests) # 0 \/ Cardinality(DOMAIN workers) # 0
  BY <1>3, <1>4, FS_CardinalityType, FS_EmptySet
<1>8. uses = 0 /\ Quota \in Nat
  BY GuidanceAssumption DEF Init
<1> QED
  BY <1>3, <1>5, <1>6, <1>7, <1>8, SMT DEF Spending

LEMMA InitHolds == Init => GuidanceInv
<1> SUFFICES ASSUME Init
             PROVE  GuidanceInv
  OBVIOUS
<1>1. /\ requests \in [DOMAIN requests -> Asked]
      /\ \A r \in DOMAIN requests : requests[r].at = "new"
  BY FirstRequests
<1>2. RequestsFit
  BY <1>1, RestingFits DEF RequestsFit, Resting
<1>3. StrategyInv
  BY <1>1, <1>2, FirstStrategies DEF StrategyInv, RequestsTyped, SomebodyRestores
<1>4. PICK opening \in Openings :
        /\ Sound(opening) /\ workers = [w \in opening.working |-> Idle]
        /\ troubles = opening.troubles /\ faults = opening.faults
  BY Begins
<1>5. troubles \in Nat /\ faults \in Nat
  BY <1>4 DEF Sound
<1>6. workers \in [DOMAIN workers -> Worker] /\ \A w \in DOMAIN workers : workers[w] = Idle
  BY <1>4, IdleTyped
<1>7. InsightsTyped
  <2>1. Gone \subseteq Posts /\ 1 \in Weeks
    BY InsightsAssumption DEF Weeks
  <2> QED
    BY <1>5, <1>6, <2>1 DEF Init, InsightsTyped, Ages
<1>8. ReportsStand
  <2>1. /\ reports = [wk \in Weeks |-> [kind \in Kinds |-> 0]]
        /\ announced = [wk \in Weeks |-> 0] /\ "automatic" \in Kinds
    BY DEF Init, Kinds
  <2>2. /\ reports \in [Weeks -> [Kinds -> Nat]] /\ announced \in [Weeks -> {0, 1}]
        /\ \A wk \in Weeks : reports[wk]["automatic"] = 0 /\ announced[wk] = 0
    BY <2>1
  <2> QED
    BY <1>6, <2>2, IdleTyped DEF ReportsStand, OneWeeklyReport, At
<1> QED
  BY <1>3, <1>7, <1>8, FirstAllowance DEF GuidanceInv

LEMMA NextHolds == GuidanceInv /\ [Next]_vars => GuidanceInv'
<1> SUFFICES ASSUME GuidanceInv, [Next]_vars
             PROVE  GuidanceInv'
  OBVIOUS
<1>1. CASE UNCHANGED vars
  <2>1. UNCHANGED strategyVars /\ UNCHANGED insightVars /\ UNCHANGED <<uses, faults>>
    BY <1>1 DEF vars, strategyVars, insightVars
  <2>2. StrategyInv' /\ Looked' = Looked /\ DOMAIN requests' = DOMAIN requests
    BY <2>1, PeopleRest
  <2>3. uses \in Nat /\ faults \in Nat
    BY DEF GuidanceInv, InsightsTyped
  <2>4. InsightsTyped' /\ ReportsStand' /\ Interpreting' = Interpreting
        /\ DOMAIN workers' = DOMAIN workers
    BY <2>1, <2>3, WorkersRest DEF GuidanceInv
  <2>5. Spending'
    BY <2>1, <2>2, <2>3, <2>4, SpendingKept DEF GuidanceInv
  <2> QED
    BY <2>2, <2>4, <2>5 DEF GuidanceInv
<1>2. CASE StrategiesStep /\ UNCHANGED insightVars
  BY <1>2, StrategiesStepKeeps DEF StrategiesStep
<1>3. CASE \E r \in DOMAIN requests : AskReport(r) \/ ReportAnswered(r) \/ SaveAsked(r)
  BY <1>3, AskReportKeeps, ReportAnsweredKeeps, SaveAskedKeeps
<1>4. CASE (\E w \in DOMAIN workers : Work(w)) /\ UNCHANGED strategyVars
  BY <1>4, WorkKeeps
<1>5. CASE Outside /\ UNCHANGED strategyVars
  BY <1>5, OutsideKeeps
<1> QED
  BY <1>1, <1>2, <1>3, <1>4, <1>5 DEF Next

(* The inductive invariant holds, in every behaviour.                       *)
THEOREM GuidanceIsSafe == Spec => []GuidanceInv
  BY InitHolds, NextHolds, PTL DEF Spec

(* One strategy drives what AI writes, and activating another never costs   *)
(* the workspace the one it had (activateStrategy, restorePrevious), for    *)
(* any number of people who write, edit, activate and delete at once.       *)
THEOREM StrategyIsKept == Spec => []StrategyKept
<1>1. GuidanceInv => StrategyKept
  <2> SUFFICES ASSUME GuidanceInv
               PROVE  StrategyKept
    OBVIOUS
  <2>1. OneActive
    BY DEF GuidanceInv, StrategyInv
  <2>2. GuidanceTypeOK
    <3>1. \A s \in Ids : strategies[s] \in [version : Nat \ {0}, status : Statuses, revision : Nat]
      BY IdsAre DEF GuidanceInv, StrategyInv, Version
    <3>2. \A w \in DOMAIN workers : workers[w] \in [at : Phases, todo : SUBSET Posts, week : Weeks]
      BY WorkerHere DEF Worker
    <3> QED
      BY <3>1, <3>2 DEF GuidanceTypeOK, GuidanceInv, StrategyInv, VersionsApart, InsightsTyped, ReportsStand
  <2>3. ActivationsKeepOne
    <3> SUFFICES ASSUME \A r \in DOMAIN requests : requests[r].at \in {"new", "done", "lost"},
                        Bereft
                 PROVE  FALSE
      BY DEF ActivationsKeepOne, Bereft
    <3>1. PICK r \in DOMAIN requests : Restores(requests[r])
      BY DEF GuidanceInv, StrategyInv, SomebodyRestores
    <3> QED
      BY <3>1 DEF Restores
  <2> QED
    BY <2>1, <2>2, <2>3 DEF StrategyKept
<1> QED
  BY <1>1, GuidanceIsSafe, PTL

(* The allowance is exceeded by less than there are people and workers to   *)
(* draw on it (assertCanGenerateAI looks, recordUsage counts), and each     *)
(* week has one automatic report, announced only when it is there.          *)
THEOREM NothingIsTwice == Spec => []NothingTwice
<1>1. GuidanceInv => NothingTwice
  <2> SUFFICES ASSUME GuidanceInv
               PROVE  NothingTwice
    OBVIOUS
  <2>1. OneWeeklyReport
    BY DEF GuidanceInv, ReportsStand
  <2>2. AIWithinPlan
    <3>1. /\ Cardinality(Looked) \in Nat /\ Cardinality(Interpreting) \in Nat
          /\ Cardinality(DOMAIN requests) \in Nat /\ Cardinality(DOMAIN workers) \in Nat
      BY LookedAre DEF GuidanceInv
    <3>2. uses \in Nat /\ Quota \in Nat
      BY GuidanceAssumption DEF GuidanceInv, InsightsTyped
    <3>3. uses + Cardinality(Looked) + Cardinality(Interpreting)
            <= Quota + Cardinality(DOMAIN requests) + Cardinality(DOMAIN workers) - 1
      BY DEF GuidanceInv, Spending
    <3> QED
      BY <3>1, <3>2, <3>3, SMT DEF AIWithinPlan
  <2> QED
    BY <2>1, <2>2 DEF NothingTwice
<1> QED
  BY <1>1, GuidanceIsSafe, PTL

-----------------------------------------------------------------------------
(* No generated version is thrown away.                                     *)

Writes(q) == q.what \in {"generate", "regenerate"}

(* What the theorem is about: no more generations at once than tries.       *)
FewWriters ==
  \A opening \in Openings :
    Cardinality({i \in DOMAIN opening.asks : Writes(opening.asks[i])}) <= MaxAttempts

Writers == {r \in DOMAIN requests : Writes(requests[r])}
Finished(r) == {q \in Writers \ {r} : requests[q].at = "done"}

(* Somebody stored a version since this request looked for the latest one.  *)
Overtaken(q) == q.at = "create" /\ \E s \in Stored : strategies[s].version > q.latest

(* A try fails only to another request that has its version: each failed    *)
(* try is another writer's success, and the next failure is one more.       *)
Paid(r) ==
  /\ requests[r].tries <= Cardinality(Finished(r))
  /\ Overtaken(requests[r]) => requests[r].tries + 1 <= Cardinality(Finished(r))
TriesAreOthers == \A r \in DOMAIN requests : Paid(r)
NoneLost == \A r \in DOMAIN requests : requests[r].at # "lost"

WritersInv ==
  GuidanceInv /\ Cardinality(Writers) <= MaxAttempts /\ TriesAreOthers /\ NoneLost

(* Most steps neither look for a number, nor take one, nor edit.            *)
KeepsNumbers(r) ==
  /\ Stepped(r) /\ requests[r].at # "done"
  /\ requests'[r].at \notin {"create", "lost"} /\ requests'[r].tries = requests[r].tries
  /\ Rewritten
PlainStep(r) ==
  KeepsNumbers(r) /\ \A s \in Ids : strategies'[s].revision = strategies[s].revision

LEMMA PlainlyGoes ==
  ASSUME StrategyInv, NEW r \in DOMAIN requests, requests[r].at # "done",
         NEW a \in Ats \ {"create", "lost"}, Goes(r, a), UNCHANGED strategies
  PROVE  PlainStep(r)
<1>1. Stepped(r) /\ requests'[r].at = a /\ SameCount(r)
  BY Here, GoesOn
<1>2. Rewritten
  BY Here, SameStrategies
<1> QED
  BY <1>1, <1>2 DEF PlainStep, KeepsNumbers, SameCount

LEMMA PlainlyMoves ==
  ASSUME StrategyInv, NEW r \in DOMAIN requests, requests[r].at # "done",
         Stepped(r), SameCount(r), requests'[r].at \notin {"create", "lost"}, UNCHANGED strategies
  PROVE  PlainStep(r)
  BY Here, SameStrategies DEF PlainStep, KeepsNumbers, SameCount

LEMMA PlainlyRewrites ==
  ASSUME StrategyInv, NEW r \in DOMAIN requests, requests[r].at # "done",
         NEW a \in Ats \ {"create", "lost"}, Goes(r, a),
         NEW chosen \in SUBSET Stored, NEW status \in {"ACTIVE", "ARCHIVED"},
         strategies' = WithStatus(strategies, chosen, status)
  PROVE  PlainStep(r)
<1>1. Stepped(r) /\ requests'[r].at = a /\ SameCount(r)
  BY Here, GoesOn
<1>2. Rewritten /\ \A s \in Ids : strategies'[s].revision = strategies[s].revision
  BY Here, StatusesSet
<1> QED
  BY <1>1, <1>2 DEF PlainStep, KeepsNumbers, SameCount

LEMMA FindingIsPlain ==
  ASSUME StrategyInv, NEW r \in DOMAIN requests, NEW s \in Ids,
         FindForUpdate(r, s) \/ FindForDelete(r, s) \/ FindForActivation(r, s)
  PROVE  PlainStep(r)
<1>1. s \in Nat /\ strategies[s].status \in Statuses /\ strategies[s].revision \in Nat
  BY Here, IdsAre
<1>2. CASE FindForUpdate(r, s)
  <2>1. PICK seen \in 0 .. strategies[s].revision :
          requests' = [requests EXCEPT ![r].at = "update", ![r].on = s,
                         ![r].saw = strategies[s].status, ![r].revision = seen]
    BY <1>2, Zenon DEF FindForUpdate
  <2>2. PICK status : status = strategies[s].status
    OBVIOUS
  <2>3. requests' = [requests EXCEPT ![r].at = "update", ![r].on = s,
                       ![r].saw = status, ![r].revision = seen]
    BY <2>1, <2>2, Zenon
  <2>4. seen \in Nat
    BY <1>1, <2>1
  <2>5. Stepped(r) /\ requests'[r].at = "update" /\ SameCount(r)
    BY <1>1, <2>2, <2>3, <2>4, AimsToUpdate, Here, Zenon
  <2>6. requests[r].at # "done" /\ UNCHANGED strategies
    BY <1>2 DEF FindForUpdate, OneOf, Is
  <2> QED
    BY <2>5, <2>6, PlainlyMoves
<1>3. CASE FindForDelete(r, s)
  <2>1. requests' = [requests EXCEPT ![r].at = "delete", ![r].on = s]
    BY <1>3, Zenon DEF FindForDelete
  <2>2. Stepped(r) /\ requests'[r].at = "delete" /\ SameCount(r)
    BY <1>1, <2>1, Aims, StepsAreAts, Here, Zenon
  <2>3. requests[r].at # "done" /\ UNCHANGED strategies
    BY <1>3 DEF FindForDelete, OneOf, Is
  <2> QED
    BY <2>2, <2>3, PlainlyMoves
<1>4. CASE FindForActivation(r, s)
  <2>1. requests' = [requests EXCEPT ![r].at = "previous", ![r].on = s]
    BY <1>4, Zenon DEF FindForActivation
  <2>2. Stepped(r) /\ requests'[r].at = "previous" /\ SameCount(r)
    BY <1>1, <2>1, Aims, StepsAreAts, Here, Zenon
  <2>3. requests[r].at # "done" /\ UNCHANGED strategies
    BY <1>4 DEF FindForActivation, OneOf, Is
  <2> QED
    BY <2>2, <2>3, PlainlyMoves
<1> QED
  BY <1>2, <1>3, <1>4

LEMMA ActivatingIsPlain ==
  ASSUME StrategyInv, NEW r \in DOMAIN requests,
         FindPrevious(r) \/ ArchivePrevious(r) \/ Activate(r) \/ RestorePrevious(r)
  PROVE  PlainStep(r)
<1>1. CASE FindPrevious(r)
  <2>1. PICK a, P : /\ a = (IF Active = {} THEN "activate" ELSE "archive") /\ P = Active
    OBVIOUS
  <2>2. requests' = [requests EXCEPT ![r].previous = P, ![r].at = a]
    BY <1>1, <2>1, Zenon DEF FindPrevious
  <2>3. a \in {"activate", "archive"} /\ a \in Ats
    BY <2>1, StepsAreAts
  <2>4. P \subseteq Nat
    BY <2>1, Here, IdsAre DEF Active
  <2>5. Stepped(r) /\ requests'[r].at = a /\ SameCount(r)
    BY <2>2, <2>3, <2>4, Notes, Here, Zenon
  <2>6. requests[r].at # "done" /\ UNCHANGED strategies
    BY <1>1 DEF FindPrevious, Is
  <2> QED
    BY <2>3, <2>5, <2>6, PlainlyMoves
<1>2. CASE ArchivePrevious(r)
  <2>1. /\ requests[r].at # "done" /\ Goes(r, "activate") /\ "activate" \in Ats \ {"create", "lost"}
        /\ strategies' = WithStatus(strategies, requests[r].previous \cap Stored, "ARCHIVED")
    BY <1>2, StepsAreAts DEF ArchivePrevious, Is
  <2> QED
    BY <2>1, PlainlyRewrites
<1>3. CASE Activate(r)
  <2>1. /\ requests[r].at # "done"
        /\ "done" \in Ats \ {"create", "lost"} /\ "restore" \in Ats \ {"create", "lost"}
    BY <1>3, StepsAreAts DEF Activate, Is
  <2>2. \/ /\ Waiting(requests[r].on) /\ Goes(r, "done")
           /\ strategies' = WithStatus(strategies, {requests[r].on}, "ACTIVE")
        \/ Goes(r, "done") /\ UNCHANGED strategies
        \/ Goes(r, "restore") /\ UNCHANGED strategies
    BY <1>3, Zenon DEF Activate, Ends, AfterLoss
  <2>3. Waiting(requests[r].on) => {requests[r].on} \in SUBSET Stored
    BY DEF Waiting
  <2> QED
    BY <2>1, <2>2, <2>3, PlainlyGoes, PlainlyRewrites
<1>4. CASE RestorePrevious(r)
  <2>1. requests[r].at # "done" /\ Goes(r, "done") /\ "done" \in Ats \ {"create", "lost"}
    BY <1>4, StepsAreAts DEF RestorePrevious, Is, Ends
  <2>2. \/ UNCHANGED strategies
        \/ strategies' = WithStatus(strategies, requests[r].previous \cap Stored, "ACTIVE")
    BY <1>4 DEF RestorePrevious
  <2> QED
    BY <2>1, <2>2, PlainlyGoes, PlainlyRewrites
<1> QED
  BY <1>1, <1>2, <1>3, <1>4

LEMMA DeletingIsPlain ==
  ASSUME StrategyInv, NEW r \in DOMAIN requests, Delete(r)
  PROVE  PlainStep(r)
<1> DEFINE s == requests[r].on
           was == strategies[s].status
           becomes == IF was \in Deleted THEN was ELSE IF was = "DRAFT" THEN "DELETED" ELSE "REMOVED"
<1>1. requests[r].at = "delete" /\ Goes(r, "done") /\ s \in Ids
  BY Here DEF Delete, Is, Ends, Fits
<1>2. PICK v : v = [strategies[s] EXCEPT !.status = becomes]
  OBVIOUS
<1>3. strategies' = [strategies EXCEPT ![s] = v]
  BY <1>2, Zenon DEF Delete
<1>4. strategies[s] \in Version /\ was \in Statuses
  BY <1>1, IdsAre, Here
<1>5. becomes \in Deleted /\ becomes \in Statuses /\ (was \in Used => becomes \in Used)
  BY <1>4 DEF Deleted, Statuses, Used
<1> HIDE DEF becomes
<1>6. /\ v \in Version /\ v.version = strategies[s].version /\ v.status = becomes
      /\ v.revision = strategies[s].revision
  BY <1>2, <1>4, <1>5, SMT DEF Version
<1>7. /\ Rewritten /\ strategies'[s] = v
      /\ \A t \in Ids \ {s} : strategies'[t] = strategies[t]
  BY <1>1, <1>3, <1>5, <1>6, OneRewritten, Here
<1>8. Stepped(r) /\ requests'[r].at = "done" /\ SameCount(r)
  BY <1>1, GoesOn, Here, StepsAreAts
<1> QED
  BY <1>1, <1>6, <1>7, <1>8 DEF PlainStep, KeepsNumbers, SameCount

LEMMA OtherStepsArePlain ==
  ASSUME StrategyInv, NEW r \in DOMAIN requests,
         Generate(r) \/ Generated(r) \/ Dies(r) \/ ReportAnswered(r) \/ SaveAsked(r)
  PROVE  PlainStep(r)
<1>1. \A a \in {"generating", "latest", "done", "dead", "save"} : a \in Ats \ {"create", "lost"}
  BY StepsAreAts
<1>2. CASE Generate(r)
  <2>1. requests[r].at # "done" /\ UNCHANGED strategies
        /\ (Goes(r, "generating") \/ Goes(r, "done"))
    BY <1>2 DEF Generate, OneOf, Is
  <2> QED
    BY <1>1, <2>1, PlainlyGoes
<1>3. CASE Generated(r)
  <2>1. requests[r].at # "done" /\ UNCHANGED strategies
        /\ (Goes(r, "latest") \/ Goes(r, "done"))
    BY <1>3 DEF Generated, Is
  <2> QED
    BY <1>1, <2>1, PlainlyGoes
<1>4. CASE Dies(r)
  <2>1. requests[r].at # "done" /\ UNCHANGED strategies /\ Goes(r, "dead")
    BY <1>4 DEF Dies, Is
  <2> QED
    BY <1>1, <2>1, PlainlyGoes
<1>5. CASE ReportAnswered(r)
  <2>1. requests[r].at # "done" /\ UNCHANGED strategies
        /\ \E answer \in Answers : Goes(r, AfterAnswer(answer))
    BY <1>5 DEF ReportAnswered, Is
  <2>2. Goes(r, "save") \/ Goes(r, "done")
    BY <2>1 DEF AfterAnswer
  <2> QED
    BY <1>1, <2>1, <2>2, PlainlyGoes
<1>6. CASE SaveAsked(r)
  <2>1. requests[r].at # "done" /\ UNCHANGED strategies /\ Goes(r, "done")
    BY <1>6 DEF SaveAsked, Is, Ends
  <2> QED
    BY <1>1, <2>1, PlainlyGoes
<1> QED
  BY <1>2, <1>3, <1>4, <1>5, <1>6

LEMMA AskingIsPlain ==
  ASSUME GuidanceInv, NEW r \in DOMAIN requests, AskReport(r)
  PROVE  PlainStep(r)
<1>1. StrategyInv /\ week \in Nat
  BY DEF GuidanceInv, InsightsTyped, Weeks
<1>2. PICK a : a = (IF Enough /\ MayGenerate THEN "asking" ELSE "save")
  OBVIOUS
<1>3. requests' = [requests EXCEPT ![r].week = week, ![r].at = a]
  BY <1>2, Zenon DEF AskReport
<1>4. a \in {"asking", "save"} /\ a \in Ats
  BY <1>2, StepsAreAts
<1>5. PICK n : n = week
  OBVIOUS
<1>6. requests' = [requests EXCEPT ![r].week = n, ![r].at = a] /\ n \in Nat
  BY <1>1, <1>3, <1>5, Zenon
<1>7. Stepped(r) /\ requests'[r].at = a /\ SameCount(r)
  BY <1>1, <1>4, <1>6, AsksForWeek, Here, Zenon
<1>8. requests[r].at # "done" /\ UNCHANGED strategies
  BY DEF AskReport, OneOf, Is
<1> QED
  BY <1>1, <1>4, <1>7, <1>8, PlainlyMoves

(* What a request does in one step.                                         *)
LEMMA StepsOfRequests ==
  ASSUME GuidanceInv, NEW r \in DOMAIN requests,
         Request(r) \/ AskReport(r) \/ ReportAnswered(r) \/ SaveAsked(r)
  PROVE  PlainStep(r) \/ FindLatest(r) \/ CreateVersion(r) \/ Update(r)
<1>1. StrategyInv
  BY DEF GuidanceInv
<1> QED
  BY <1>1, FindingIsPlain, ActivatingIsPlain, DeletingIsPlain, OtherStepsArePlain, AskingIsPlain
  DEF Request

(* An edit is made by who saw the version as it is, the active one by an    *)
(* admin, and changes nothing else.                                         *)
LEMMA UpdateChanges ==
  ASSUME StrategyInv, NEW r \in DOMAIN requests, Update(r)
  PROVE  /\ KeepsNumbers(r) /\ requests'[r].at = "done"
         /\ \A s \in Active : strategies'[s].revision # strategies[s].revision =>
              requests[r].on = s /\ IsAdmin(r)
<1> DEFINE s == requests[r].on
<1>1. requests[r].at = "update" /\ s \in Ids /\ Ends(r) /\ Fits(requests[r])
  BY Here DEF Update, Is, Fits
<1>2. Stepped(r) /\ requests'[r].at = "done" /\ SameCount(r)
  BY <1>1, GoesOn, Here, StepsAreAts DEF Ends
<1>3. CASE ~Unchanged(r)
  <2>1. UNCHANGED strategies
    BY <1>3 DEF Update
  <2> QED
    BY <1>1, <1>2, <2>1, Here, SameStrategies DEF KeepsNumbers, SameCount
<1>4. CASE Unchanged(r)
  <2>1. PICK v : v = [strategies[s] EXCEPT !.revision = strategies[s].revision + 1]
    OBVIOUS
  <2>2. strategies' = [strategies EXCEPT ![s] = v]
    BY <1>4, <2>1, Zenon DEF Update
  <2>3. strategies[s] \in Version
    BY <1>1, IdsAre, Here
  <2>4. v \in Version /\ v.version = strategies[s].version /\ v.status = strategies[s].status
    BY <2>1, <2>3, SMT DEF Version
  <2>5. Rewritten /\ \A t \in Ids \ {s} : strategies'[t] = strategies[t]
    BY <1>1, <2>2, <2>4, OneRewritten, Here
  <2>6. s \in Active => IsAdmin(r)
    BY <1>1, <1>4 DEF Unchanged, Active, Fits, IsAdmin
  <2> QED
    BY <1>1, <1>2, <2>5, <2>6 DEF KeepsNumbers, SameCount, Active
<1> QED
  BY <1>3, <1>4

(* Who has finished has finished, and a writer that ends counts for all     *)
(* the others.                                                              *)
LEMMA FinishedAre ==
  ASSUME GuidanceInv
  PROVE  /\ IsFiniteSet(Writers) /\ Cardinality(Writers) \in Nat
         /\ \A r \in DOMAIN requests :
              /\ IsFiniteSet(Finished(r)) /\ Cardinality(Finished(r)) \in Nat
              /\ r \in Writers => Cardinality(Finished(r)) <= Cardinality(Writers) - 1
<1>1. IsFiniteSet(Writers) /\ Cardinality(Writers) \in Nat
  <2>1. Writers \subseteq DOMAIN requests /\ IsFiniteSet(DOMAIN requests)
    BY DEF GuidanceInv, Spending, Writers
  <2>2. IsFiniteSet(Writers)
    BY <2>1, FS_Subset
  <2> QED
    BY <2>2, FS_CardinalityType
<1>2. ASSUME NEW r \in DOMAIN requests
      PROVE  /\ IsFiniteSet(Finished(r)) /\ Cardinality(Finished(r)) \in Nat
             /\ r \in Writers => Cardinality(Finished(r)) <= Cardinality(Writers) - 1
  <2>1. IsFiniteSet(Writers \ {r})
    BY <1>1, FS_Subset
  <2>2. IsFiniteSet(Finished(r)) /\ Cardinality(Finished(r)) <= Cardinality(Writers \ {r})
    BY <2>1, FS_Subset DEF Finished
  <2>3. r \in Writers => Cardinality(Writers \ {r}) = Cardinality(Writers) - 1
    BY <1>1, FS_RemoveElement
  <2>4. Cardinality(Finished(r)) \in Nat
    BY <2>2, FS_CardinalityType
  <2> QED
    BY <1>1, <2>2, <2>3, <2>4
<1> QED
  BY <1>1, <1>2
LEMMA FinishedGrows ==
  ASSUME GuidanceInv, GuidanceInv', NEW r \in DOMAIN requests, Stepped(r), requests[r].at # "done"
  PROVE  /\ Writers' = Writers
         /\ \A q \in DOMAIN requests :
              /\ Cardinality(Finished(q)) \in Nat /\ Cardinality(Finished(q)') \in Nat
              /\ Cardinality(Finished(q)) <= Cardinality(Finished(q)')
              /\ q # r /\ r \in Writers /\ requests'[r].at = "done"
                   => Cardinality(Finished(q)) + 1 <= Cardinality(Finished(q)')
<1>1. Writers' = Writers
  BY DEF Writers, Writes, Stepped
<1>2. ASSUME NEW q \in DOMAIN requests
      PROVE  /\ Cardinality(Finished(q)) \in Nat /\ Cardinality(Finished(q)') \in Nat
             /\ Cardinality(Finished(q)) <= Cardinality(Finished(q)')
             /\ q # r /\ r \in Writers /\ requests'[r].at = "done"
                  => Cardinality(Finished(q)) + 1 <= Cardinality(Finished(q)')
  <2>1. PICK before, after : before = Finished(q) /\ after = Finished(q)'
    OBVIOUS
  <2>2. IsFiniteSet(before) /\ Cardinality(before) \in Nat
    BY <2>1, FinishedAre
  <2>3. IsFiniteSet(after) /\ Cardinality(after) \in Nat
    <3>1. IsFiniteSet(Writers \ {q})
      BY FinishedAre, FS_Subset
    <3>2. after \subseteq Writers \ {q}
      BY <1>1, <2>1 DEF Finished
    <3> QED
      BY <3>1, <3>2, FS_Subset, FS_CardinalityType
  <2>4. before \subseteq after
    BY <1>1, <2>1 DEF Finished, Stepped, Writers
  <2>5. Cardinality(before) <= Cardinality(after)
    BY <2>3, <2>4, FS_Subset
  <2>6. ASSUME q # r, r \in Writers, requests'[r].at = "done"
        PROVE  Cardinality(before) + 1 <= Cardinality(after)
    <3>1. r \in after /\ r \notin before
      BY <1>1, <2>1, <2>6 DEF Finished
    <3>2. Cardinality(before \cup {r}) = Cardinality(before) + 1
      BY <2>2, <3>1, FS_AddElement
    <3>3. before \cup {r} \subseteq after
      BY <2>4, <3>1
    <3>4. Cardinality(before \cup {r}) <= Cardinality(after)
      BY <2>3, <3>3, FS_Subset
    <3> QED
      BY <3>2, <3>4
  <2> QED
    BY <2>1, <2>2, <2>3, <2>5, <2>6
<1> QED
  BY <1>1, <1>2

(* Nobody else is overtaken unless a version is added.                      *)
LEMMA OvertakenBefore ==
  ASSUME StrategiesTyped, Rewritten, NEW q, Overtaken(q)'
  PROVE  Overtaken(q)
<1>1. Ids' = Ids
  BY SMT DEF Rewritten, Evolves, StrategiesTyped, Ids
<1>2. PICK s \in Stored' : strategies'[s].version > q.latest
  BY DEF Overtaken
<1>3. s \in Stored /\ strategies'[s].version = strategies[s].version
  BY <1>1, <1>2 DEF Rewritten, Stored
<1> QED
  BY <1>2, <1>3 DEF Overtaken

(* What a request waits for does not change with the name it is given.      *)
LEMMA OvertakenOf ==
  ASSUME NEW q, NEW c, requests'[q] = c, Overtaken(requests[q])'
  PROVE  Overtaken(c)'
  BY Zenon

LEMMA OthersPaid ==
  ASSUME WritersInv, GuidanceInv', NEW r \in DOMAIN requests, Stepped(r), requests[r].at # "done",
         Rewritten, NEW q \in DOMAIN requests \ {r}
  PROVE  Paid(q)'
<1>1. PICK c, before, after : /\ c = requests[q]
                              /\ before = Cardinality(Finished(q)) /\ after = Cardinality(Finished(q)')
  OBVIOUS
<1>2. before \in Nat /\ after \in Nat /\ before <= after
  BY <1>1, FinishedGrows DEF WritersInv
<1>3. /\ c.tries \in Nat /\ c.tries <= before
      /\ Overtaken(c) => c.tries + 1 <= before
  BY <1>1, Here DEF WritersInv, TriesAreOthers, Paid, GuidanceInv, Asked
<1>4. requests'[q] = c
  BY <1>1 DEF Stepped
<1>5. Overtaken(c)' => Overtaken(c)
  BY OvertakenBefore, Here DEF WritersInv, GuidanceInv
<1>6. Overtaken(requests[q])' => Overtaken(c)'
  BY <1>4, OvertakenOf
<1> QED
  BY <1>1, <1>2, <1>3, <1>4, <1>5, <1>6, SMT DEF Paid

LEMMA NoneIsLost ==
  ASSUME NoneLost, NEW r \in DOMAIN requests, Stepped(r), requests'[r].at # "lost"
  PROVE  NoneLost'
  BY DEF NoneLost, Stepped

LEMMA NumbersKept ==
  ASSUME WritersInv, GuidanceInv', NEW r \in DOMAIN requests, KeepsNumbers(r)
  PROVE  WritersInv'
<1>1. /\ Stepped(r) /\ requests[r].at # "done" /\ DOMAIN requests' = DOMAIN requests
      /\ Rewritten /\ requests'[r].tries = requests[r].tries
      /\ requests'[r].at \notin {"create", "lost"}
  BY DEF KeepsNumbers, Stepped
<1>2. /\ Writers' = Writers
      /\ Cardinality(Finished(r)) \in Nat /\ Cardinality(Finished(r)') \in Nat
      /\ Cardinality(Finished(r)) <= Cardinality(Finished(r)')
  BY <1>1, FinishedGrows DEF WritersInv
<1>3. requests[r].tries \in Nat /\ requests[r].tries <= Cardinality(Finished(r))
  BY Here DEF WritersInv, TriesAreOthers, Paid, GuidanceInv, Asked
<1>4. Paid(r)'
  <2>1. ~Overtaken(requests[r])'
    BY <1>1 DEF Overtaken
  <2> QED
    BY <1>1, <1>2, <1>3, <2>1, SMT DEF Paid
<1>5. TriesAreOthers'
  BY <1>1, <1>4, OthersPaid DEF TriesAreOthers
<1> QED
  BY <1>1, <1>2, <1>5, NoneIsLost DEF WritersInv

LEMMA LatestIsFound ==
  ASSUME WritersInv, GuidanceInv', NEW r \in DOMAIN requests, FindLatest(r)
  PROVE  WritersInv' /\ Stepped(r) /\ UNCHANGED strategies
<1>1. PICK newest : newest = Max({strategies[s].version : s \in Stored} \cup {0})
  OBVIOUS
<1>2. /\ StrategyInv /\ StrategiesTyped /\ RequestsTyped
      /\ newest \in Nat /\ \A s \in Stored : strategies[s].version <= newest
  BY <1>1, NewestIs DEF WritersInv, GuidanceInv, StrategyInv
<1>3. requests' = [requests EXCEPT ![r].at = "create", ![r].latest = newest]
  BY <1>1, Zenon DEF FindLatest
<1>4. /\ Stepped(r) /\ requests'[r].at = "create" /\ requests'[r].latest = newest
      /\ requests'[r].tries = requests[r].tries
  BY <1>2, <1>3, FindsLatest
<1>5. requests[r].at = "latest" /\ UNCHANGED strategies
  BY DEF FindLatest, Is
<1>6. Stored' = Stored /\ Rewritten
  BY <1>2, <1>5, SameStrategies
<1>7. \A s \in Stored : strategies[s].version \in Nat
  BY <1>2, IdsAre DEF Stored
<1>8. ~Overtaken(requests[r])'
  <2>1. \A s \in Stored' : ~(strategies'[s].version > requests'[r].latest)
    BY <1>2, <1>4, <1>5, <1>6, <1>7
  <2> QED
    BY <2>1 DEF Overtaken
<1>9. /\ Writers' = Writers
      /\ Cardinality(Finished(r)) \in Nat /\ Cardinality(Finished(r)') \in Nat
      /\ Cardinality(Finished(r)) <= Cardinality(Finished(r)')
  BY <1>4, <1>5, FinishedGrows DEF WritersInv
<1>10. requests[r].tries \in Nat /\ requests[r].tries <= Cardinality(Finished(r))
  BY Here DEF WritersInv, TriesAreOthers, Paid, GuidanceInv, Asked
<1>11. Paid(r)'
  BY <1>4, <1>8, <1>9, <1>10, SMT DEF Paid
<1>12. TriesAreOthers'
  BY <1>4, <1>5, <1>6, <1>11, OthersPaid DEF TriesAreOthers, Stepped
<1> QED
  BY <1>4, <1>5, <1>9, <1>12, NoneIsLost DEF WritersInv

(* A number is taken by one writer at a time, and a failed try is never the *)
(* last one: the others who finished are fewer than the tries.              *)
LEMMA VersionIsCreated ==
  ASSUME WritersInv, GuidanceInv', NEW r \in DOMAIN requests, CreateVersion(r)
  PROVE  WritersInv' /\ Stepped(r) /\ \A s \in Ids : strategies'[s] = strategies[s]
<1> DEFINE next == requests[r].latest + 1
<1>1. /\ StrategyInv /\ StrategiesTyped /\ RequestsTyped
      /\ requests[r].at = "create" /\ r \in Writers
      /\ requests[r].latest \in Nat /\ requests[r].latest <= Len(strategies)
      /\ requests[r].tries \in Nat /\ Len(strategies) \in Nat
  BY Here, IdsAre DEF WritersInv, GuidanceInv, CreateVersion, Is, Fits, Writers, Writes, Asked
<1>2. /\ Cardinality(Writers) \in Nat /\ Cardinality(Finished(r)) \in Nat
      /\ Cardinality(Finished(r)) <= Cardinality(Writers) - 1
  BY <1>1, FinishedAre DEF WritersInv
<1>3. MaxAttempts \in Nat /\ Cardinality(Writers) <= MaxAttempts
  BY GuidanceAssumption DEF WritersInv
<1>4. CASE Taken(next)
  <2>1. Overtaken(requests[r])
    <3>1. PICK s \in Stored : strategies[s].version = next
      BY <1>4 DEF Taken
    <3> QED
      BY <1>1, <3>1 DEF Overtaken
  <2>2. requests[r].tries + 1 <= Cardinality(Finished(r))
    BY <2>1 DEF WritersInv, TriesAreOthers, Paid
  <2>3. ~(requests[r].tries + 1 >= GiveUpAt)
    BY <1>1, <1>2, <1>3, <2>2, SMT DEF GiveUpAt
  <2>4. /\ requests' = [requests EXCEPT ![r].tries = @ + 1, ![r].at = "latest"]
        /\ UNCHANGED strategies
    BY <1>4, <2>3, Zenon DEF CreateVersion
  <2>5. /\ Stepped(r) /\ requests'[r].at = "latest"
        /\ requests'[r].tries = requests[r].tries + 1
    BY <1>1, <2>4, TriesAgain, StepsAreAts
  <2>6. /\ Writers' = Writers
        /\ Cardinality(Finished(r)') \in Nat
        /\ Cardinality(Finished(r)) <= Cardinality(Finished(r)')
    BY <1>1, <2>5, FinishedGrows DEF WritersInv
  <2>7. Paid(r)'
    <3>1. ~Overtaken(requests[r])'
      BY <2>5 DEF Overtaken
    <3> QED
      BY <1>1, <1>2, <2>2, <2>5, <2>6, <3>1, SMT DEF Paid
  <2>8. TriesAreOthers'
    <3>1. Rewritten
      BY <1>1, <2>4, SameStrategies
    <3> QED
      BY <1>1, <2>5, <2>7, <3>1, OthersPaid DEF TriesAreOthers, Stepped
  <2> QED
    BY <2>4, <2>5, <2>6, <2>8, NoneIsLost DEF WritersInv
<1>5. CASE ~Taken(next)
  <2>1. strategies' = Append(strategies, Strategy(next, "DRAFT")) /\ Goes(r, "done")
    BY <1>5 DEF CreateVersion, Ends
  <2>2. next \in Nat \ {0} /\ next <= Len(strategies) + 1
    BY <1>1, SMT
  <2>3. \A s \in Ids : strategies'[s] = strategies[s]
    BY <1>1, <1>5, <2>1, <2>2, DraftAdded
  <2>4. Stepped(r) /\ requests'[r].at = "done" /\ SameCount(r)
    BY <1>1, <2>1, GoesOn, StepsAreAts
  <2>5. /\ Writers' = Writers
        /\ Cardinality(Finished(r)') \in Nat
        /\ Cardinality(Finished(r)) <= Cardinality(Finished(r)')
    BY <1>1, <2>4, FinishedGrows DEF WritersInv
  <2>6. Paid(r)'
    <3>1. ~Overtaken(requests[r])'
      BY <2>4 DEF Overtaken
    <3>2. requests[r].tries <= Cardinality(Finished(r))
      BY DEF WritersInv, TriesAreOthers, Paid
    <3> QED
      BY <1>1, <1>2, <2>4, <2>5, <3>1, <3>2, SMT DEF Paid, SameCount
  <2>7. ASSUME NEW q \in DOMAIN requests \ {r}
        PROVE  Paid(q)'
    <3>1. /\ Cardinality(Finished(q)) \in Nat /\ Cardinality(Finished(q)') \in Nat
          /\ Cardinality(Finished(q)) + 1 <= Cardinality(Finished(q)')
      BY <1>1, <2>4, FinishedGrows DEF WritersInv
    <3>2. requests[q].tries \in Nat /\ requests[q].tries <= Cardinality(Finished(q))
      BY Here DEF WritersInv, TriesAreOthers, Paid, GuidanceInv, Asked
    <3>3. requests'[q].tries = requests[q].tries
      BY <2>4 DEF Stepped
    <3> QED
      BY <3>1, <3>2, <3>3, SMT DEF Paid
  <2>8. TriesAreOthers'
    BY <2>4, <2>6, <2>7 DEF TriesAreOthers, Stepped
  <2> QED
    BY <2>3, <2>4, <2>5, <2>8, NoneIsLost DEF WritersInv
<1> QED
  BY <1>4, <1>5

(* A step that leaves strategies and requests alone.                        *)
LEMMA WritersRest ==
  ASSUME WritersInv, GuidanceInv', UNCHANGED strategyVars
  PROVE  WritersInv'
<1>1. strategies' = strategies /\ requests' = requests
  BY DEF strategyVars
<1>2. Writers' = Writers /\ NoneLost'
  BY <1>1 DEF WritersInv, Writers, NoneLost
<1>3. Stored' = Stored
  BY <1>1 DEF Stored, Ids
<1>4. TriesAreOthers'
  BY <1>1, <1>2, <1>3 DEF WritersInv, TriesAreOthers, Paid, Finished, Overtaken
<1> QED
  BY <1>2, <1>4 DEF WritersInv

(* What a step may do: the active strategy is edited by admins only, and    *)
(* nothing is given up.                                                     *)
Respects ==
  /\ \A s \in Active : strategies'[s].revision # strategies[s].revision =>
       \E r \in DOMAIN requests :
         Is(r, "update") /\ requests[r].on = s /\ IsAdmin(r) /\ requests'[r].at = "done"
  /\ \A r \in DOMAIN requests : requests'[r].at # "lost"

LEMMA WritersStep ==
  ASSUME WritersInv, GuidanceInv', [Next]_vars
  PROVE  WritersInv' /\ Respects
<1>1. StrategyInv /\ NoneLost
  BY DEF WritersInv, GuidanceInv
<1>2. CASE UNCHANGED strategyVars
  <2>1. strategies' = strategies /\ requests' = requests
    BY <1>2 DEF strategyVars
  <2> QED
    BY <1>1, <1>2, <2>1, WritersRest DEF Respects, NoneLost
<1>3. ASSUME NEW r \in DOMAIN requests,
             Request(r) \/ AskReport(r) \/ ReportAnswered(r) \/ SaveAsked(r)
      PROVE  WritersInv' /\ Respects
  <2>1. Stepped(r) /\ WritersInv' => \A q \in DOMAIN requests : requests'[q].at # "lost"
    BY DEF WritersInv, NoneLost, Stepped
  <2>2. CASE PlainStep(r)
    <3>1. WritersInv'
      BY <2>2, NumbersKept DEF PlainStep
    <3> QED
      BY <2>1, <2>2, <3>1 DEF PlainStep, KeepsNumbers, Respects, Active
  <2>3. CASE FindLatest(r)
    <3>1. WritersInv' /\ Stepped(r) /\ UNCHANGED strategies
      BY <2>3, LatestIsFound
    <3> QED
      BY <2>1, <3>1 DEF Respects
  <2>4. CASE CreateVersion(r)
    <3>1. WritersInv' /\ Stepped(r) /\ \A s \in Ids : strategies'[s] = strategies[s]
      BY <2>4, VersionIsCreated
    <3> QED
      BY <2>1, <3>1 DEF Respects, Active
  <2>5. CASE Update(r)
    <3>1. /\ KeepsNumbers(r) /\ requests'[r].at = "done"
          /\ \A s \in Active : strategies'[s].revision # strategies[s].revision =>
               requests[r].on = s /\ IsAdmin(r)
      BY <1>1, <2>5, UpdateChanges
    <3>2. WritersInv' /\ Is(r, "update")
      BY <2>5, <3>1, NumbersKept DEF Update
    <3> QED
      BY <2>1, <3>1, <3>2 DEF Respects, KeepsNumbers
  <2> QED
    BY <1>3, <2>2, <2>3, <2>4, <2>5, StepsOfRequests DEF WritersInv
<1>4. CASE UNCHANGED vars
  BY <1>2, <1>4 DEF vars, strategyVars
<1> QED
  BY <1>2, <1>3, <1>4, Zenon DEF Next, StrategiesStep

LEMMA WritersBegin ==
  ASSUME FewWriters, Init
  PROVE  WritersInv
<1>1. /\ requests \in [DOMAIN requests -> Asked]
      /\ \A r \in DOMAIN requests : requests[r].at = "new" /\ requests[r].tries = 0
  BY FirstRequests
<1>2. GuidanceInv
  BY InitHolds
<1>3. PICK opening \in Openings : requests = opening.asks
  BY Begins
<1>4. Writers = {i \in DOMAIN opening.asks : Writes(opening.asks[i])}
  BY <1>3 DEF Writers
<1>5. Cardinality(Writers) <= MaxAttempts
  BY <1>3, <1>4 DEF FewWriters
<1>6. ASSUME NEW r \in DOMAIN requests
      PROVE  Paid(r)
  <2>1. Cardinality(Finished(r)) \in Nat
    BY <1>2, FinishedAre
  <2>2. ~Overtaken(requests[r])
    BY <1>1 DEF Overtaken
  <2> QED
    BY <1>1, <2>1, <2>2, SMT DEF Paid
<1> QED
  BY <1>1, <1>2, <1>5, <1>6 DEF WritersInv, TriesAreOthers, NoneLost

(* An edit never lands on an active strategy its editor saw as a draft      *)
(* (updateStrategy), and with no more generations at once than tries at a   *)
(* number every one of them is stored (MAX_VERSION_ATTEMPTS), whatever is   *)
(* deleted, activated and edited meanwhile.                                 *)
THEOREM WorkIsNeverLost ==
  ASSUME FewWriters
  PROVE  Spec => WorkIsKept
<1>1. Init => WritersInv
  BY WritersBegin
<1>2. WritersInv /\ [Next]_vars => WritersInv' /\ Respects
  <2>1. WritersInv /\ [Next]_vars => GuidanceInv'
    BY NextHolds DEF WritersInv
  <2> QED
    BY <2>1, WritersStep
<1>3. Respects =>
        [\A s \in Active : strategies'[s].revision # strategies[s].revision =>
           \E r \in DOMAIN requests :
             Is(r, "update") /\ requests[r].on = s /\ IsAdmin(r) /\ requests'[r].at = "done"]_vars
  BY DEF Respects
<1>4. Respects => [\A r \in DOMAIN requests : requests'[r].at # "lost"]_vars
  BY DEF Respects
<1> QED
  BY <1>1, <1>2, <1>3, <1>4, PTL DEF Spec, WorkIsKept, EditorsLeaveActiveAlone, GeneratedIsStored
=============================================================================
