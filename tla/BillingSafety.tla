---------------------------- MODULE BillingSafety ----------------------------
(***************************************************************************)
(* Proofs about billing accounts, for any number of webhook handlers,      *)
(* subscriptions, failures, crashes and requests.                          *)
(***************************************************************************)
EXTENDS Billing, TLAPS

-----------------------------------------------------------------------------
(* The inductive invariant.                                                *)

Sub == [status : {"active", "past_due", "canceled"}, rev : Nat]
SubCopy == [id : Nat, status : Statuses, rev : Nat]
Kinds == {"changed", "failed"}
Event == [sub : Nat, kind : Kinds,
          record : {"none", "PROCESSING", "OVERDUE", "FAILED", "PROCESSED"}]
JobSteps == {"idle", "fetch", "load", "list", "save", "failure", "open", "act", "settle"}
Purposes == {"none", "changed", "failed", "reconcile", "refresh", "checkout", "confirm", "change"}
Job == [pc : JobSteps, purpose : Purposes, event : Nat, copy : SubCopy, stored : SubCopy,
        failing : BOOLEAN, current : BOOLEAN, attempt : 1..3]

BillingTyped ==
  /\ stripe \in Seq(Sub)
  /\ events \in Seq(Event)
  /\ account \in [sub : SubCopy, failing : BOOLEAN]
  /\ syncs \in [Syncers -> Job]

(* Events and the stored copy are of subscriptions that Stripe has.         *)
Related ==
  /\ account.sub.id \in 0..Len(stripe)
  /\ \A e \in DOMAIN events : events[e].sub \in Subs

(* Where the account was read before Stripe was asked.                      *)
Listing == {"refresh", "checkout"}
(* The step of a synchronisation, with what it holds.  While no other save *)
(* came in between, what it compared with the copy is what is stored.      *)
Placed(j, job) ==
  /\ job.pc \in {"fetch", "save", "failure", "act"} => job.copy.id \in Subs
  /\ job.pc = "load" /\ job.purpose \notin Listing => job.copy.id \in Subs
  /\ job.pc = "list" => job.purpose \in Listing
  /\ job.event # 0 <=> j \in Handlers /\ job.pc # "idle"
UpToDate(job) ==
  /\ job.pc = "list" /\ job.current => job.stored = account.sub
  /\ job.pc = "save" /\ job.current => ~Ignored(account.sub, job.copy)
Fits(j, job) == Placed(j, job) /\ UpToDate(job)
SyncsFit == \A j \in Syncers : Fits(j, syncs[j])

BillingInv == BillingTyped /\ Related /\ SyncsFit

-----------------------------------------------------------------------------
(* Types.                                                                  *)

LEMMA NoSubTyped == NoSub \in SubCopy
  BY SMT DEF NoSub, SubCopy, Statuses

LEMMA NoSyncTyped == NoSync \in Job
  BY NoSubTyped, SMT DEF NoSync, Job, JobSteps, Purposes

LEMMA NoSyncFields ==
  NoSync.pc = "idle" /\ NoSync.event = 0 /\ ~NoSync.current /\ NoSync.purpose = "none"
  BY SMT DEF NoSync

(* Fields are put back one by one.                                          *)
LEMMA FieldsTyped ==
  ASSUME NEW job \in Job
  PROVE  /\ \A step \in JobSteps : [job EXCEPT !.pc = step] \in Job
         /\ \A purpose \in Purposes : [job EXCEPT !.purpose = purpose] \in Job
         /\ \A e \in Nat : [job EXCEPT !.event = e] \in Job
         /\ \A copy \in SubCopy : [job EXCEPT !.copy = copy] \in Job
         /\ \A id \in Nat : [job EXCEPT !.copy.id = id] \in Job
         /\ \A copy \in SubCopy : [job EXCEPT !.stored = copy] \in Job
         /\ \A b \in BOOLEAN : [job EXCEPT !.failing = b] \in Job
         /\ \A b \in BOOLEAN : [job EXCEPT !.current = b] \in Job
         /\ \A n \in 1..3 : [job EXCEPT !.attempt = n] \in Job
<1>1. /\ \A step \in JobSteps : [job EXCEPT !.pc = step] \in Job
      /\ \A purpose \in Purposes : [job EXCEPT !.purpose = purpose] \in Job
      /\ \A e \in Nat : [job EXCEPT !.event = e] \in Job
  BY SMT DEF Job
<1>2. /\ \A copy \in SubCopy : [job EXCEPT !.copy = copy] \in Job
      /\ \A copy \in SubCopy : [job EXCEPT !.stored = copy] \in Job
  BY SMT DEF Job
<1>3. /\ \A b \in BOOLEAN : [job EXCEPT !.failing = b] \in Job
      /\ \A b \in BOOLEAN : [job EXCEPT !.current = b] \in Job
      /\ \A n \in 1..3 : [job EXCEPT !.attempt = n] \in Job
  BY SMT DEF Job
<1>4. ASSUME NEW id \in Nat
      PROVE  [job EXCEPT !.copy.id = id] \in Job
  <2>1. job.copy \in SubCopy
    BY SMT DEF Job
  <2>2. [job.copy EXCEPT !.id = id] \in SubCopy
    BY <2>1, SMT DEF SubCopy
  <2>3. [job EXCEPT !.copy.id = id] = [job EXCEPT !.copy = [job.copy EXCEPT !.id = id]]
    BY SMT DEF Job
  <2> QED
    BY <1>2, <2>2, <2>3, Zenon
<1> QED
  BY <1>1, <1>2, <1>3, <1>4

LEMMA StepsTyped ==
  /\ \A step \in {"idle", "fetch", "load", "list", "save", "failure", "open", "act", "settle"} :
       step \in JobSteps
  /\ \A purpose \in {"none", "changed", "failed", "reconcile", "refresh", "checkout", "confirm",
                     "change"} : purpose \in Purposes
  BY DEF JobSteps, Purposes

LEMMA CopyTyped ==
  ASSUME BillingInv, NEW s \in Subs
  PROVE  Copy(s) \in SubCopy /\ Copy(s).id = s /\ s \in Nat
<1>1. s \in Nat /\ stripe[s] \in Sub
  BY SMT DEF BillingInv, BillingTyped, Subs
<1>2. stripe[s].status \in Statuses /\ stripe[s].rev \in Nat
  BY <1>1, SMT DEF Sub, Statuses
<1> QED
  BY <1>1, <1>2, SMT DEF Copy, SubCopy

(* The typed parts of the account and of a synchronisation.                *)
LEMMA Here ==
  ASSUME BillingInv, NEW j \in Syncers
  PROVE  /\ syncs[j] \in Job /\ Fits(j, syncs[j])
         /\ account.sub \in SubCopy /\ account.failing \in BOOLEAN
  BY SMT DEF BillingInv, BillingTyped, SyncsFit

-----------------------------------------------------------------------------
(* What a save or an ignored copy continues with.                          *)

LEMMA ContinueFits ==
  ASSUME NEW job \in Job, NEW sub, NEW next, next = Continue(job, sub)
  PROVE  /\ next \in Job /\ ~next.current
         /\ next.pc \in {"idle", "settle", "failure", "open", "act"}
         /\ next.pc = "idle" => next.event = 0
         /\ next.pc # "idle" => next.event = job.event /\ next.copy.id = job.copy.id
         /\ next.pc \in {"failure", "act"} => job.purpose \in {"failed", "change"}
<1> DEFINE step == After(job.purpose, sub)
<1>1. /\ step \in {"idle", "settle", "failure", "open", "act"}
      /\ step \in {"failure", "act"} => job.purpose \in {"failed", "change"}
  BY SMT DEF After
<1>2. next = IF step = "idle" THEN NoSync
             ELSE [NoSync EXCEPT !.pc = step, !.purpose = job.purpose,
                     !.event = job.event, !.copy.id = job.copy.id]
  BY DEF Continue
<1> HIDE DEF step
<1>3. CASE step = "idle"
  BY <1>2, <1>3, NoSyncTyped, NoSyncFields, SMT
<1>4. CASE step # "idle"
  <2>1. job.purpose \in Purposes /\ job.event \in Nat /\ job.copy.id \in Nat
    BY SMT DEF Job, SubCopy
  <2>2. step \in JobSteps
    BY <1>1, StepsTyped
  <2>3. next = [NoSync EXCEPT !.pc = step, !.purpose = job.purpose, !.event = job.event,
                              !.copy.id = job.copy.id]
    BY <1>2, <1>4
  <2>4. next \in Job
    <3>1. PICK stepped \in Job : stepped = [NoSync EXCEPT !.pc = step]
      BY <2>2, NoSyncTyped, FieldsTyped, Zenon
    <3>2. PICK meant \in Job : meant = [stepped EXCEPT !.purpose = job.purpose]
      BY <2>1, FieldsTyped, Zenon
    <3>3. PICK told \in Job : told = [meant EXCEPT !.event = job.event]
      BY <2>1, FieldsTyped, Zenon
    <3>4. next = [told EXCEPT !.copy.id = job.copy.id]
      BY <2>3, <3>1, <3>2, <3>3, SMT DEF NoSync, NoSub
    <3> QED
      BY <2>1, <3>4, FieldsTyped, Zenon
  <2>5. /\ next.pc = step /\ next.event = job.event /\ next.copy.id = job.copy.id
        /\ next.current = FALSE
    BY <2>3, SMT DEF NoSync, NoSub
  <2> QED
    BY <1>1, <1>4, <2>4, <2>5
<1> QED
  BY <1>3, <1>4

(* A copy compared with what was loaded.                                   *)
LEMMA ComparedFits ==
  ASSUME NEW job \in Job, NEW copy \in SubCopy, NEW next, next = Compared(job, copy),
         copy.id \in Subs, job.purpose \notin Listing => job.copy.id \in Subs,
         NEW j \in Syncers, job.event # 0 <=> j \in Handlers, job.current => job.stored = account.sub
  PROVE  next \in Job /\ Fits(j, next)
<1>1. CASE Ignored(job.stored, copy)
  <2>1. next = Continue(job, job.stored)
    BY <1>1 DEF Compared
  <2>2. /\ next \in Job /\ ~next.current
        /\ next.pc \in {"idle", "settle", "failure", "open", "act"}
        /\ next.pc = "idle" => next.event = 0
        /\ next.pc # "idle" => next.event = job.event /\ next.copy.id = job.copy.id
        /\ next.pc \in {"failure", "act"} => job.purpose \in {"failed", "change"}
    BY <2>1, ContinueFits
  <2>3. Placed(j, next)
    BY <2>2, SMT DEF Placed, Listing
  <2>4. UpToDate(next)
    BY <2>2, SMT DEF UpToDate
  <2> QED
    BY <2>2, <2>3, <2>4 DEF Fits
<1>2. CASE ~Ignored(job.stored, copy)
  <2>1. next = [job EXCEPT !.pc = "save", !.copy = copy, !.stored = NoSub]
    BY <1>2 DEF Compared
  <2>2. next \in Job
    <3>1. PICK saving \in Job : saving = [job EXCEPT !.pc = "save"]
      BY StepsTyped, FieldsTyped, Zenon
    <3>2. PICK copied \in Job : copied = [saving EXCEPT !.copy = copy]
      BY FieldsTyped, Zenon
    <3>3. next = [copied EXCEPT !.stored = NoSub]
      BY <2>1, <3>1, <3>2, Zenon
    <3> QED
      BY <3>3, NoSubTyped, FieldsTyped, Zenon
  <2>3. next.pc = "save" /\ next.copy = copy /\ next.event = job.event /\ next.current = job.current
    BY <2>1, SMT DEF Job
  <2>4. Placed(j, next)
    BY <2>3, SMT DEF Placed
  <2>5. UpToDate(next)
    BY <1>2, <2>3, Zenon DEF UpToDate
  <2> QED
    BY <2>2, <2>4, <2>5 DEF Fits
<1> QED
  BY <1>1, <1>2

-----------------------------------------------------------------------------
(* Steps.                                                                  *)

(* Another subscription, or a change of one, at Stripe.                     *)
LEMMA StripeMoves ==
  ASSUME BillingInv, NEW s, NEW kind \in Kinds,
         \/ stripe' = Append(stripe, [status |-> "active", rev |-> 0]) /\ s = Len(stripe) + 1
         \/ s \in Subs /\ \E sub \in Sub : stripe' = [stripe EXCEPT ![s] = sub],
         Emit(s, kind)
  PROVE  /\ stripe' \in Seq(Sub) /\ events' \in Seq(Event)
         /\ Subs \subseteq Subs'
         /\ account.sub.id \in 0..Len(stripe')
         /\ \A e \in DOMAIN events' : events'[e].sub \in Subs'
<1>1. stripe \in Seq(Sub) /\ events \in Seq(Event) /\ Subs = 1..Len(stripe)
  BY SMT DEF BillingInv, BillingTyped, Subs
<1>2. stripe' \in Seq(Sub) /\ Len(stripe) <= Len(stripe') /\ s \in 1..Len(stripe') /\ Subs' = 1..Len(stripe')
  <2>1. CASE stripe' = Append(stripe, [status |-> "active", rev |-> 0]) /\ s = Len(stripe) + 1
    <3>1. [status |-> "active", rev |-> 0] \in Sub
      BY SMT DEF Sub
    <3> QED
      BY <1>1, <2>1, <3>1, SMT DEF Subs
  <2>2. ASSUME s \in Subs, NEW sub \in Sub, stripe' = [stripe EXCEPT ![s] = sub]
        PROVE  stripe' \in Seq(Sub) /\ Len(stripe) <= Len(stripe') /\ s \in 1..Len(stripe')
               /\ Subs' = 1..Len(stripe')
    <3>1. s \in 1..Len(stripe)
      BY <1>1, <2>2
    <3>2. stripe' \in Seq(Sub) /\ Len(stripe') = Len(stripe)
      BY <1>1, <2>2, <3>1, SMT
    <3>3. Subs' = 1..Len(stripe')
      BY <3>2, SMT DEF Subs
    <3> QED
      BY <1>1, <3>1, <3>2, <3>3, SMT
  <2> QED
    BY <2>1, <2>2
<1> DEFINE event == [sub |-> s, kind |-> kind, record |-> "none"]
<1>3. event \in Event /\ event.sub = s
  BY <1>2, SMT DEF Event
<1>4. events' = Append(events, event)
  BY DEF Emit
<1> HIDE DEF event
<1>5. events' \in Seq(Event)
  BY <1>1, <1>3, <1>4, SMT
<1>6. \A e \in DOMAIN events' :
        (e \in DOMAIN events /\ events'[e] = events[e]) \/ events'[e] = event
  BY <1>1, <1>3, <1>4, SMT
<1>7. \A e \in DOMAIN events : events[e].sub \in 1..Len(stripe)
  BY <1>1, SMT DEF BillingInv, Related
<1>8. \A e \in DOMAIN events' : events'[e].sub \in 1..Len(stripe')
  <2> SUFFICES ASSUME NEW e \in DOMAIN events'
               PROVE  events'[e].sub \in 1..Len(stripe')
    OBVIOUS
  <2>1. CASE e \in DOMAIN events /\ events'[e] = events[e]
    BY <1>1, <1>2, <1>7, <2>1, SMT
  <2>2. CASE events'[e] = event
    BY <1>2, <1>3, <2>2
  <2> QED
    BY <1>6, <2>1, <2>2
<1>9. account.sub.id \in 0..Len(stripe')
  BY <1>1, <1>2, SMT DEF BillingInv, Related
<1> QED
  BY <1>1, <1>2, <1>5, <1>8, <1>9, SMT

(* The row of an event says how it stands.                                 *)
LEMMA RowMoves ==
  ASSUME BillingInv, NEW e \in Nat,
         NEW status \in {"none", "PROCESSING", "OVERDUE", "FAILED", "PROCESSED"},
         Record(e, status)
  PROVE  /\ events' \in Seq(Event) /\ DOMAIN events' = DOMAIN events
         /\ \A d \in DOMAIN events : events'[d].sub = events[d].sub
<1>1. events \in Seq(Event)
  BY DEF BillingInv, BillingTyped
<1>2. CASE e = 0 \/ e \notin DOMAIN events
  <2>1. events' = events
    BY <1>1, <1>2, SMT DEF Record
  <2> QED
    BY <1>1, <2>1
<1>3. CASE e # 0 /\ e \in DOMAIN events
  <2>1. PICK event : event = [events[e] EXCEPT !.record = status]
    OBVIOUS
  <2>2. events' = [events EXCEPT ![e] = event]
    BY <1>3, <2>1, SMT DEF Record
  <2>3. events[e] \in Event
    BY <1>1, <1>3, SMT
  <2>4. event \in Event /\ event.sub = events[e].sub
    BY <2>1, <2>3, SMT DEF Event
  <2> QED
    BY <1>1, <1>3, <2>2, <2>4, SMT
<1> QED
  BY <1>2, <1>3

LEMMA PlacedKept ==
  ASSUME BillingInv, NEW j \in Syncers, NEW job, Placed(j, job), Subs \subseteq Subs'
  PROVE  Placed(j, job)'
  BY SMT DEF Placed

LEMMA UpToDateKept ==
  ASSUME NEW job, UpToDate(job), account'.sub = account.sub
  PROVE  UpToDate(job)'
  BY Zenon DEF UpToDate, Ignored, Live

(* What is known of a record is known of the synchronisation in that state. *)
LEMMA FitsOf ==
  ASSUME NEW j \in Syncers, NEW job, syncs'[j] = job, Fits(j, job)'
  PROVE  Fits(j, syncs[j])'
  BY SMT DEF Fits, Placed, UpToDate

(* A step of one synchronisation, beside Stripe, events and failures.      *)
LEMMA SyncStep ==
  ASSUME BillingInv, NEW j \in Syncers, NEW job \in Job, Fits(j, job)',
         syncs' = [syncs EXCEPT ![j] = job],
         stripe' \in Seq(Sub), Subs \subseteq Subs', events' \in Seq(Event),
         account' \in [sub : SubCopy, failing : BOOLEAN], account'.sub = account.sub, Related'
  PROVE  BillingInv'
<1>1. /\ syncs' \in [Syncers -> Job] /\ syncs'[j] = job
      /\ \A i \in Syncers \ {j} : syncs'[i] = syncs[i]
  BY Zenon DEF BillingInv, BillingTyped
<1>2. ASSUME NEW i \in Syncers
      PROVE  Fits(i, syncs[i])'
  <2>1. CASE i = j
    BY <1>1, <2>1, FitsOf, Zenon
  <2>2. CASE i # j
    <3>1. PICK other : other = syncs[i] /\ Fits(i, other)
      BY Here, Zenon
    <3>2. Fits(i, other)'
      BY <3>1, PlacedKept, UpToDateKept, Zenon DEF Fits
    <3> QED
      BY <1>1, <2>2, <3>1, <3>2, FitsOf, Zenon
  <2> QED
    BY <2>1, <2>2
<1> QED
  BY <1>1, <1>2, Zenon DEF BillingInv, BillingTyped, SyncsFit

(* A step of one synchronisation that may record how its event stands.      *)
Rows == {"none", "PROCESSING", "OVERDUE", "FAILED", "PROCESSED"}
Recorded == events' = events \/ \E e \in Nat, status \in Rows : Record(e, status)

LEMMA RecordedTyped ==
  ASSUME BillingInv, Recorded, UNCHANGED <<stripe, account>>
  PROVE  /\ events' \in Seq(Event) /\ stripe' \in Seq(Sub) /\ Subs' = Subs
         /\ account' \in [sub : SubCopy, failing : BOOLEAN]
         /\ Related'
<1>1. /\ events' \in Seq(Event) /\ DOMAIN events' = DOMAIN events
      /\ \A d \in DOMAIN events : events'[d].sub = events[d].sub
  <2>1. CASE events' = events
    BY <2>1, SMT DEF BillingInv, BillingTyped
  <2>2. ASSUME NEW e \in Nat, NEW status \in Rows, Record(e, status)
        PROVE  /\ events' \in Seq(Event) /\ DOMAIN events' = DOMAIN events
               /\ \A d \in DOMAIN events : events'[d].sub = events[d].sub
    BY <2>2, RowMoves DEF Rows
  <2> QED
    BY <2>1, <2>2, Zenon DEF Recorded
<1>2. Subs' = Subs
  BY DEF Subs
<1>3. Related'
  BY <1>1, <1>2, SMT DEF Related, BillingInv
<1> QED
  BY <1>1, <1>2, <1>3 DEF BillingInv, BillingTyped

LEMMA RowStep ==
  ASSUME BillingInv, NEW j \in Syncers, NEW job \in Job, Fits(j, job),
         syncs' = [syncs EXCEPT ![j] = job], Recorded, UNCHANGED <<stripe, account>>
  PROVE  BillingInv'
<1>1. /\ events' \in Seq(Event) /\ stripe' \in Seq(Sub) /\ Subs \subseteq Subs'
      /\ account' \in [sub : SubCopy, failing : BOOLEAN] /\ account'.sub = account.sub
      /\ Related'
  BY RecordedTyped
<1>2. Fits(j, job)'
  BY <1>1, PlacedKept, UpToDateKept, Zenon DEF Fits
<1> QED
  BY <1>1, <1>2, SyncStep

(* Steps of no synchronisation.                                            *)
LEMMA StayStep ==
  ASSUME BillingInv, syncs' = syncs, stripe' \in Seq(Sub), Subs \subseteq Subs',
         events' \in Seq(Event), account' = account, Related'
  PROVE  BillingInv'
<1>1. USER \in Syncers
  BY DEF Syncers
<1>2. PICK job \in Job : job = syncs[USER] /\ Fits(USER, job)
  BY <1>1, Here, Zenon
<1>3. Fits(USER, job)'
  BY <1>1, <1>2, PlacedKept, UpToDateKept, Zenon DEF Fits
<1>4. syncs' = [syncs EXCEPT ![USER] = job]
  BY <1>1, <1>2, Zenon DEF BillingInv, BillingTyped
<1>5. account' \in [sub : SubCopy, failing : BOOLEAN] /\ account'.sub = account.sub
  BY DEF BillingInv, BillingTyped
<1> QED
  BY <1>1, <1>3, <1>4, <1>5, SyncStep

(* What is started, finished or failed.                                    *)
LEMMA NoSyncFits == ASSUME NEW j \in Syncers PROVE Fits(j, NoSync)
  BY NoSyncFields, SMT DEF Fits, Placed, UpToDate

LEMMA StartFits ==
  ASSUME NEW j \in Syncers, NEW purpose \in Purposes, NEW e \in Nat, NEW s \in Nat, s \in Subs,
         e # 0 <=> j \in Handlers, Start(j, purpose, e, s)
  PROVE  \E job \in Job : Fits(j, job) /\ job.pc = "fetch" /\ job.copy.id = s /\ job.event = e
                          /\ syncs' = [syncs EXCEPT ![j] = job]
<1>1. PICK job : job = [NoSync EXCEPT !.pc = "fetch", !.purpose = purpose, !.event = e, !.copy.id = s]
  OBVIOUS
<1>2. syncs' = [syncs EXCEPT ![j] = job]
  BY <1>1, Zenon DEF Start
<1>3. job \in Job
  <2>1. PICK stepped \in Job : stepped = [NoSync EXCEPT !.pc = "fetch"]
    BY StepsTyped, NoSyncTyped, FieldsTyped, Zenon
  <2>2. PICK meant \in Job : meant = [stepped EXCEPT !.purpose = purpose]
    BY FieldsTyped, Zenon
  <2>3. PICK told \in Job : told = [meant EXCEPT !.event = e]
    BY FieldsTyped, Zenon
  <2>4. job = [told EXCEPT !.copy.id = s]
    BY <1>1, <2>1, <2>2, <2>3, SMT DEF NoSync, NoSub
  <2> QED
    BY <2>4, FieldsTyped, Zenon
<1>4. job.pc = "fetch" /\ job.copy.id = s /\ job.event = e /\ ~job.current
  BY <1>1, SMT DEF NoSync, NoSub
<1>5. Fits(j, job)
  BY <1>4, SMT DEF Fits, Placed, UpToDate
<1> QED
  BY <1>2, <1>3, <1>4, <1>5

LEMMA FinishStep ==
  ASSUME BillingInv, NEW j \in Syncers, Finish(j), Recorded, UNCHANGED <<stripe, account>>
  PROVE  BillingInv'
  BY NoSyncTyped, NoSyncFits, RowStep, Zenon DEF Finish

LEMMA FailStep ==
  ASSUME BillingInv, NEW j \in Syncers, Fail(j), UNCHANGED <<stripe, account>>
  PROVE  BillingInv'
<1>1. syncs[j].event \in Nat
  BY Here, SMT DEF Job
<1>2. Recorded
  BY <1>1, Zenon DEF Fail, Recorded, Rows
<1> QED
  BY <1>2, FinishStep, Zenon DEF Fail

LEMMA StripeStep ==
  ASSUME BillingInv, Pay \/ \E s \in Subs : Change(s)
  PROVE  BillingInv'
<1>1. PICK s, kind :
        /\ kind \in Kinds
        /\ \/ stripe' = Append(stripe, [status |-> "active", rev |-> 0]) /\ s = Len(stripe) + 1
           \/ s \in Subs /\ \E sub \in Sub : stripe' = [stripe EXCEPT ![s] = sub]
        /\ Emit(s, kind)
  <2>1. CASE Pay
    <3>1. stripe' = Append(stripe, [status |-> "active", rev |-> 0]) /\ Emit(Len(stripe) + 1, "changed")
      BY <2>1, Zenon DEF Pay
    <3>2. PICK s : s = Len(stripe) + 1
      OBVIOUS
    <3>3. "changed" \in Kinds
      BY DEF Kinds
    <3>4. stripe' = Append(stripe, [status |-> "active", rev |-> 0]) /\ s = Len(stripe) + 1 /\ Emit(s, "changed")
      BY <3>1, <3>2
    <3> QED
      BY <3>3, <3>4, Zenon
  <2>2. ASSUME NEW s \in Subs, Change(s)
        PROVE  \E kind \in Kinds :
          /\ s \in Subs /\ \E sub \in Sub : stripe' = [stripe EXCEPT ![s] = sub]
          /\ Emit(s, kind)
    <3>1. PICK status \in MayBecome[stripe[s].status] :
            /\ stripe' = [stripe EXCEPT ![s] = [status |-> status, rev |-> @.rev + 1]]
            /\ Emit(s, IF status = "past_due" THEN "failed" ELSE "changed")
      BY <2>2, Zenon DEF Change
    <3>2. stripe[s] \in Sub
      BY SMT DEF BillingInv, BillingTyped, Subs
    <3>3. status \in {"active", "past_due", "canceled"} /\ stripe[s].rev + 1 \in Nat
      BY <3>1, <3>2, SMT DEF MayBecome, Sub
    <3>4. PICK sub : sub = [status |-> status, rev |-> stripe[s].rev + 1]
      OBVIOUS
    <3>5. sub \in Sub
      BY <3>3, <3>4, SMT DEF Sub
    <3>6. stripe' = [stripe EXCEPT ![s] = sub]
      BY <3>1, <3>4, Zenon
    <3>7. PICK kind \in Kinds : kind = IF status = "past_due" THEN "failed" ELSE "changed"
      BY DEF Kinds
    <3>8. Emit(s, kind)
      BY <3>1, <3>7
    <3> QED
      BY <2>2, <3>5, <3>6, <3>7, <3>8, Zenon
  <2> QED
    BY <2>1, <2>2
<1>2. /\ stripe' \in Seq(Sub) /\ events' \in Seq(Event) /\ Subs \subseteq Subs'
      /\ account.sub.id \in 0..Len(stripe')
      /\ \A e \in DOMAIN events' : events'[e].sub \in Subs'
  BY <1>1, StripeMoves, Zenon
<1>3. account' = account /\ syncs' = syncs
  BY Zenon DEF Pay, Change
<1>4. Related'
  BY <1>2, <1>3, Zenon DEF Related
<1> QED
  BY <1>2, <1>3, <1>4, StayStep

LEMMA LockExpiresStep ==
  ASSUME BillingInv, NEW e \in DOMAIN events, LockExpires(e)
  PROVE  BillingInv'
<1>1. e \in Nat
  BY SMT DEF BillingInv, BillingTyped
<1>2. Recorded /\ UNCHANGED <<stripe, account, syncs>>
  BY <1>1, Zenon DEF LockExpires, Recorded, Rows
<1>3. /\ events' \in Seq(Event) /\ stripe' \in Seq(Sub) /\ Subs' = Subs /\ Related'
  BY <1>2, RecordedTyped
<1> QED
  BY <1>2, <1>3, StayStep

LEMMA DeliverStep ==
  ASSUME BillingInv, NEW j \in Handlers, NEW e \in DOMAIN events, Deliver(j, e)
  PROVE  BillingInv'
<1>1. e \in Nat /\ e # 0 /\ events[e] \in Event
  BY SMT DEF BillingInv, BillingTyped
<1>2. Recorded /\ UNCHANGED <<stripe, account>> /\ Start(j, events[e].kind, e, events[e].sub)
  BY <1>1, Zenon DEF Deliver, Recorded, Rows
<1>3. events[e].kind \in Purposes /\ events[e].sub \in Nat /\ events[e].sub \in Subs
  <2>1. events[e].kind \in Purposes /\ events[e].sub \in Nat
    BY <1>1, SMT DEF Event, Kinds, Purposes
  <2> QED
    BY <2>1 DEF BillingInv, Related
<1>4. j \in Syncers /\ (e # 0 <=> j \in Handlers)
  BY <1>1 DEF Syncers
<1>5. PICK job \in Job : Fits(j, job) /\ syncs' = [syncs EXCEPT ![j] = job]
  <2>1. PICK purpose \in Purposes, s \in Nat :
          s \in Subs /\ Start(j, purpose, e, s)
    BY <1>2, <1>3, Zenon
  <2> QED
    BY <1>1, <1>4, <2>1, StartFits
<1> QED
  BY <1>2, <1>4, <1>5, RowStep

LEMMA SettleStep ==
  ASSUME BillingInv, NEW j \in Syncers, Settle(j)
  PROVE  BillingInv'
<1>1. syncs[j].event \in Nat
  BY Here, SMT DEF Job
<1>2. Recorded /\ Finish(j) /\ UNCHANGED <<stripe, account>>
  BY <1>1, Zenon DEF Settle, Recorded, Rows
<1> QED
  BY <1>2, FinishStep

LEMMA CrashStep ==
  ASSUME BillingInv, NEW j \in Syncers, CallFails(j) \/ Crash(j)
  PROVE  BillingInv'
<1>1. CASE CallFails(j)
  BY <1>1, FailStep, Zenon DEF CallFails
<1>2. CASE Crash(j)
  <2>1. Recorded /\ Finish(j) /\ UNCHANGED <<stripe, account>>
    BY <1>2, Zenon DEF Crash, Recorded
  <2> QED
    BY <2>1, FinishStep
<1> QED
  BY <1>1, <1>2

LEMMA FetchStep ==
  ASSUME BillingInv, NEW j \in Syncers, Fetch(j)
  PROVE  BillingInv'
<1>1. PICK job \in Job : job = syncs[j] /\ Fits(j, job) /\ job.pc = "fetch"
  BY Here, Zenon DEF Fetch
<1>2. job.copy.id \in Subs /\ (job.event # 0 <=> j \in Handlers)
  BY <1>1, SMT DEF Fits, Placed
<1>3. PICK copy \in SubCopy : copy = Copy(job.copy.id) /\ copy.id = job.copy.id
  BY <1>2, CopyTyped, Zenon
<1>4. PICK asked \in Job : asked = [job EXCEPT !.copy = copy]
  BY FieldsTyped, Zenon
<1>5. PICK next \in Job : next = [asked EXCEPT !.pc = "load"]
  BY StepsTyped, FieldsTyped, Zenon
<1>6. syncs' = [syncs EXCEPT ![j] = next]
  <2>1. syncs' = [syncs EXCEPT ![j] = [@ EXCEPT !.copy = Copy(syncs[j].copy.id), !.pc = "load"]]
    BY DEF Fetch
  <2> QED
    BY <1>1, <1>3, <1>4, <1>5, <2>1, Zenon
<1>7. next.pc = "load" /\ next.copy = copy /\ next.event = job.event
  BY <1>4, <1>5, SMT DEF Job
<1>8. Fits(j, next)
  BY <1>2, <1>3, <1>7, SMT DEF Fits, Placed, UpToDate
<1>9. Recorded /\ UNCHANGED <<stripe, account>>
  BY Zenon DEF Fetch, Recorded
<1> QED
  BY <1>6, <1>8, <1>9, RowStep

LEMMA LoadStep ==
  ASSUME BillingInv, NEW j \in Syncers, Load(j)
  PROVE  BillingInv'
<1>1. PICK before \in Job : before = syncs[j] /\ Fits(j, before) /\ before.pc = "load"
  BY Here, Zenon DEF Load
<1>2. /\ before.purpose \notin Listing => before.copy.id \in Subs
      /\ before.event # 0 <=> j \in Handlers
  BY <1>1, SMT DEF Fits, Placed
<1>3. PICK seen \in Job : seen = [before EXCEPT !.stored = account.sub]
  BY Here, FieldsTyped, Zenon
<1>4. PICK told \in Job : told = [seen EXCEPT !.failing = account.failing]
  BY Here, FieldsTyped, Zenon
<1>5. PICK job \in Job : job = [told EXCEPT !.current = TRUE]
  BY FieldsTyped, Zenon
<1>6. job = [syncs[j] EXCEPT !.stored = account.sub, !.failing = account.failing, !.current = TRUE]
  BY <1>1, <1>3, <1>4, <1>5, Zenon
<1>7. /\ job.pc = "load" /\ job.purpose = before.purpose /\ job.copy = before.copy
      /\ job.event = before.event /\ job.stored = account.sub /\ job.copy \in SubCopy
  BY <1>1, <1>3, <1>4, <1>5, SMT DEF Job
<1>8. syncs' = [syncs EXCEPT ![j] = IF job.purpose \in Listing THEN [job EXCEPT !.pc = "list"]
                                    ELSE Compared(job, job.copy)]
  BY <1>6, SMT DEF Load, Listing
<1>9. Recorded /\ UNCHANGED <<stripe, account>>
  BY Zenon DEF Load, Recorded
<1>10. CASE job.purpose \in Listing
  <2>1. PICK next \in Job : next = [job EXCEPT !.pc = "list"]
    BY StepsTyped, FieldsTyped, Zenon
  <2>2. /\ next.pc = "list" /\ next.purpose = job.purpose /\ next.event = job.event
        /\ next.stored = account.sub
    BY <1>7, <2>1, SMT DEF Job
  <2>3. Fits(j, next)
    BY <1>2, <1>7, <1>10, <2>2, SMT DEF Fits, Placed, UpToDate
  <2>4. syncs' = [syncs EXCEPT ![j] = next]
    BY <1>8, <1>10, <2>1
  <2> QED
    BY <1>9, <2>3, <2>4, RowStep
<1>11. CASE job.purpose \notin Listing
  <2>1. PICK next : next = Compared(job, job.copy)
    OBVIOUS
  <2>2. syncs' = [syncs EXCEPT ![j] = next]
    BY <1>8, <1>11, <2>1
  <2>3. job.copy.id \in Subs /\ (job.event # 0 <=> j \in Handlers)
    BY <1>2, <1>7, <1>11
  <2>4. next \in Job /\ Fits(j, next)
    BY <1>7, <2>1, <2>3, ComparedFits
  <2> QED
    BY <1>9, <2>2, <2>4, RowStep
<1> QED
  BY <1>10, <1>11

LEMMA ListStep ==
  ASSUME BillingInv, NEW j \in Syncers, List(j)
  PROVE  BillingInv'
<1>1. PICK job \in Job : job = syncs[j] /\ Fits(j, job) /\ job.pc = "list"
  BY Here, Zenon DEF List
<1>2. /\ job.purpose \in Listing /\ (job.event # 0 <=> j \in Handlers)
      /\ job.current => job.stored = account.sub
  BY <1>1, SMT DEF Fits, Placed, UpToDate
<1>3. PICK s \in Subs : syncs' = [syncs EXCEPT ![j] = Compared(@, Copy(s))]
  BY Zenon DEF List
<1>4. PICK copy \in SubCopy : copy = Copy(s) /\ copy.id \in Subs
  BY CopyTyped, Zenon
<1>5. PICK next : next = Compared(job, copy)
  OBVIOUS
<1>6. syncs' = [syncs EXCEPT ![j] = next]
  BY <1>1, <1>3, <1>4, <1>5, Zenon
<1>7. next \in Job /\ Fits(j, next)
  BY <1>2, <1>4, <1>5, ComparedFits
<1>8. Recorded /\ UNCHANGED <<stripe, account>>
  BY Zenon DEF List, Recorded
<1> QED
  BY <1>6, <1>7, <1>8, RowStep

LEMMA ConflictStep ==
  ASSUME BillingInv, NEW j \in Syncers, Conflict(j)
  PROVE  BillingInv'
<1>1. PICK job \in Job : job = syncs[j] /\ Fits(j, job) /\ job.pc = "save"
  BY Here, Zenon DEF Conflict
<1>2. UNCHANGED <<stripe, account>>
  BY Zenon DEF Conflict
<1>3. CASE ~Retries(syncs[j])
  BY <1>2, <1>3, FailStep, Zenon DEF Conflict
<1>4. CASE Retries(syncs[j])
  <2>1. job.attempt < 3 /\ job.attempt \in 1..3
    BY <1>1, <1>4, SMT DEF Retries, Job
  <2>2. PICK asking \in Job : asking = [job EXCEPT !.pc = "fetch"]
    BY StepsTyped, FieldsTyped, Zenon
  <2>3. PICK next \in Job : next = [asking EXCEPT !.attempt = job.attempt + 1]
    <3>1. job.attempt + 1 \in 1..3
      BY <2>1, SMT
    <3> QED
      BY <3>1, FieldsTyped, Zenon
  <2>4. next.pc = "fetch" /\ next.copy = job.copy /\ next.event = job.event
    BY <2>2, <2>3, SMT DEF Job
  <2>5. Fits(j, next)
    BY <1>1, <2>4, SMT DEF Fits, Placed, UpToDate
  <2>6. syncs' = [syncs EXCEPT ![j] = next]
    <3>1. syncs' = [syncs EXCEPT ![j] = [job EXCEPT !.pc = "fetch", !.attempt = job.attempt + 1]]
      BY <1>1, <1>4, Zenon DEF Conflict
    <3>2. asking.attempt = job.attempt
      BY <2>2, SMT DEF Job
    <3> QED
      BY <1>1, <2>2, <2>3, <3>1, <3>2, Zenon
  <2>7. Recorded
    BY <1>4, Zenon DEF Conflict, Recorded
  <2> QED
    BY <1>2, <2>5, <2>6, <2>7, RowStep
<1> QED
  BY <1>3, <1>4

LEMMA ReconcileStep ==
  ASSUME BillingInv, Reconcile
  PROVE  BillingInv'
<1>1. /\ Start(WORKER, "reconcile", 0, account.sub.id) /\ Live(account.sub)
      /\ Recorded /\ UNCHANGED <<stripe, account>>
  BY Zenon DEF Reconcile, Reconciled, Recorded
<1>2. account.sub.id \in Nat /\ account.sub.id \in Subs
  BY <1>1, SMT DEF BillingInv, BillingTyped, Related, Live, Subs
<1>3. WORKER \in Syncers /\ WORKER \notin Handlers
  BY BillingAssumption DEF BillingAssumption, Syncers
<1>4. 0 \in Nat /\ (0 # 0 <=> WORKER \in Handlers) /\ "reconcile" \in Purposes
  BY <1>3, StepsTyped
<1> QED
  BY <1>1, <1>2, <1>3, <1>4, StartFits, RowStep, Zenon

LEMMA RequestStep ==
  ASSUME BillingInv, Request
  PROVE  BillingInv'
<1>1. USER \in Syncers /\ USER \notin Handlers /\ 0 \in Nat /\ (0 # 0 <=> USER \in Handlers)
  BY BillingAssumption DEF BillingAssumption, Syncers
<1>2. PICK job \in Job : job = syncs[USER] /\ Fits(USER, job) /\ job.pc = "idle"
  BY <1>1, Here, Zenon DEF Request
<1>3. Recorded /\ UNCHANGED <<stripe, account>>
  BY Zenon DEF Request, Recorded
<1>4. ASSUME NEW purpose \in Listing, syncs' = [syncs EXCEPT ![USER] = [@ EXCEPT !.purpose = purpose, !.pc =
               IF Subs # {} THEN "load" ELSE IF purpose = "checkout" THEN "open" ELSE "idle"]]
      PROVE  BillingInv'
  <2>1. PICK step \in {"load", "open", "idle"} :
          step = IF Subs # {} THEN "load" ELSE IF purpose = "checkout" THEN "open" ELSE "idle"
    OBVIOUS
  <2>2. PICK meant \in Job : meant = [job EXCEPT !.purpose = purpose]
    <3>1. purpose \in Purposes
      BY <1>4 DEF Listing, Purposes
    <3> QED
      BY <3>1, FieldsTyped, Zenon
  <2>3. PICK next \in Job : next = [meant EXCEPT !.pc = step]
    <3>1. step \in JobSteps
      BY <2>1 DEF JobSteps
    <3> QED
      BY <3>1, FieldsTyped, Zenon
  <2>4. next.pc = step /\ next.purpose = purpose /\ next.event = job.event
    BY <2>2, <2>3, SMT DEF Job
  <2>5. Fits(USER, next)
    BY <1>1, <1>2, <2>1, <2>4, SMT DEF Fits, Placed, UpToDate, Listing
  <2>6. syncs' = [syncs EXCEPT ![USER] = next]
    <3>1. syncs' = [syncs EXCEPT ![USER] = [@ EXCEPT !.purpose = purpose, !.pc = step]]
      BY <1>4, <2>1, Zenon
    <3> QED
      BY <1>2, <2>2, <2>3, <3>1, Zenon
  <2> QED
    BY <1>1, <1>3, <2>5, <2>6, RowStep
<1>5. ASSUME NEW s \in Subs, Start(USER, "confirm", 0, s)
      PROVE  BillingInv'
  <2>1. s \in Nat /\ "confirm" \in Purposes
    BY CopyTyped, StepsTyped
  <2> QED
    BY <1>1, <1>3, <1>5, <2>1, StartFits, RowStep, Zenon
<1>6. ASSUME account.sub.id # 0, Start(USER, "change", 0, account.sub.id)
      PROVE  BillingInv'
  <2>1. account.sub.id \in Nat /\ account.sub.id \in Subs /\ "change" \in Purposes
    BY <1>6, SMT DEF BillingInv, BillingTyped, Related, Subs, Purposes
  <2> QED
    BY <1>1, <1>3, <1>6, <2>1, StartFits, RowStep, Zenon
<1> QED
  BY <1>4, <1>5, <1>6, Zenon DEF Request, Listing

LEMMA OpenStep ==
  ASSUME BillingInv, Open
  PROVE  BillingInv'
<1>1. USER \in Syncers
  BY DEF Syncers
<1>2. Finish(USER) /\ Recorded /\ UNCHANGED <<stripe, account>>
  BY Zenon DEF Open, Recorded
<1> QED
  BY <1>1, <1>2, FinishStep

LEMMA OvertakenFits ==
  ASSUME NEW i \in Syncers, NEW job \in Job, Placed(i, job)
  PROVE  Overtaken(job) \in Job /\ Placed(i, Overtaken(job)) /\ ~Overtaken(job).current
<1>1. CASE job.pc # "save"
  <2>1. PICK next \in Job : next = [job EXCEPT !.current = FALSE]
    BY FieldsTyped, Zenon
  <2>2. /\ next.pc = job.pc /\ next.purpose = job.purpose /\ next.event = job.event
        /\ next.copy = job.copy /\ ~next.current
    BY <2>1, SMT DEF Job
  <2>3. Overtaken(job) = next
    BY <1>1, <2>1 DEF Overtaken
  <2>4. Placed(i, next)
    BY <2>2, Zenon DEF Placed
  <2> QED
    BY <2>2, <2>3, <2>4, Zenon
<1>2. CASE job.pc = "save"
  <2>1. /\ job.purpose \in Purposes /\ job.event \in Nat /\ job.copy.id \in Nat /\ job.attempt \in 1..3
    BY SMT DEF Job, SubCopy
  <2>2. PICK stepped \in Job : stepped = [NoSync EXCEPT !.pc = "save"]
    BY StepsTyped, NoSyncTyped, FieldsTyped, Zenon
  <2>3. PICK meant \in Job : meant = [stepped EXCEPT !.purpose = job.purpose]
    BY <2>1, FieldsTyped, Zenon
  <2>4. PICK told \in Job : told = [meant EXCEPT !.event = job.event]
    BY <2>1, FieldsTyped, Zenon
  <2>5. PICK about \in Job : about = [told EXCEPT !.copy.id = job.copy.id]
    BY <2>1, FieldsTyped, Zenon
  <2>6. PICK next \in Job : next = [about EXCEPT !.attempt = job.attempt]
    BY <2>1, FieldsTyped, Zenon
  <2>7. Overtaken(job) = next
    BY <1>2, <2>2, <2>3, <2>4, <2>5, <2>6, SMT DEF Overtaken, NoSync, NoSub
  <2>8. /\ next.pc = "save" /\ next.event = job.event /\ next.copy.id = job.copy.id
        /\ next.current = FALSE
    BY <2>2, <2>3, <2>4, <2>5, <2>6, SMT DEF NoSync, NoSub
  <2>9. Placed(i, next)
    BY <1>2, <2>8, SMT DEF Placed
  <2> QED
    BY <2>7, <2>8, <2>9, Zenon
<1> QED
  BY <1>1, <1>2

LEMMA SaveStep ==
  ASSUME BillingInv, NEW j \in Syncers, Save(j)
  PROVE  BillingInv'
<1>1. PICK job \in Job : job = syncs[j] /\ Fits(j, job) /\ job.pc = "save"
  BY Here, Zenon DEF Save
<1>2. /\ account' = Saved(job)
      /\ syncs' = [i \in Syncers |-> IF i = j THEN Continue(job, job.copy) ELSE Overtaken(syncs[i])]
      /\ UNCHANGED <<stripe, events>>
  BY <1>1, Zenon DEF Save
<1>3. Subs' = Subs
  BY <1>2 DEF Subs
<1>4. account' \in [sub : SubCopy, failing : BOOLEAN] /\ account'.sub = job.copy
  <2>1. account.failing \in BOOLEAN /\ job.failing \in BOOLEAN /\ job.copy \in SubCopy
    BY Here, SMT DEF Job
  <2> DEFINE paid == job.copy.status \in {"active"} \union TERMINAL_STATUSES
             fails == job.copy.status = "past_due" /\ ~ job.failing
  <2>2. PICK b \in BOOLEAN : b = (fails \/ (account.failing /\ ~ (paid /\ job.failing)))
    OBVIOUS
  <2>3. account' = [sub |-> job.copy, failing |-> b]
    BY <1>2, <2>2, Zenon DEF Saved
  <2> HIDE DEF paid, fails
  <2> QED
    BY <2>1, <2>3, SMT
<1>5. Related'
  <2>1. job.copy.id \in 1..Len(stripe)
    BY <1>1, SMT DEF Fits, Placed, Subs, BillingInv, BillingTyped
  <2> QED
    BY <1>2, <1>3, <1>4, <2>1, SMT DEF Related, BillingInv
<1>6. PICK next \in Job : next = Continue(job, job.copy) /\ Fits(j, next) /\ ~next.current
  <2>1. PICK next : next = Continue(job, job.copy)
    OBVIOUS
  <2>2. /\ next \in Job /\ ~next.current
        /\ next.pc \in {"idle", "settle", "failure", "open", "act"}
        /\ next.pc = "idle" => next.event = 0
        /\ next.pc # "idle" => next.event = job.event /\ next.copy.id = job.copy.id
    BY <2>1, ContinueFits
  <2>3. Placed(j, next)
    BY <1>1, <2>2, SMT DEF Fits, Placed
  <2>4. UpToDate(next)
    BY <2>2, SMT DEF UpToDate
  <2> QED
    BY <2>1, <2>2, <2>3, <2>4 DEF Fits
<1>7. ASSUME NEW i \in Syncers
      PROVE  syncs'[i] \in Job /\ Fits(i, syncs[i])'
  <2>1. PICK held \in Job : held = syncs'[i] /\ Placed(i, held) /\ ~held.current
    <3>1. CASE i = j
      BY <1>2, <1>6, <3>1, Zenon DEF Fits
    <3>2. CASE i # j
      <4>1. syncs[i] \in Job /\ Placed(i, syncs[i])
        BY Here, Zenon DEF Fits
      <4>2. PICK held \in Job : held = Overtaken(syncs[i]) /\ Placed(i, held) /\ ~held.current
        BY <4>1, OvertakenFits
      <4>3. syncs'[i] = held
        BY <1>2, <3>2, <4>2
      <4> QED
        BY <4>2, <4>3
    <3> QED
      BY <3>1, <3>2
  <2>2. Placed(i, held)'
    BY <1>3, <2>1, PlacedKept
  <2>3. UpToDate(held)'
    BY <2>1, Zenon DEF UpToDate
  <2> QED
    BY <2>1, <2>2, <2>3, FitsOf, Zenon DEF Fits
<1>8. syncs' \in [Syncers -> Job]
  BY <1>2, <1>7, Zenon
<1> QED
  BY <1>2, <1>4, <1>5, <1>7, <1>8, Zenon DEF BillingInv, BillingTyped, SyncsFit

LEMMA RecordFailureStep ==
  ASSUME BillingInv, NEW j \in Syncers, RecordFailure(j)
  PROVE  BillingInv'
<1>1. PICK job \in Job : job = syncs[j] /\ Fits(j, job) /\ job.pc = "failure"
  BY Here, Zenon DEF RecordFailure
<1>2. /\ account' = [account EXCEPT !.failing = @ \/ account.sub.status \in UNPAID]
      /\ syncs' = [syncs EXCEPT ![j].pc = "settle"]
      /\ UNCHANGED <<stripe, events>>
  BY Zenon DEF RecordFailure
<1>3. PICK next \in Job : next = [job EXCEPT !.pc = "settle"]
  BY StepsTyped, FieldsTyped, Zenon
<1>4. syncs' = [syncs EXCEPT ![j] = next]
  BY <1>1, <1>2, <1>3, Zenon
<1>5. next.pc = "settle" /\ next.event = job.event
  BY <1>3, SMT DEF Job
<1>6. account' \in [sub : SubCopy, failing : BOOLEAN] /\ account'.sub = account.sub
  <2>1. PICK b \in BOOLEAN : b = (account.failing \/ account.sub.status \in UNPAID)
    OBVIOUS
  <2>2. account' = [account EXCEPT !.failing = b]
    BY <1>2, <2>1, Zenon
  <2> QED
    BY <2>2, SMT DEF BillingInv, BillingTyped
<1>7. Subs' = Subs /\ Related'
  <2>1. Subs' = Subs
    BY <1>2 DEF Subs
  <2> QED
    BY <1>2, <1>6, <2>1, SMT DEF Related, BillingInv
<1>8. Fits(j, next)'
  BY <1>1, <1>5, SMT DEF Fits, Placed, UpToDate
<1>9. stripe' \in Seq(Sub) /\ events' \in Seq(Event)
  BY <1>2 DEF BillingInv, BillingTyped
<1> QED
  BY <1>4, <1>6, <1>7, <1>8, <1>9, SyncStep

LEMMA ActStep ==
  ASSUME BillingInv, Act
  PROVE  BillingInv'
<1>1. USER \in Syncers /\ USER \notin Handlers /\ 0 \in Nat /\ (0 # 0 <=> USER \in Handlers)
  BY BillingAssumption DEF BillingAssumption, Syncers
<1>2. PICK s : s = syncs[USER].copy.id
  OBVIOUS
<1>3. s \in Subs /\ s \in Nat /\ stripe[s] \in Sub
  <2>1. PICK job \in Job : job = syncs[USER] /\ Fits(USER, job) /\ job.pc = "act"
    BY <1>1, Here, Zenon DEF Act
  <2>2. s \in Subs
    BY <1>2, <2>1, SMT DEF Fits, Placed
  <2> QED
    BY <2>2, SMT DEF BillingInv, BillingTyped, Subs
<1>4. CASE stripe[s].status \in TERMINAL_STATUSES
  <2>1. Finish(USER) /\ Recorded /\ UNCHANGED <<stripe, account>>
    BY <1>2, <1>4, Zenon DEF Act, Recorded
  <2> QED
    BY <1>1, <2>1, FinishStep
<1>5. CASE stripe[s].status \notin TERMINAL_STATUSES
  <2>1. /\ stripe' = [stripe EXCEPT ![s].rev = @ + 1]
        /\ Emit(s, "changed") /\ Start(USER, "confirm", 0, s) /\ account' = account
    BY <1>2, <1>5, Zenon DEF Act
  <2>2. PICK sub \in Sub : sub = [stripe[s] EXCEPT !.rev = @ + 1]
    <3>1. \A old \in Sub : [old EXCEPT !.rev = old.rev + 1] \in Sub
      BY SMT DEF Sub
    <3> QED
      BY <1>3, <3>1, Zenon
  <2>3. stripe' = [stripe EXCEPT ![s] = sub]
    BY <2>1, <2>2, Zenon
  <2>4. "changed" \in Kinds
    BY DEF Kinds
  <2>5. /\ stripe' \in Seq(Sub) /\ events' \in Seq(Event) /\ Subs \subseteq Subs'
        /\ account.sub.id \in 0..Len(stripe')
        /\ \A e \in DOMAIN events' : events'[e].sub \in Subs'
    <3>1. s \in Subs /\ \E other \in Sub : stripe' = [stripe EXCEPT ![s] = other]
      BY <1>3, <2>3
    <3> QED
      BY <2>1, <2>4, <3>1, StripeMoves, Zenon
  <2>6. Related'
    BY <2>1, <2>5, Zenon DEF Related
  <2>7. PICK job \in Job : Fits(USER, job) /\ syncs' = [syncs EXCEPT ![USER] = job]
    <3>1. "confirm" \in Purposes
      BY StepsTyped
    <3> QED
      BY <1>1, <1>3, <2>1, <3>1, StartFits, Zenon
  <2>8. Fits(USER, job)'
    BY <1>1, <2>1, <2>5, <2>7, PlacedKept, UpToDateKept, Zenon DEF Fits
  <2>9. account' \in [sub : SubCopy, failing : BOOLEAN] /\ account'.sub = account.sub
    BY <2>1 DEF BillingInv, BillingTyped
  <2> QED
    BY <1>1, <2>5, <2>6, <2>7, <2>8, <2>9, SyncStep
<1> QED
  BY <1>4, <1>5

-----------------------------------------------------------------------------
(* The theorems.                                                           *)

LEMMA BillingInvInit == BillingInit => BillingInv
<1> SUFFICES ASSUME BillingInit
             PROVE  BillingInv
  OBVIOUS
<1>1. account \in [sub : SubCopy, failing : BOOLEAN] /\ account.sub.id = 0
  BY NoSubTyped, SMT DEF BillingInit, NoSub
<1>2. syncs \in [Syncers -> Job] /\ SyncsFit
  BY NoSyncTyped, NoSyncFits, Zenon DEF BillingInit, SyncsFit
<1>3. stripe \in Seq(Sub) /\ events \in Seq(Event) /\ Len(stripe) = 0 /\ DOMAIN events = {}
  BY SMT DEF BillingInit
<1>4. Related
  BY <1>1, <1>3, SMT DEF Related
<1> QED
  BY <1>1, <1>2, <1>3, <1>4 DEF BillingInv, BillingTyped

LEMMA BillingInvNext ==
  ASSUME BillingInv, [BillingNext]_billingVars
  PROVE  BillingInv'
<1>1. ASSUME NEW j \in Syncers, Step(j) \/ CallFails(j) \/ Crash(j)
      PROVE  BillingInv'
  BY <1>1, FetchStep, LoadStep, ListStep, SaveStep, ConflictStep, RecordFailureStep, SettleStep,
     CrashStep, Zenon DEF Step
<1>2. CASE UNCHANGED billingVars
  <2>1. stripe' = stripe /\ events' = events /\ account' = account /\ syncs' = syncs
    BY <1>2 DEF billingVars
  <2>2. Subs' = Subs /\ Related'
    BY <2>1, SMT DEF Subs, Related, BillingInv
  <2> QED
    BY <2>1, <2>2, StayStep, Zenon DEF BillingInv, BillingTyped
<1> QED
  BY <1>1, <1>2, StripeStep, ReconcileStep, RequestStep, OpenStep, ActStep, LockExpiresStep,
     DeliverStep, Zenon DEF BillingNext

LEMMA BillingInvHolds == BillingSpec => []BillingInv
<1>1. BillingInv /\ [BillingNext]_billingVars => BillingInv'
  BY BillingInvNext
<1> QED
  BY <1>1, BillingInvInit, PTL DEF BillingSpec

(* The stored copy and every event are of subscriptions Stripe knows, and  *)
(* each synchronisation is of one where it needs one.                      *)
THEOREM BillingTypes == BillingSpec => []BillingTypeOK
<1>1. BillingInv => BillingTypeOK
  <2> SUFFICES ASSUME BillingInv
               PROVE  BillingTypeOK
    OBVIOUS
  <2>1. \A s \in Subs : stripe[s] \in [status : Statuses, rev : Nat]
    <3>1. \A s \in Subs : stripe[s] \in Sub
      BY SMT DEF BillingInv, BillingTyped, Subs
    <3>2. \A sub \in Sub : sub \in [status : Statuses, rev : Nat]
      BY SMT DEF Sub, Statuses
    <3> QED
      BY <3>1, <3>2
  <2>2. ASSUME NEW e \in DOMAIN events
        PROVE  events[e] \in [sub : Subs, kind : {"changed", "failed"},
                      record : {"none", "PROCESSING", "OVERDUE", "FAILED", "PROCESSED"}]
    <3>1. events[e] \in Event /\ events[e].sub \in Subs
      BY SMT DEF BillingInv, BillingTyped, Related
    <3> QED
      BY <3>1, SMT DEF Event, Kinds
  <2>3. account \in [sub : [id : Subs \union {0}, status : Statuses, rev : Nat], failing : BOOLEAN]
    <3>1. account \in [sub : SubCopy, failing : BOOLEAN] /\ account.sub.id \in Subs \union {0}
      BY SMT DEF BillingInv, BillingTyped, Related, Subs
    <3>2. account.sub \in SubCopy
      BY <3>1, SMT
    <3>3. account.sub \in [id : Subs \union {0}, status : Statuses, rev : Nat]
      BY <3>1, <3>2, SMT DEF SubCopy
    <3> QED
      BY <3>1, <3>3, SMT
  <2>4. ASSUME NEW j \in Syncers
        PROVE  /\ syncs[j].attempt \in 1..3
               /\ syncs[j].pc \in {"save", "failure", "act"} => syncs[j].copy.id \in Subs
               /\ syncs[j].event # 0 <=> j \in Handlers /\ syncs[j].pc # "idle"
    BY Here, SMT DEF Fits, Placed, Job
  <2> QED
    BY <2>1, <2>2, <2>3, <2>4 DEF BillingTypeOK
<1> QED
  BY <1>1, BillingInvHolds, PTL

(* A live subscription is only ever replaced by a newer live one: what a    *)
(* save compared with its copy is what is still stored, or its version is  *)
(* too old to be saved.                                                    *)
THEOREM LiveIsKept == BillingSpec => LiveSubscriptionKept
<1> DEFINE Kept == Live(account.sub) /\ account'.sub.id # account.sub.id
                     => Live(account'.sub) /\ account'.sub.id > account.sub.id
<1>1. ASSUME BillingInv, [BillingNext]_billingVars
      PROVE  Kept
  <2>1. CASE account'.sub = account.sub
    BY <2>1, Zenon
  <2>2. ASSUME NEW j \in Syncers, Save(j)
        PROVE  Kept
    <3>1. PICK job \in Job : job = syncs[j] /\ Fits(j, job) /\ job.pc = "save" /\ job.current
      BY <1>1, <2>2, Here, Zenon DEF Save
    <3>2. account'.sub = job.copy
      BY <2>2, <3>1, SMT DEF Save, Saved
    <3>3. ~Ignored(account.sub, job.copy)
      BY <3>1, Zenon DEF Fits, UpToDate
    <3>4. account.sub.id \in Nat /\ job.copy.id \in Nat
      BY <1>1, Here, SMT DEF SubCopy, Job
    <3> QED
      BY <3>2, <3>3, <3>4, SMT DEF Ignored, Live
  <2>3. (\E j \in Syncers : Save(j)) \/ account'.sub = account.sub
    <3>1. ASSUME NEW j \in Syncers, RecordFailure(j)
          PROVE  account'.sub = account.sub
      BY <1>1, <3>1, SMT DEF RecordFailure, BillingInv, BillingTyped
    <3>2. ASSUME NEW j \in Syncers, Step(j)
          PROVE  Save(j) \/ account'.sub = account.sub
      BY <3>1, <3>2, Zenon DEF Step, Fetch, Load, List, Conflict, Settle
    <3>3. CASE UNCHANGED billingVars
      BY <3>3 DEF billingVars
    <3> QED
      BY <1>1, <3>2, <3>3, Zenon DEF BillingNext, Pay, Change, Reconcile, Request, Open, Act,
         LockExpires, Deliver, CallFails, Crash
  <2> QED
    BY <2>1, <2>2, <2>3
<1> QED
  BY <1>1, BillingInvHolds, PTL DEF LiveSubscriptionKept, BillingSpec
=============================================================================
