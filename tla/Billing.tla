-------------------------------- MODULE Billing --------------------------------
(***************************************************************************)
(* The billing account of one user: a copy of the Stripe subscription,     *)
(* brought up to date by webhooks, by the worker's timer and by the user's *)
(* own requests, several of them at once.  Stripe is external: it keeps    *)
(* the subscriptions, changes them and delivers an event until a delivery  *)
(* is answered with success.                                               *)
(*                                                                         *)
(* A subscription is its number, in the order Stripe created them.  Its    *)
(* price, its period and booked downgrades are left out; `rev' counts its  *)
(* changes, so that a copy tells how old it is.                            *)
(***************************************************************************)
EXTENDS Naturals, Sequences

CONSTANTS
  Handlers,     \* webhook deliveries handled at a time
  MaxSubs,      \* bound: subscriptions one customer buys
  MaxUpsets     \* bound: changes of their status at Stripe, requests of the user,
                \* failed calls, crashes, slow handlers and ill-timed timers together

WORKER == "worker"
USER == "user"
Syncers == Handlers \union {WORKER, USER}

ASSUME BillingAssumption ==
  MaxSubs \in Nat /\ MaxUpsets \in Nat /\ Handlers \intersect {WORKER, USER} = {}

VARIABLES
  stripe,    \* Stripe's subscriptions
  checkouts, \* Checkout pages opened and not paid yet
  events,    \* webhook events with their rows in StripeWebhookEvent
  account,   \* the BillingAccount document
  syncs,     \* synchronisations in progress
  spent      \* how much of MaxUpsets is used up

billingVars == <<stripe, checkouts, events, account, syncs, spent>>

NoSub == [id |-> 0, status |-> "none", rev |-> 0]
(* "active" stands for the entitled statuses, "canceled" for the terminal, *)
(* "past_due" for unpaid as well; incomplete and paused are left out.      *)
Statuses == {"none", "active", "past_due", "canceled"}
TERMINAL_STATUSES == {"canceled"}
UNPAID == {"past_due"}
Subs == DOMAIN stripe
Copy(s) == [id |-> s, status |-> stripe[s].status, rev |-> stripe[s].rev]
Live(sub) == sub.id # 0 /\ sub.status \notin TERMINAL_STATUSES

(* A synchronisation: what it is for, the event it handles, the copy it    *)
(* fetched and the account it loaded.  `current' is lost, and the rest     *)
(* with it, when another save raises the version of that document.         *)
NoSync == [pc |-> "idle", purpose |-> "none", event |-> 0, copy |-> NoSub,
           stored |-> NoSub, failing |-> FALSE, current |-> FALSE, attempt |-> 1]

(* `failing' is paymentFailedAt with the grace period it starts.  A        *)
(* customer may have several Checkout pages open, of different plans.      *)
BillingInit ==
  /\ stripe = <<>> /\ events = <<>> /\ checkouts \in 1..MaxSubs
  /\ account = [sub |-> NoSub, failing |-> FALSE]
  /\ syncs = [j \in Syncers |-> NoSync]
  /\ spent = 0

Spend == spent' = spent + 1

-------------------------------------------------------------------------------
(* Stripe.                                                                 *)

Emit(s, kind) == events' = Append(events, [sub |-> s, kind |-> kind, record |-> "none"])

(* The customer pays on an open Checkout page.                             *)
Pay ==
  /\ checkouts > 0
  /\ checkouts' = checkouts - 1
  /\ stripe' = Append(stripe, [status |-> "active", rev |-> 0])
  /\ Emit(Len(stripe) + 1, "changed")
  /\ UNCHANGED <<account, syncs, spent>>

MayBecome == [active |-> {"past_due", "canceled"}, past_due |-> {"active", "canceled"},
              canceled |-> {}]

(* A renewal fails or succeeds, a subscription ends.                       *)
Change(s) ==
  /\ spent < MaxUpsets
  /\ \E status \in MayBecome[stripe[s].status] :
       /\ stripe' = [stripe EXCEPT ![s] = [status |-> status, rev |-> @.rev + 1]]
       /\ Emit(s, IF status = "past_due" THEN "failed" ELSE "changed")
  /\ Spend
  /\ UNCHANGED <<checkouts, account, syncs>>

-------------------------------------------------------------------------------
(* Webhooks.                                                               *)

Start(j, purpose, e, s) ==
  syncs' = [syncs EXCEPT ![j] = [NoSync EXCEPT
    !.pc = "fetch", !.purpose = purpose, !.event = e, !.copy.id = s]]
Record(e, status) == events' = IF e = 0 THEN events ELSE [events EXCEPT ![e].record = status]
Finish(j) == syncs' = [syncs EXCEPT ![j] = NoSync]

\* Mutant: an event whose handler died is never claimed again.
OnlyFailed(e) == events[e].record \in {"none", "FAILED"}

(* claimEvent: new, failed, or in progress for WEBHOOK_LOCK_TIMEOUT_MS.    *)
(* Any other delivery changes nothing.                                     *)
Claimable(e) == events[e].record \in {"none", "FAILED", "OVERDUE"}

Deliver(j, e) ==
  /\ syncs[j].pc = "idle" /\ Claimable(e)
  /\ Record(e, "PROCESSING")
  /\ Start(j, events[e].kind, e, events[e].sub)
  /\ UNCHANGED <<stripe, checkouts, account, spent>>

(* WEBHOOK_LOCK_TIMEOUT_MS after the claim: its handler died, or is slow.  *)
LockExpires(e) ==
  /\ events[e].record = "PROCESSING"
  /\ Record(e, "OVERDUE")
  /\ IF \E j \in Handlers : syncs[j].event = e
     THEN spent < MaxUpsets /\ Spend
     ELSE UNCHANGED spent
  /\ UNCHANGED <<stripe, checkouts, account, syncs>>

(* The handler is done: the row says so and Stripe gets its answer.        *)
Settle(j) ==
  /\ syncs[j].pc = "settle"
  /\ Record(syncs[j].event, "PROCESSED")
  /\ Finish(j)
  /\ UNCHANGED <<stripe, checkouts, account, spent>>

(* It failed: the row says so, the answer makes Stripe deliver again.      *)
Fail(j) == Record(syncs[j].event, "FAILED") /\ Finish(j)

(* A call to Stripe or to the database fails.                              *)
CallFails(j) ==
  /\ syncs[j].pc \notin {"idle", "settle"} /\ spent < MaxUpsets
  /\ Fail(j) /\ Spend
  /\ UNCHANGED <<stripe, checkouts, account>>

(* The process dies: nothing is recorded, nothing answered.                *)
Crash(j) ==
  /\ syncs[j].pc # "idle" /\ spent < MaxUpsets
  /\ Finish(j) /\ Spend
  /\ UNCHANGED <<stripe, checkouts, events, account>>

-------------------------------------------------------------------------------
(* Synchronising the copy.                                                 *)

\* Mutant: a dead subscription replaces a live one.
OnlyOlderIgnored(stored, copy) == stored.id # 0 /\ Live(stored) /\ copy.id < stored.id

(* applySubscription: a dead or older subscription does not replace a live *)
(* one.                                                                    *)
Ignored(stored, copy) ==
  /\ stored.id \notin {0, copy.id}
  /\ Live(stored) /\ (~ Live(copy) \/ copy.id < stored.id)

(* What follows, by what the account says of the subscription then.        *)
After(purpose, sub) ==
  CASE purpose = "changed" -> "settle"
    [] purpose = "failed" -> IF sub.status \in UNPAID THEN "failure" ELSE "settle"
    [] purpose = "checkout" /\ ~ Live(sub) -> "open"
    [] purpose = "change" /\ sub.status = "active" -> "act"
    [] OTHER -> "idle"

Continue(job, sub) ==
  LET step == After(job.purpose, sub)
  IN IF step = "idle" THEN NoSync
     ELSE [NoSync EXCEPT !.pc = step, !.purpose = job.purpose,
             !.event = job.event, !.copy.id = job.copy.id]

(* The copy is compared with the loaded account: it is ignored, or saved.  *)
Compared(job, copy) ==
  IF Ignored(job.stored, copy) THEN Continue(job, job.stored)
  ELSE [job EXCEPT !.pc = "save", !.copy = copy, !.stored = NoSub]

(* syncSubscriptionById: Stripe is asked first, the account is read after. *)
Fetch(j) ==
  /\ syncs[j].pc = "fetch"
  /\ syncs' = [syncs EXCEPT ![j] = [@ EXCEPT !.copy = Copy(syncs[j].copy.id), !.pc = "load"]]
  /\ UNCHANGED <<stripe, checkouts, events, account, spent>>

Load(j) ==
  LET job == [syncs[j] EXCEPT !.stored = account.sub, !.failing = account.failing,
                              !.current = TRUE] IN
  /\ syncs[j].pc = "load"
  /\ syncs' = [syncs EXCEPT ![j] =
       IF job.purpose \in {"refresh", "checkout"} THEN [job EXCEPT !.pc = "list"]
       ELSE Compared(job, job.copy)]
  /\ UNCHANGED <<stripe, checkouts, events, account, spent>>

(* pickSubscription: the best status wins, then the newest.                *)
STATUS_PRIORITY == [active |-> 1, past_due |-> 2, canceled |-> 3]
Picked(s) == \A u \in Subs \ {s} :
  \/ STATUS_PRIORITY[stripe[s].status] < STATUS_PRIORITY[stripe[u].status]
  \/ stripe[s].status = stripe[u].status /\ s > u

(* syncAccount: the account was read first, then Stripe is asked.          *)
List(j) ==
  /\ syncs[j].pc = "list"
  /\ \E s \in Subs : Picked(s) /\ syncs' = [syncs EXCEPT ![j] = Compared(@, Copy(s))]
  /\ UNCHANGED <<stripe, checkouts, events, account, spent>>

(* What the save writes.  Clearing a failure the loaded document does not  *)
(* show changes no path of it, so the stored one stays.                    *)
Saved(job) ==
  LET paid == job.copy.status \in {"active"} \union TERMINAL_STATUSES
      fails == job.copy.status = "past_due" /\ ~ job.failing
  IN [sub |-> job.copy,
      failing |-> fails \/ (account.failing /\ ~ (paid /\ job.failing))]

(* Of a copy that can no longer be saved only the loss is remembered.      *)
Overtaken(job) ==
  IF job.pc # "save" THEN [job EXCEPT !.current = FALSE]
  ELSE [NoSync EXCEPT !.pc = "save", !.purpose = job.purpose, !.event = job.event,
          !.copy.id = job.copy.id, !.attempt = job.attempt]

(* The document's version goes up: what the others loaded is an older one. *)
Save(j) ==
  LET job == syncs[j] IN
  /\ job.pc = "save" /\ job.current
  /\ account' = Saved(job)
  /\ syncs' = [i \in Syncers |-> IF i = j THEN Continue(job, job.copy) ELSE Overtaken(syncs[i])]
  /\ UNCHANGED <<stripe, checkouts, events, spent>>

\* Mutant: one attempt too many.
RetriesAgain(job) == job.purpose \notin {"refresh", "checkout"} /\ job.attempt <= 3

(* Where the account was read first the loser gives up at once.            *)
Retries(job) == job.purpose \notin {"refresh", "checkout"} /\ job.attempt < 3

(* VersionError: the loser asks Stripe again, three times in all.          *)
Conflict(j) ==
  LET job == syncs[j] IN
  /\ job.pc = "save" /\ ~ job.current
  /\ IF Retries(job)
     THEN /\ syncs' = [syncs EXCEPT ![j] = [job EXCEPT !.pc = "fetch", !.attempt = job.attempt + 1]]
          /\ UNCHANGED events
     ELSE Fail(j)
  /\ UNCHANGED <<stripe, checkouts, account, spent>>

(* recordPaymentFailure, unless the copy shows a payment by now.  The      *)
(* update does not raise the document's version.                           *)
RecordFailure(j) ==
  /\ syncs[j].pc = "failure"
  /\ account' = [account EXCEPT !.failing = @ \/ account.sub.status \in UNPAID]
  /\ syncs' = [syncs EXCEPT ![j].pc = "settle"]
  /\ UNCHANGED <<stripe, checkouts, events, spent>>

\* Mutant: only overdue accounts are reconciled.
ReconciledIfOverdue == account.sub.status = "past_due"

Reconciled == Live(account.sub)

(* reconcileSubscriptions, on the worker's timer: BILLING_SYNC_INTERVAL_MS *)
(* is long, so it meets other synchronisations only now and then.          *)
Reconcile ==
  /\ syncs[WORKER].pc = "idle" /\ Reconciled
  /\ Start(WORKER, "reconcile", 0, account.sub.id)
  /\ IF \E j \in Syncers : syncs[j].pc # "idle"
     THEN spent < MaxUpsets /\ Spend
     ELSE UNCHANGED spent
  /\ UNCHANGED <<stripe, checkouts, events, account>>

-------------------------------------------------------------------------------
(* The user's requests.                                                    *)

(* refresh, startCheckout and confirmCheckout; changePlan,                 *)
(* cancelSubscription and resumeSubscription, which synchronise before and *)
(* after.                                                                  *)
Request ==
  /\ syncs[USER].pc = "idle" /\ spent < MaxUpsets
  /\ \/ \E purpose \in {"refresh", "checkout"} :
          syncs' = [syncs EXCEPT ![USER] = [@ EXCEPT !.purpose = purpose, !.pc =
                      IF Subs # {} THEN "load" ELSE IF purpose = "checkout" THEN "open" ELSE "idle"]]
     \/ \E s \in Subs : Start(USER, "confirm", 0, s)
     \/ account.sub.id # 0 /\ Start(USER, "change", 0, account.sub.id)
  /\ Spend
  /\ UNCHANGED <<stripe, checkouts, events, account>>

Open ==
  /\ syncs[USER].pc = "open"
  /\ checkouts' = IF Len(stripe) + checkouts < MaxSubs THEN checkouts + 1 ELSE checkouts
  /\ Finish(USER)
  /\ UNCHANGED <<stripe, events, account, spent>>

(* Stripe makes the change the user asked for, unless the subscription     *)
(* ended.                                                                  *)
Act ==
  LET s == syncs[USER].copy.id IN
  /\ syncs[USER].pc = "act"
  /\ IF stripe[s].status \in TERMINAL_STATUSES
     THEN Finish(USER) /\ UNCHANGED <<stripe, events>>
     ELSE /\ stripe' = [stripe EXCEPT ![s].rev = @ + 1]
          /\ Emit(s, "changed")
          /\ Start(USER, "confirm", 0, s)
  /\ UNCHANGED <<checkouts, account, spent>>

-------------------------------------------------------------------------------

Step(j) == Fetch(j) \/ Load(j) \/ List(j) \/ Save(j) \/ Conflict(j)
           \/ RecordFailure(j) \/ Settle(j)

BillingNext ==
  \/ Pay \/ (\E s \in Subs : Change(s)) \/ Reconcile \/ Request \/ Open \/ Act
  \/ \E e \in DOMAIN events : LockExpires(e) \/ \E j \in Handlers : Deliver(j, e)
  \/ \E j \in Syncers : Step(j) \/ CallFails(j) \/ Crash(j)

(* Handlers, requests and the timer run on; Stripe keeps delivering.       *)
MaxEvents == MaxSubs + MaxUpsets
BillingFairness ==
  /\ \A j \in Syncers : WF_billingVars(Step(j))
  /\ WF_billingVars(Open \/ Act) /\ WF_billingVars(Reconcile)
  /\ \A e \in 1..MaxEvents : WF_billingVars(e \in DOMAIN events /\ LockExpires(e))
  /\ \A e \in 1..MaxEvents :
       WF_billingVars(e \in DOMAIN events /\ \E j \in Handlers : Deliver(j, e))

BillingSpec == BillingInit /\ [][BillingNext]_billingVars /\ BillingFairness

-------------------------------------------------------------------------------

(* Types, and what each step of a synchronisation knows.                   *)
BillingTypeOK ==
  /\ \A s \in Subs : stripe[s] \in [status : Statuses, rev : Nat]
  /\ \A e \in DOMAIN events :
       events[e] \in [sub : Subs, kind : {"changed", "failed"},
                      record : {"none", "PROCESSING", "OVERDUE", "FAILED", "PROCESSED"}]
  /\ account \in [sub : [id : Subs \union {0}, status : Statuses, rev : Nat], failing : BOOLEAN]
  /\ \A j \in Syncers :
       /\ syncs[j].attempt \in 1..3
       /\ syncs[j].pc \in {"save", "failure", "act"} => syncs[j].copy.id \in Subs
       /\ syncs[j].event # 0 <=> j \in Handlers /\ syncs[j].pc # "idle"

(* A live subscription is only ever replaced by a newer live one, however  *)
(* many synchronisations of different subscriptions overlap: the guard of  *)
(* applySubscription holds of the document at the time of the save, not    *)
(* only of the one that was loaded.                                        *)
LiveSubscriptionKept ==
  [][Live(account.sub) /\ account'.sub.id # account.sub.id
       => Live(account'.sub) /\ account'.sub.id > account.sub.id]_billingVars

(* However events were delayed, lost in a crash or applied out of order,   *)
(* the stored copy ends up saying what Stripe says, and a failed payment   *)
(* that was made up for does not stay on the account.                      *)
CopyCatchesUp ==
  <>[](/\ account.sub.id # 0 => account.sub = Copy(account.sub.id)
       /\ account.sub.status = "active" => ~ account.failing)

(* No event is lost: each is processed in the end, whatever failed.        *)
EventsSettle ==
  []<>(\A e \in DOMAIN events : events[e].record = "PROCESSED")
===============================================================================
