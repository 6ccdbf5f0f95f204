----------------------------- MODULE Membership -----------------------------
(***************************************************************************)
(* The paid plan of one account: Stripe's subscriptions and events, the    *)
(* webhook that turns events into the account's plan, period and usage     *)
(* (stripe.webhook.js), the canonical reading of the account               *)
(* (usage.service.js) and what renders take from it meanwhile.             *)
(*                                                                         *)
(* Stripe delivers an event late, again and out of order until a handler   *)
(* answers 200.  A handler retrieves the subscription as it is then, and   *)
(* applies what it retrieved in a transaction later.  A period is named by *)
(* the time at which it ends.                                              *)
(***************************************************************************)
EXTENDS Integers, FiniteSets

CONSTANTS
    Subs,         \* subscriptions the account may open, one per checkout
    Handlers,     \* webhook requests in flight
    Summaries,    \* GET usage requests in flight
    Grant,        \* cycleIncludedSec of the plan, ms
    Amounts,      \* what a render may reserve
    LastPeriod,   \* bound of the model: the time at which renewals stop
    MaxConsumed,  \* bound of the model: the time that is ever taken, ms
    MaxOverwrites,  \* bound of the model: how often a summary overwrites a change
    Nothing       \* null

ASSUME GrantIsNat == Grant \in Nat /\ Amounts \subseteq Nat
                   /\ LastPeriod \in Nat /\ MaxConsumed \in Nat /\ MaxOverwrites \in Nat
ASSUME NothingIsNoTime == Nothing \notin Int

VARIABLES
    now,          \* the time, in periods
    stripe,       \* the subscriptions at Stripe
    sent,         \* events Stripe has issued
    handler,      \* a webhook request between its retrieval and its transaction
    processed,    \* stripe_webhook_events: the markers
    user,         \* the account document
    holds,        \* what active render and sync attempts have reserved
    consumed,     \* history: all time ever charged
    summary,      \* a usage summary between its read and its write
    overwritten   \* history: how often a summary was written over a change it had not read

memberVars == <<now, stripe, sent, handler, processed, user, holds, consumed, summary, overwritten>>

Times == 0..LastPeriod + 1
Kinds == {"checkout.session.completed", "invoice.payment_succeeded",
          "customer.subscription.deleted"}
PaidKinds == {"checkout.session.completed", "invoice.payment_succeeded"}
Subscription == [status : {"none", "active", "canceled"}, ends : Times]
Event == [kind : Kinds, sub : Subs, ends : Times]

Usage == [ends : Times \cup {Nothing}, included : {0, Grant}, used : Nat, reserved : Nat]
User == [plan : {"free", "creator"}, status : {"inactive", "active", "canceled"},
         expires : Times \cup {Nothing}, usage : Usage \cup {Nothing}]

ASSUME NothingIsNoUsage == Nothing \notin Usage

-----------------------------------------------------------------------------
(* buildCanonicalUsageState *)

(* normalizeUsage: an account without usage has what its plan includes *)
UsageOf(u) ==
    IF u.usage = Nothing
    THEN [ends |-> Nothing, included |-> IF u.plan = "free" THEN 0 ELSE Grant,
          used |-> 0, reserved |-> 0]
    ELSE u.usage

ExpiredCanceled(u) == u.status = "canceled" /\ u.expires # Nothing /\ u.expires <= now

Canonical(u) ==
    IF ExpiredCanceled(u)
    THEN [u EXCEPT !.plan = "free", !.status = "inactive",
                   !.usage = [UsageOf([u EXCEPT !.plan = "free"]) EXCEPT !.included = 0]]
    ELSE [u EXCEPT !.usage = UsageOf(u)]

NotBelowZero(n) == IF n < 0 THEN 0 ELSE n

(* getAvailableMs *)
Left(usg) == NotBelowZero(usg.included - usg.used - usg.reserved)

-----------------------------------------------------------------------------
(* Stripe *)

Pay(s) ==
    /\ stripe[s].status = "none"
    /\ now < LastPeriod
    /\ stripe' = [stripe EXCEPT ![s] = [status |-> "active", ends |-> now + 1]]
    /\ sent' = sent \cup {[kind |-> "checkout.session.completed", sub |-> s, ends |-> now + 1]}
    /\ UNCHANGED <<now, handler, processed, user, holds, consumed, summary, overwritten>>

Renew(s) ==
    /\ stripe[s].status = "active"
    /\ stripe[s].ends = now
    /\ now < LastPeriod
    /\ stripe' = [stripe EXCEPT ![s].ends = now + 1]
    /\ sent' = sent \cup {[kind |-> "invoice.payment_succeeded", sub |-> s, ends |-> now + 1]}
    /\ UNCHANGED <<now, handler, processed, user, holds, consumed, summary, overwritten>>

(* At once or at the end of the period. *)
Delete(s) ==
    /\ stripe[s].status = "active"
    /\ stripe' = [stripe EXCEPT ![s].status = "canceled"]
    /\ sent' = sent \cup {[kind |-> "customer.subscription.deleted", sub |-> s,
                           ends |-> stripe[s].ends]}
    /\ UNCHANGED <<now, handler, processed, user, holds, consumed, summary, overwritten>>

(* A period that ends is renewed or deleted before time goes on. *)
PeriodPasses ==
    /\ now < LastPeriod
    /\ \A s \in Subs : stripe[s].status = "active" => stripe[s].ends > now
    /\ now' = now + 1
    /\ UNCHANGED <<stripe, sent, handler, processed, user, holds, consumed, summary, overwritten>>

-----------------------------------------------------------------------------
(* The webhook *)

(* The subscription is retrieved as it is now; a deletion carries its own. *)
Retrieve(h, e) ==
    /\ handler[h] = Nothing
    /\ e \in sent
    /\ handler' = [handler EXCEPT ![h] =
           [event |-> e,
            ends |-> IF e.kind \in PaidKinds THEN stripe[e.sub].ends ELSE e.ends]]
    /\ UNCHANGED <<now, stripe, sent, processed, user, holds, consumed, summary, overwritten>>

ActivePatch(ends, used) ==
    [plan |-> "creator", status |-> "active", expires |-> ends,
     usage |-> [ends |-> ends, included |-> Grant, used |-> used,
                reserved |-> Canonical(user).usage.reserved]]

CheckoutPatch(ends) == ActivePatch(ends, 0)

(* What was used stays used when the period is the one already recorded. *)
RenewalPatch(ends) ==
    LET usg == Canonical(user).usage
    IN  ActivePatch(ends, IF usg.ends = ends THEN usg.used ELSE 0)

(* The usage is left as it is; merge writes no plan but the context's if the
   account reads as free. *)
CancellationPatch(ends) ==
    [user EXCEPT !.plan = IF Canonical(user).plan = "free" THEN "creator" ELSE Canonical(user).plan,
                 !.status = "canceled", !.expires = ends]

UserPatch(kind, ends) ==
    CASE kind = "checkout.session.completed" -> CheckoutPatch(ends)
      [] kind = "invoice.payment_succeeded" -> RenewalPatch(ends)
      [] kind = "customer.subscription.deleted" -> CancellationPatch(ends)

(* Mutant: the marker is not looked at. *)
ApplyAgain(h) ==
    /\ handler[h] # Nothing
    /\ user' = UserPatch(handler[h].event.kind, handler[h].ends)
    /\ processed' = processed \cup {handler[h].event}
    /\ handler' = [handler EXCEPT ![h] = Nothing]
    /\ UNCHANGED <<now, stripe, sent, holds, consumed, summary, overwritten>>

(* applyWebhookTransaction: the patch and the marker, or neither. *)
Apply(h) ==
    /\ handler[h] # Nothing
    /\ IF handler[h].event \in processed
       THEN UNCHANGED <<user, processed>>
       ELSE /\ user' = UserPatch(handler[h].event.kind, handler[h].ends)
            /\ processed' = processed \cup {handler[h].event}
    /\ handler' = [handler EXCEPT ![h] = Nothing]
    /\ UNCHANGED <<now, stripe, sent, holds, consumed, summary, overwritten>>

(* 500: Stripe will send the event again. *)
HandlerThrows(h) ==
    /\ handler[h] # Nothing
    /\ handler' = [handler EXCEPT ![h] = Nothing]
    /\ UNCHANGED <<now, stripe, sent, processed, user, holds, consumed, summary, overwritten>>

-----------------------------------------------------------------------------
(* Renders and syncs of the account; their transactions write the canonical
   plan and membership with the usage. *)

TakeTime(n) ==
    /\ holds = 0
    /\ consumed + n <= MaxConsumed
    /\ Left(Canonical(user).usage) >= n
    /\ user' = [Canonical(user) EXCEPT !.usage.reserved = @ + n]
    /\ holds' = n
    /\ UNCHANGED <<now, stripe, sent, handler, processed, consumed, summary, overwritten>>

ChargeTime ==
    /\ holds > 0
    /\ user' = [Canonical(user) EXCEPT !.usage.reserved = NotBelowZero(@ - holds),
                                     !.usage.used = @ + holds]
    /\ consumed' = consumed + holds
    /\ holds' = 0
    /\ UNCHANGED <<now, stripe, sent, handler, processed, summary, overwritten>>

ReturnTime ==
    /\ holds > 0
    /\ user' = [Canonical(user) EXCEPT !.usage.reserved = NotBelowZero(@ - holds)]
    /\ holds' = 0
    /\ UNCHANGED <<now, stripe, sent, handler, processed, consumed, summary, overwritten>>

(* ensureCanonicalUsageState reads, and writes what it has read. *)
ReadSummary(r) ==
    /\ summary[r] = Nothing
    /\ summary' = [summary EXCEPT ![r] = [read |-> user, write |-> Canonical(user)]]
    /\ UNCHANGED <<now, stripe, sent, handler, processed, user, holds, consumed, overwritten>>

WriteSummary(r) ==
    /\ summary[r] # Nothing
    /\ user' = summary[r].write
    /\ \/ user = summary[r].read /\ UNCHANGED overwritten
       \/ /\ user # summary[r].read
          /\ overwritten < MaxOverwrites
          /\ overwritten' = overwritten + 1
    /\ summary' = [summary EXCEPT ![r] = Nothing]
    /\ UNCHANGED <<now, stripe, sent, handler, processed, holds, consumed>>

-----------------------------------------------------------------------------
(* An account that has asked for its usage, and one that has not. *)
MemberInit ==
    /\ now = 0
    /\ stripe = [s \in Subs |-> [status |-> "none", ends |-> 0]]
    /\ sent = {}
    /\ handler = [h \in Handlers |-> Nothing]
    /\ processed = {}
    /\ \E usg \in {Nothing, [ends |-> Nothing, included |-> 0, used |-> 0, reserved |-> 0]} :
           user = [plan |-> "free", status |-> "inactive", expires |-> Nothing, usage |-> usg]
    /\ holds = 0
    /\ consumed = 0
    /\ summary = [r \in Summaries |-> Nothing]
    /\ overwritten = 0

StripeStep ==
    \/ \E s \in Subs : Pay(s) \/ Renew(s) \/ Delete(s)
    \/ PeriodPasses

WebhookStep(h) ==
    \/ \E e \in sent : Retrieve(h, e)
    \/ Apply(h)
    \/ HandlerThrows(h)

UsageStep ==
    \/ \E n \in Amounts : TakeTime(n)
    \/ ChargeTime
    \/ ReturnTime
    \/ \E r \in Summaries : ReadSummary(r) \/ WriteSummary(r)

MemberNext ==
    \/ StripeStep
    \/ \E h \in Handlers : WebhookStep(h)
    \/ UsageStep

MemberSpec == MemberInit /\ [][MemberNext]_memberVars

-----------------------------------------------------------------------------
(* Properties *)

(* Every variable keeps its type. *)
MemberTypeOK ==
    /\ now \in Times
    /\ stripe \in [Subs -> Subscription]
    /\ sent \subseteq Event
    /\ handler \in [Handlers -> [event : Event, ends : Times] \cup {Nothing}]
    /\ processed \subseteq sent
    /\ user \in User
    /\ holds \in Nat
    /\ consumed \in Nat
    /\ summary \in [Summaries -> [read : User, write : User] \cup {Nothing}]
    /\ overwritten \in Nat

(* All the time an account is ever charged, has reserved or may still take is
   paid for: an event grants the time of one period at most, however often and
   in whatever order events arrive and their handlers run, and so does each
   usage summary that is written over a change it has not read.  It is once per
   event and not once per period: a checkout handled after the renewal grants
   the renewed period again, and the period it was for never.  A deletion counts
   when the account had no usage yet: normalisation then reads the plan's grant. *)
GrantedOncePerEvent ==
    consumed + holds + Left(Canonical(user).usage)
        <= Grant * (Cardinality(processed) + overwritten)

(* By how much what is reserved is off from what attempts hold *)
MemberDrift == Canonical(user).usage.reserved - holds

(* No webhook and no end of a period loses a reservation or leaves one, so that
   releasing it later cannot take from another period.  Only a summary that is
   written over a change does; a release that finds less than it held makes it
   good. *)
ReservationCarried ==
    \/ overwritten' > overwritten
    \/ MemberDrift' = MemberDrift
    \/ MemberDrift < MemberDrift' /\ MemberDrift' <= 0

(* Periods are exact, whatever Stripe sends: after every step an event has granted
   once at most, and what is held over the end of a period is held in the next. *)
PeriodsExact == [][GrantedOncePerEvent' /\ ReservationCarried]_memberVars

Committed(kind, s) == \E e \in processed : e.kind = kind /\ e.sub = s

(* "Return 200 only after the webhook event was safely committed": what a
   committed checkout has given stays given until a deletion is committed. *)
CommittedPlanStays ==
    \A s \in Subs :
        /\ Committed("checkout.session.completed", s)
        /\ \A t \in Subs : ~Committed("customer.subscription.deleted", t)
        => user.plan = "creator" /\ user.status = "active"
=============================================================================
