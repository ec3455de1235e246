--------------------------- MODULE Subscriptions ---------------------------
(***************************************************************************)
(* Paid subscriptions of locations.  The gateway keeps a record of each    *)
(* subscription; what is billed is the subscription in Stripe.  A request  *)
(* creates, reactivates or cancels it in Stripe, and Stripe reports every  *)
(* change by a webhook, which writes the record.                           *)
(*                                                                         *)
(* Source: src/src/core/subscription/SubscriptionService.ts and its        *)
(* resolver and table, src/src/subscription/stripe/*,                      *)
(* src/src/concurrency/ConcurrencyService.ts and                           *)
(* LocationService.removeLocation.  Requests and webhooks run in several   *)
(* processes; each call of a table, of Redis or of Stripe is a step of its *)
(* own.  Users, plans and payment sources are valid, records of the old    *)
(* subscription table are migrated, and all locations belong to one Stripe *)
(* customer.                                                               *)
(***************************************************************************)
EXTENDS Naturals, FiniteSets, SequencesExt

CONSTANTS
    Location,     \* location ids of one customer
    Id,           \* subscription ids in the gateway (uuids)
    Sub,          \* subscription ids in Stripe
    Unknown,      \* '_UNKNOWN_', the subscriptionId of a stub
    Process,      \* requests and webhooks that may run at the same time
    Ordered,      \* Stripe sends the next event of a subscription after the last one
    MaxEvents,    \* bound: events of a subscription that wait for delivery
    MaxRequests,  \* bound: requests
    MaxChanges,   \* bound: changes of Stripe's own accord
    MaxFailures   \* bound: requests that stop half-way, and locks that expire

ASSUME SubscriptionAssumption ==
    /\ Unknown \notin Sub
    /\ Ordered \in BOOLEAN
    /\ MaxEvents \in Nat
    /\ MaxRequests \in Nat
    /\ MaxChanges \in Nat
    /\ MaxFailures \in Nat

VARIABLES
    record,     \* [Id -> record]: the Subscription table
    locations,  \* the locations that exist
    lock,       \* [Location -> "free" or "held"]: subscription:mutex:<location>
    stripe,     \* [Sub -> subscription]: what Stripe bills
    events,     \* [Sub -> sequence of events that Stripe has still to deliver]
    process,    \* progress of each request and webhook
    requests,   \* requests so far
    changes,    \* changes of Stripe's own accord so far
    failures,   \* failures so far
    excuse      \* history: [Location -> ways in which its state may have been spoilt]

vars ==
    <<record, locations, lock, stripe, events, process, requests, changes, failures, excuse>>

Nothing == [status |-> "none"]
Idle == [pc |-> "idle"]
Become(p, state) == process' = [process EXCEPT ![p] = state]

(* Notes that the state of the locations L may be spoilt in this way.      *)
Excuse(L, kind) ==
    excuse' = [l \in Location |-> IF l \in L THEN excuse[l] \cup {kind} ELSE excuse[l]]
ExcuseIf(cond, l, kind) == Excuse(IF cond THEN {l} ELSE {}, kind)

Active(s) == s.status = "active"
Known(id) == record[id].status # "none"
Live(s) == stripe[s].status \notin {"none", "canceled"}

Init ==
    /\ record = [id \in Id |-> Nothing]
    /\ locations = Location
    /\ lock = [l \in Location |-> "free"]
    /\ stripe = [s \in Sub |-> Nothing]
    /\ events = [s \in Sub |-> <<>>]
    /\ process = [p \in Process |-> Idle]
    /\ requests = 0
    /\ changes = 0
    /\ failures = 0
    /\ excuse = [l \in Location |-> {}]

(* getByRelatedEntityId: the first row of the index, any if there are two. *)
At(l) == {id \in Id : Known(id) /\ record[id].location = l}

(* getByProviderCustomerId: a stub has the customer '_UNKNOWN_'.           *)
OfCustomer == {id \in Id : Known(id) /\ record[id].sub # Unknown}

(* The id of a record that is not there yet.                               *)
Unused == {id \in Id : ~Known(id) /\
              \A p \in Process : "id" \in DOMAIN process[p] => process[p].id # id}

(* formatProviderData of a Stripe subscription, and a webhook's event.     *)
Snapshot(s) == [location |-> stripe[s].location, sub |-> s,
                status |-> stripe[s].status, ends |-> stripe[s].ends]

(* A process has found no record for l and is about to give it one.        *)
Adding(q, l) ==
    \/ q.pc \in {"lock", "stub"} /\ q.location = l /\ ~Known(q.id)
    \/ /\ q.pc = "hook" /\ q.event.location = l
       /\ Known(q.id) => record[q.id].location # l
AddingElsewhere(p, l) == \E q \in Process \ {p} : Adding(process[q], l)

-----------------------------------------------------------------------------
(* Stripe: every change is reported by an event.                           *)
Report(s, new, type) ==
    /\ Len(events[s]) < MaxEvents
    /\ stripe' = [stripe EXCEPT ![s] = new]
    /\ events' = IF new = stripe[s] THEN events
                 ELSE [events EXCEPT ![s] = Append(@,
                    [type |-> type, location |-> new.location, sub |-> s,
                     status |-> new.status, ends |-> new.ends])]

NewInStripe(s, l, status) ==
    /\ stripe[s].status = "none"
    /\ Report(s, [location |-> l, status |-> status, ends |-> FALSE], "created")

(* A payment succeeds or fails, the last period ends, or somebody adds a   *)
(* subscription for a location in Stripe itself.                           *)
StripeChanges(s) ==
    /\ changes < MaxChanges
    /\ changes' = changes + 1
    /\ \/ /\ stripe[s].status \in {"incomplete", "past_due"}
          /\ Report(s, [stripe[s] EXCEPT !.status = "active"], "updated")
       \/ /\ stripe[s].status = "active"
          /\ Report(s, [stripe[s] EXCEPT !.status = "past_due"], "updated")
       \/ /\ stripe[s].status = "active" /\ stripe[s].ends
          /\ Report(s, [stripe[s] EXCEPT !.status = "canceled"], "deleted")
       \/ \E l \in locations : NewInStripe(s, l, "active")
    /\ UNCHANGED <<record, locations, lock, process, requests, failures, excuse>>

-----------------------------------------------------------------------------
(* createSubscription.                                                     *)

Moribund(r) == Active(r) /\ r.ends
Delinquent(r) == r.status \in {"past_due", "incomplete"}
Reactivable(r) == Moribund(r) \/ Delinquent(r)

(* The location's record decides: reactivate, refuse, or create.           *)
CreateSubscription(p, l) ==
    /\ process[p].pc = "idle"
    /\ requests < MaxRequests
    /\ requests' = requests + 1
    /\ l \in locations
    /\ \/ \E id \in At(l) :
            /\ Reactivable(record[id])
            /\ Become(p, [pc |-> "reactivate", sub |-> record[id].sub])
            /\ UNCHANGED excuse
       \/ \E id \in At(l) :
            /\ ~Reactivable(record[id]) /\ ~Active(record[id])
            /\ Become(p, [pc |-> "lock", location |-> l, id |-> id, seen |-> record[id].sub])
            /\ UNCHANGED excuse
       \/ /\ At(l) = {}
          /\ \E id \in Unused :
                Become(p, [pc |-> "lock", location |-> l, id |-> id, seen |-> Unknown])
          /\ ExcuseIf(AddingElsewhere(p, l), l, "overlap")
    /\ UNCHANGED <<record, locations, lock, stripe, events, changes, failures>>

(* Mutant: SET without NX.                                                 *)
AcquireLockAnyway(p) ==
    /\ process[p].pc = "lock"
    /\ lock' = [lock EXCEPT ![process[p].location] = "held"]
    /\ Become(p, [process[p] EXCEPT !.pc = "stub"])
    /\ UNCHANGED <<record, locations, stripe, events, requests, changes, failures, excuse>>

(* acquireLock: SET NX EX 120; 'Subscription in creation process.' if held *)
AcquireLock(p) ==
    /\ process[p].pc = "lock"
    /\ LET l == process[p].location
       IN  IF lock[l] = "free"
           THEN /\ lock' = [lock EXCEPT ![l] = "held"]
                /\ Become(p, [process[p] EXCEPT !.pc = "stub"])
           ELSE UNCHANGED lock /\ Become(p, Idle)
    /\ UNCHANGED <<record, locations, stripe, events, requests, changes, failures, excuse>>

(* createLocalSubscription(subscriptionStub): put, over the record that    *)
(* was read before the lock was taken.  A stub has no status of Stripe's:  *)
(* "_PENDING_" stands for that.                                            *)
PutStub(p) ==
    /\ process[p].pc = "stub"
    /\ LET l == process[p].location
           id == process[p].id
       IN  /\ record' = [record EXCEPT ![id] =
                  [location |-> l, sub |-> Unknown, status |-> "_PENDING_", ends |-> FALSE]]
           /\ Excuse(IF Known(id) /\ <<record[id].sub, record[id].location>> # <<process[p].seen, l>>
                     THEN {l, record[id].location} ELSE {}, "clobber")
    /\ Become(p, [pc |-> "provider", location |-> process[p].location])
    /\ UNCHANGED <<locations, lock, stripe, events, requests, changes, failures>>

(* subscriptionProvider.createSubscription: Stripe may charge at once,     *)
(* later, or refuse.  Whatever it answers is not written to the record.    *)
CreateInStripe(p) ==
    /\ process[p].pc = "provider"
    /\ \/ \E s \in Sub, status \in {"incomplete", "active"} :
            NewInStripe(s, process[p].location, status)
       \/ UNCHANGED <<stripe, events>>
    /\ Become(p, [process[p] EXCEPT !.pc = "release"])
    /\ UNCHANGED <<record, locations, lock, requests, changes, failures, excuse>>

(* In the section that the lock guards.                                    *)
Creating(p, l) ==
    process[p].pc \in {"stub", "provider", "release"} /\ process[p].location = l

(* finally releaseLock: DEL, whoever holds the lock now.                   *)
ReleaseLock(p) ==
    /\ process[p].pc = "release"
    /\ lock' = [lock EXCEPT ![process[p].location] = "free"]
    /\ Become(p, Idle)
    /\ UNCHANGED <<record, locations, stripe, events, requests, changes, failures, excuse>>

LockExpires(l) ==
    /\ lock[l] = "held"
    /\ failures < MaxFailures
    /\ failures' = failures + 1
    /\ lock' = [lock EXCEPT ![l] = "free"]
    /\ ExcuseIf(\E p \in Process : Creating(p, l), l, "lapse")
    /\ UNCHANGED <<record, locations, stripe, events, process, requests, changes>>

(* reactiveSubscription: Stripe refuses to update a canceled subscription. *)
Reactivate(p) ==
    /\ process[p].pc = "reactivate"
    /\ LET s == process[p].sub
       IN  IF Live(s) THEN Report(s, [stripe[s] EXCEPT !.ends = FALSE], "updated")
                      ELSE UNCHANGED <<stripe, events>>
    /\ Become(p, Idle)
    /\ UNCHANGED <<record, locations, lock, requests, changes, failures, excuse>>

-----------------------------------------------------------------------------
(* cancelSubscription: read the record, cancel in Stripe, write the        *)
(* record from Stripe's answer.                                            *)

ReadToCancel(p, id, immediately) ==
    Become(p, IF Known(id) /\ record[id].status # "canceled"
              THEN [pc |-> "cancel", id |-> id, sub |-> record[id].sub,
                    immediately |-> immediately]
              ELSE Idle)     \* 'Subscription already canceled.'

CancelSubscription(p, id, immediately) ==
    /\ process[p].pc = "idle"
    /\ requests < MaxRequests
    /\ requests' = requests + 1
    /\ Known(id)
    /\ ReadToCancel(p, id, immediately)
    /\ UNCHANGED <<record, locations, lock, stripe, events, changes, failures, excuse>>

(* Stripe knows neither '_UNKNOWN_' nor a canceled subscription: it throws *)
CancelInStripe(p) ==
    /\ process[p].pc = "cancel"
    /\ LET q == process[p]
           new == IF q.immediately THEN [stripe[q.sub] EXCEPT !.status = "canceled"]
                                   ELSE [stripe[q.sub] EXCEPT !.ends = TRUE]
       IN  IF q.sub \in Sub /\ Live(q.sub)
           THEN /\ Report(q.sub, new, IF q.immediately THEN "deleted" ELSE "updated")
                /\ Become(p, [pc |-> "saveCancel", id |-> q.id, sub |-> q.sub,
                              status |-> new.status, ends |-> new.ends])
           ELSE UNCHANGED <<stripe, events>> /\ Become(p, Idle)
    /\ UNCHANGED <<record, locations, lock, requests, changes, failures, excuse>>

SaveCanceled(p) ==
    /\ process[p].pc = "saveCancel"
    /\ LET q == process[p]
       IN  /\ record' = [record EXCEPT ![q.id] =
                  [@ EXCEPT !.sub = q.sub, !.status = q.status, !.ends = q.ends]]
           /\ ExcuseIf(\/ record[q.id].sub # q.sub
                       \/ <<q.status, q.ends>> # <<stripe[q.sub].status, stripe[q.sub].ends>>,
                       record[q.id].location, "late")
    /\ Become(p, Idle)
    /\ UNCHANGED <<locations, lock, stripe, events, requests, changes, failures>>

(* LocationService.removeLocation: read the subscription, remove the       *)
(* location, cancel the subscription at once.                              *)
RemoveLocation(p, l) ==
    /\ process[p].pc = "idle"
    /\ requests < MaxRequests
    /\ requests' = requests + 1
    /\ l \in locations
    /\ \/ At(l) = {} /\ Become(p, [pc |-> "removeRecord", location |-> l, found |-> {}])
       \/ \E id \in At(l) :
            Become(p, [pc |-> "removeRecord", location |-> l, found |-> {id}])
    /\ UNCHANGED <<record, locations, lock, stripe, events, changes, failures, excuse>>

(* A webhook has checked that the location exists and is about to write.   *)
Crossing(l) ==
    \E p \in Process : /\ process[p].pc = "hook" /\ process[p].check = "done"
                       /\ process[p].event.location = l

(* The removal throws if another request has removed the location.         *)
RemoveLocationRecord(p) ==
    /\ process[p].pc = "removeRecord"
    /\ locations' = locations \ {process[p].location}
    /\ Become(p, IF process[p].found = {} \/ process[p].location \notin locations THEN Idle
                 ELSE [process[p] EXCEPT !.pc = "removeCancel"])
    /\ excuse' = [l \in Location |-> IF l # process[p].location THEN excuse[l] ELSE
            excuse[l] \cup (IF At(l) # process[p].found THEN {"overlap"} ELSE {})
                      \cup (IF Crossing(l) THEN {"crossed"} ELSE {})]
    /\ UNCHANGED <<record, lock, stripe, events, requests, changes, failures>>

CancelRemoved(p) ==
    /\ process[p].pc = "removeCancel"
    /\ \E id \in process[p].found : ReadToCancel(p, id, TRUE)
    /\ UNCHANGED <<record, locations, lock, stripe, events, requests, changes, failures, excuse>>

-----------------------------------------------------------------------------
(* Webhooks.  Stripe sends an event again until it is acknowledged.        *)

Handling(s) == \E p \in Process : process[p].pc = "hook" /\ process[p].event.sub = s

Acknowledge(e) ==
    events' = [events EXCEPT ![e.sub] = RemoveFirst(@, e)]

(* A new record is put; for one that is there, the location of the event   *)
(* is due to be checked.                                                   *)
Write(p, id, e) ==
    Become(p, [pc |-> "hook", id |-> id, event |-> e, check |-> IF Known(id) THEN "due" ELSE "none"])

(* Mutants: always a new record, and nothing if there is a record.         *)
WebhookCreatedAnew(p, e) ==
    /\ e.type = "created"
    /\ \E id \in Unused : Write(p, id, e)
    /\ UNCHANGED <<events, excuse>>

WebhookCreatedOnce(p, e) ==
    /\ e.type = "created"
    /\ IF At(e.location) = {}
       THEN /\ \E id \in Unused : Write(p, id, e)
            /\ UNCHANGED events
       ELSE Acknowledge(e) /\ UNCHANGED process
    /\ UNCHANGED excuse

(* handleSubscriptionCreated: the record of the location, else the first   *)
(* record of the customer, else a new record.                              *)
WebhookCreated(p, e) ==
    /\ e.type = "created"
    /\ \/ /\ \E id \in At(e.location) : Write(p, id, e)
          /\ UNCHANGED excuse
       \/ /\ At(e.location) = {}
          /\ \E id \in IF OfCustomer # {} THEN OfCustomer ELSE Unused : Write(p, id, e)
          /\ ExcuseIf(AddingElsewhere(p, e.location), e.location, "overlap")
    /\ UNCHANGED events

(* Mutant: no event overwrites an active record.                           *)
IsDuplicateIfActive(r, e) == Active(r)

(* An active record is not overwritten for another Stripe subscription.    *)
IsDuplicate(r, e) == Active(r) /\ r.sub # e.sub

(* handleSubscriptionUpdated, also for "deleted".                          *)
WebhookUpdated(p, e) ==
    /\ e.type # "created"
    /\ \/ \E id \in At(e.location) :
            /\ ~IsDuplicate(record[id], e)
            /\ Write(p, id, e)
            /\ UNCHANGED events
       \/ /\ \/ At(e.location) = {}
             \/ \E id \in At(e.location) : IsDuplicate(record[id], e)
          /\ Acknowledge(e)
          /\ UNCHANGED process
    /\ UNCHANGED excuse

Webhook(p, s) ==
    /\ process[p].pc = "idle"
    /\ Ordered => ~Handling(s)
    /\ \E i \in 1..Len(events[s]) :
        /\ Ordered => i = 1
        /\ WebhookCreated(p, events[s][i]) \/ WebhookUpdated(p, events[s][i])
    /\ UNCHANGED <<record, locations, lock, stripe, requests, changes, failures>>

Written(e) == [location |-> e.location, sub |-> e.sub, status |-> e.status, ends |-> e.ends]

(* Mutant: takes the location for granted.                                 *)
ValidateNothing(p) ==
    /\ process[p].pc = "hook" /\ process[p].check = "due"
    /\ Become(p, [process[p] EXCEPT !.check = "done"])
    /\ UNCHANGED <<record, locations, lock, stripe, events, requests, changes, failures, excuse>>

(* updateSubscription asks whether the location exists, and throws if it   *)
(* does not, each time, until Stripe gives up.                             *)
ValidateLocationExists(p) ==
    LET q == process[p] IN
    /\ q.pc = "hook" /\ q.check = "due"
    /\ IF q.event.location \in locations
       THEN Become(p, [q EXCEPT !.check = "done"]) /\ UNCHANGED events
       ELSE Become(p, Idle) /\ Acknowledge(q.event)
    /\ UNCHANGED <<record, locations, lock, stripe, requests, changes, failures, excuse>>

(* createLocalSubscription of a new record, or updatePartial of one that   *)
(* is there.  The location may be gone: the one of a new record was never  *)
(* checked, and another may be removed between the check and the write.    *)
WriteFromWebhook(p) ==
    LET q == process[p]
        e == q.event
        old == record[q.id]
        gone == \/ q.check = "none"
                \/ /\ "crossed" \in excuse[e.location]
                   /\ <<old.location, old.sub>> # <<e.location, e.sub>>
    IN  /\ q.pc = "hook" /\ q.check # "due"
        /\ record' = [record EXCEPT ![q.id] = Written(e)]
        /\ Acknowledge(e) \/ UNCHANGED events     \* the answer may be lost
        /\ excuse' = [l \in Location |-> excuse[l]
              \cup (IF Known(q.id) /\ old.location = l /\ e.location # l THEN {"moved"} ELSE {})
              \cup (IF e.location = l /\ l \notin locations /\ gone THEN {"gone"} ELSE {})]
        /\ Become(p, Idle)
        /\ UNCHANGED <<locations, lock, stripe, requests, changes, failures>>

-----------------------------------------------------------------------------
(* The process stops before the request is done; a webhook comes again.    *)
Crash(p) ==
    /\ process[p].pc # "idle"
    /\ failures < MaxFailures
    /\ failures' = failures + 1
    /\ Become(p, Idle)
    /\ UNCHANGED <<record, locations, lock, stripe, events, requests, changes, excuse>>

Request(p) ==
    \/ \E l \in Location : CreateSubscription(p, l) \/ RemoveLocation(p, l)
    \/ \E id \in Id, immediately \in BOOLEAN : CancelSubscription(p, id, immediately)

Step(p) ==
    \/ AcquireLock(p) \/ PutStub(p) \/ CreateInStripe(p) \/ ReleaseLock(p)
    \/ Reactivate(p)
    \/ CancelInStripe(p) \/ SaveCanceled(p)
    \/ RemoveLocationRecord(p) \/ CancelRemoved(p)
    \/ ValidateLocationExists(p) \/ WriteFromWebhook(p)

Next ==
    \/ \E p \in Process :
        \/ Request(p)
        \/ \E s \in Sub : Webhook(p, s)
        \/ Step(p)
        \/ Crash(p)
    \/ \E l \in Location : LockExpires(l)
    \/ \E s \in Sub : StripeChanges(s)

Spec == Init /\ [][Next]_vars

-----------------------------------------------------------------------------
Quiet == \A p \in Process : process[p].pc = "idle"

(* Every event of Stripe's has been handled.                               *)
Settled == Quiet /\ \A s \in Sub : events[s] = <<>>

(* Creations of subscriptions for the same location exclude each other     *)
(* from the stub to Stripe's answer, unless one outlives the lock's 120    *)
(* seconds.                                                                *)
OneCreationAtATime ==
    \A l \in Location : "lapse" \notin excuse[l] =>
        \A p, q \in Process : Creating(p, l) /\ Creating(q, l) => p = q

(* The stub is there before Stripe's first event, so a webhook finds it    *)
(* and adds no second record ("so race condition with webhook does not     *)
(* create duplicate record").  A location gets two records only when two   *)
(* processes look for its record before either adds one, or a stub is put  *)
(* over a record that a webhook has written in between.                    *)
OneRecordPerLocation ==
    \A l \in Location :
        excuse[l] \cap {"overlap", "clobber"} = {} => Cardinality(At(l)) <= 1

(* A subscription that is billed for a location is the one its record      *)
(* names once all events are handled, though the request that created it   *)
(* never writes it and may have stopped half-way, and whatever the order   *)
(* of the events.  The exceptions: a stub put over a record that a webhook *)
(* wrote in between, a record moved to another location of the customer, a *)
(* cancellation saved late, or two subscriptions in Stripe.                *)
PaidIsRecorded ==
    Settled => \A s \in Sub :
        LET l == stripe[s].location
        IN  (/\ Live(s)
             /\ l \in locations
             /\ excuse[l] = {}
             /\ \A t \in Sub \ {s} : stripe[t].status # "none" => stripe[t].location # l)
            => \E id \in At(l) : record[id].sub = s

(* If Stripe's events of a subscription come in order (again, perhaps),    *)
(* the record that names it ends with its status and its cancellation,     *)
(* unless the location was removed, a cancellation was saved late, or a    *)
(* stub was put over a record that changed, which may give it two records. *)
RecordMirrorsStripe ==
    Settled => \A id \in Id :
        (Known(id) /\ record[id].sub \in Sub
         /\ record[id].location \in locations
         /\ excuse[record[id].location] \cap {"overlap", "clobber", "late"} = {})
        => record[id] = Snapshot(record[id].sub)

(* Removing a location cancels the subscription its record names, even if  *)
(* webhooks change it meanwhile, unless the removal stopped half-way, the  *)
(* record came while it ran, or a webhook wrote another subscription to it *)
(* when the location was gone: as a new record, or after it had checked    *)
(* the location and met its removal.                                       *)
RemovedIsCanceled ==
    Quiet /\ failures = 0 => \A id \in Id :
        (Known(id) /\ record[id].sub \in Sub
         /\ record[id].location \notin locations
         /\ excuse[record[id].location] \cap {"overlap", "late", "gone"} = {})
        => ~Live(record[id].sub)

(* A location is billed once: creating a second subscription is refused    *)
(* ("A Subscription already exists for the given Location").               *)
BilledOnce ==
    \A s, t \in Sub :
        Live(s) /\ Live(t) /\ stripe[s].location = stripe[t].location => s = t

=============================================================================
