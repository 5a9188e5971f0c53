# A TLA+ verification of the Shearix platform

Shearix is a multi-tenant booking platform for barber shops: nine Go services
behind a gateway, each with a PostgreSQL database of its own, Redis for caches
and sessions, and NATS JetStream between appointments and notifications. This
directory holds TLA+ modules translated from the services' source, the TLC
configurations that check them on small instances, and TLAPS proofs.

`PROJECT.json` lists the components, the runs, the source lines behind each
definition, the known disagreements between code and documentation, the hazards
and the theorems.

## The system

| part | state | operations | what is hard |
|---|---|---|---|
| appointment-service, booking | appointments, idempotency keys, outbox rows | create, replay, reschedule, confirm / complete / no-show, cancel | a slot check in another service before the transaction; concurrent retries; stale reads before a commit; crashes after a commit |
| appointment-service, outbox | outbox rows with lease, attempts, `failed_at` | claim, publish, mark, release, retention | replicas that outlive leases without a token; lost acknowledgements; outages in mid-batch |
| notification-service, consumer | JetStream durable, `email_notifications` | fetch, plan, cancel reminders, ack / nak / term, audit | redelivery during handling; several transactions per message; events out of order |
| notification-service, worker | leases and claim tokens on the same rows | claim, send, finish | a batch longer than its lease; sends that fail after the server took the mail |
| scheduling-service | working hours, overrides, blocks | replace, save, delete, availability | interval arithmetic with buffers; a day read in several transactions |
| tenant-service | tenants, domains, settings, Redis caches | onboarding, verification, activation, suspension, settings | a cache filled by a reader that started before an invalidation |
| auth-service | identities, memberships, sessions, credential delivery | login, register, role and status changes, password change and reset | the last owner under concurrent demotions; logins racing password changes; delivery claims |
| customer-service | customers, sessions, credential delivery | the same for customers and guests | password and sessions changed in separate transactions |
| barber-service, catalog-service | branches, barbers, services, assignments | save, link, assign | what one service checks in another before it commits |
| gateway-service | one path per member route | host resolution, forwarding | a stale resolution; a captured path that is overwritten |
| platform libraries, web applications | none that the protocols depend on | | |

A customer books through the gateway; appointment-service asks customer, barber,
catalog, tenant and scheduling services, then commits the appointment, its key
and its event in one transaction. The outbox publisher relays the event to
JetStream. notification-service plans mails and reminders from it and delivers
them.

## The modules

### Calendar

What the customers of a barber may rely on, in four actions over one variable:
a slot is taken only when it is free of every other held slot of its barber, it
can be moved under the same condition, and it can be released.

### Booking

`Booking.tla` models `appointment-service`: `BookingService.Create`,
`LifecycleService`, the repository's transactions, the HTTP handler's answers,
and the parts of scheduling, catalog and tenant services a booking reads.

* `appointments`, `keys` and `events` are the three tables a booking
  transaction writes. A row keeps its status, barber, customer and times; the
  `tstzrange` exclusion constraint is `Excluded`, the table's CHECK constraints
  are `ChecksHold`. The events of an appointment are a set: `created_at` is the start
  of the transaction that wrote them, so it does not order them as they were committed.
* `requests` holds what each concurrent HTTP request is doing. The code makes
  its calls to other services before it opens its transaction, so a create is
  seven steps (receive, replay, read the service, check the slot, lock the key,
  insert, answer) and anything may happen between two of them; each database
  transaction is one step.
* `catalog` and `notice` are the service's shape and the cancellation policy,
  which other services edit at any time; `now` is the clock.
* A request can be lost at any step (`Crash`), and its client may send it again
  with the same key. Dependencies and transactions can fail.
* Keys expire after seven days (`ExpireKey`); `expired` remembers that.

`SlotCheckApps` says which applications the availability endpoint answers. As
deployed that is the booking application only, which `booking_retry` uses. `booking`
lets it answer the admin application too, as the service's own tests do with a stub;
otherwise no admin request would get past the slot check (see below).

A `load`, chosen in `Init`, says which requests, appointments, services, policies and
decisions a behaviour sees: retries of a create, moves of two appointments, a move as
the service is edited, a customer who cancels as the appointment is moved and the
policy edited.

### Outbox

`Outbox.tla` models `outbox/publisher.go` and the SQL functions behind it, with
several replicas. A row's lease is free, held, or older than a minute; there is
no token, so `Mark` and `Release` look only at what the SQL looks at. The broker
(external) stores a message unless it still remembers its id, may be down at any
moment, and may store a message and lose the acknowledgement. `PublishMsg` is called
without a deadline: between `Publish` and its end (`Acknowledge`, `Refuse`) the message
may arrive (`Arrive`), the lease may run out, and the end may never come. `stream`
counts copies up to two. `MaxFaults` bounds crashes and failed database calls.

`Relay.tla` is what the outbox promises to whoever records an event, with no
publishers, leases or batches: an event is stored in the stream only after it is
recorded, counts as published only once it is stored, is given up only when its
failures reach the bound, and is forgotten only when it is published. An event
that was given up may still be published by a publisher that is late, which
`outbox_terminal` shows to matter. The mapping (`record`, `delivered`) reads the
state of an event from its row and forgets the lease and the number of copies.

### Notifications

`Notifications.tla` models `consumer.go`, `worker.go` and their SQL. A consumer
handles one message in several transactions (`Plan`, `CancelReminders`,
`ReadOffsets`, `PlanReminder`), any of which may fail; the broker (external)
delivers a message again when it is not acknowledged in time, even while it is
being handled, up to `MaxDeliver` times. A worker claims rows under a token,
modelled by `attempt_count` because each claim increments it, sends them one by
one and finishes each under its token. An event may come without a start
(`Undated`); it plans no reminders (`Reminds`). `mailed` counts what the mail server took.
`MaxFaults` bounds crashes, lost calls, and leases that run out during the work.

`Mailing.tla` is what the service promises of every notice, with no messages,
consumers, workers, leases or attempts: planned once, mailed only after it was
taken up, closed as sent only once it was mailed, put back and taken up again,
and over when it is sent, failed or cancelled; only a waiting reminder is
cancelled. Under the mapping (`statuses`, `taken`, `posted`) a notice is taken up
once its row has an attempt.

### Tenants and Gateway

`Tenants.tla` models tenant-service, `Gateway.tla` extends it with
gateway-service and holds the specification and the properties.

* A process is one request in flight; a step is one transaction, one Redis call
  or one DNS lookup. Each statement of `generated/queries.sql.go` is an operator
  that yields the row it returns or `NoRow`.
* `domainCache` and `settingsCache` are the two read-through caches. A fill is a
  step after the query it comes from, a deletion a step after the commit it
  follows; each may be lost, as the code ignores Redis errors. Two ghosts mark
  how a stale entry came about: `late` on a read that is overtaken by a denial,
  `excused` on an entry that is filled late or whose deletion is lost.
* `SetTenantStatus` and `CommitStatus` are the two ends of one transaction: the
  hostnames to delete are listed before it commits.
* A settings update is allowed to the roles of `CanManageTenantSettings`, and
  `publicConfig` reads the tenant and then the settings, two reads that a change may
  come between. The audit rows of a tenant are a set, for the reason given for events.
* Two settings fields stand for the seven, with four values: the zero value, the
  default, another valid one and one out of range.
* The gateway's handlers (`Proxy`, `Auth`, `Config`, `Frontend`) resolve the host
  first and then compare the app type of the route with that of the host.

A `Scenario`, chosen in `Init`, says which tenants and hosts exist at first, which
requests a behaviour sees and how many of them may change something. Operations
that touch no common row are put in different scenarios, so that their states add
up instead of multiplying.

### Members, Credentials, Customers and Accounts

`Members.tla` is the memberships of one tenant in auth-service, with the trigger
that protects the last owner and the gateway's member routes in front of it: one
closure per route, whose `path` all requests of the route read and write.
`Credentials.tla` is one staff account: its first password, which is mailed under
a claim that lapses, its sessions, changes and resets. `Customers.tla` is one
customer account of customer-service, which shares the delivery protocol and
differs in its transactions. `Accounts.tla` puts the three under one
specification, with crashes.

A password, a claim and a session token are the number of the request that made
them. `mailed` holds the passwords that reached the mailbox, `chosen` those the
user chose. A behaviour is about one `realm` (members, staff or customer); in
"staff" the member routes act on the account's holder, so that a deactivation can
race logins, changes and resets. The ghost `excused` marks a session that may
outlive the password it was opened with, and `asked` the members a route's
requests have named. The path of a route is read and written as a whole; what a torn
read of a Go string would make of it is left out.

### Shop, Availability and Scheduling

`Shop.tla` is what a tenant offers: branches, barbers and assignments of
barber-service, services and offers of catalog-service, and the checks one makes
in the other, or in auth-service, before its own transaction. `Availability.tla`
is the slot algorithm of scheduling-service as operators: the order in which the
database returns periods (`InOrder`), the loop over the starts of a window
(`Rounds`, `Walk`), the loop over the windows (`Available`), and beside them
`IsSlot`, a definition of a free slot that mentions no loop. `Scheduling.tla` adds
working hours, overrides and blocks, availability requests that read the day in
several transactions, and the properties.

Times count from the local midnight of one weekday. A behaviour is about one
`load`: access of a member to a booking, links between identities and barbers, or
the schedule of one barber (`Chair`). Ghosts remember what a property has to
compare with: replacements of the working hours and whether two of them raced,
values that have not changed while a request was reading, whether barber-service or
catalog-service failed to answer a query (`failed`), and whether a linked identity was
eligible when it was asked about.

Working hours are a set of periods, while a DELETE removes the rows it saw. A period
that is deleted and inserted again is another row; `Passed` takes it out of what the
DELETE of a replacement in flight has chosen.

catalog-service accepts a service of no duration and no buffers. Where two windows
of a day meet, such a service is free at the same instant in both, and the answer
lists it twice; it also covers no moment that could be busy. The properties of the
slots therefore make an exception where `TakesTime` is false, and the instance has
such a service and two windows that meet.

## What is checked

| run | shows |
|---|---|
| `booking` | no double booking, one appointment per retained key, answers that belong to their request, no unique-key race; the appointments implement `Calendar`; the events of an appointment tell its row in whatever order they are read; finished appointments stay so, and every request ends. Two requests at a time, two appointments, one barber, creates, reschedules and cancellations of both applications, a service of no duration among the shapes |
| `outbox` | nothing is lost; rows and stream implement `Relay`; every event is published or given up, whatever the broker refuses, as long as the publishes of one replica return |
| `notify_consume` | acknowledged messages are planned; a cancelled reminder is left as it is, and is never mailed unless it was claimed before; the service implements `Mailing`; two consumers, redelivery, a move and a cancellation in any order |
| `notify_deliver` | only the last claimant finishes a row; the service implements `Mailing` with failing sends, expired leases and the audit of terminated messages; every planned notification is sent, failed or cancelled in the end |
| `tenants` | verification and activation agree under races; a resolution, however stale, is that of the host's own tenant and app; a stale entry has one of three causes and expires; no host that resolves is denied; the settings cache settles |
| `accounts` | the tenant keeps its owners, and who acts as one is still one at the commit; the first password is delivered before it counts as delivered, and a delivery stays done; a session outlives its password only for a listed cause |
| `scheduling` | an identity is linked only when it was eligible, to a barber who had no link, and to one barber; access to a booking follows from the shop; slots are in order and exactly those of the reference definition, and "not found" is told exactly when the barber or the service cannot be booked or asked about; hours are one replacement unless two raced; a reader sees what lasted while it read |

Five runs show a place where the code does something else than a document, a
comment or a test says; `PROJECT.json` quotes the text.

| run | what happens |
|---|---|
| `booking_retry` | a concurrent retry is refused because its own appointment occupies the slot |
| `outbox_terminal` | a late acknowledgement marks a terminal row as published, and retention deletes it |
| `notify_replay` | a rescheduled event that is delivered again cancels the reminders it planned, and they stay cancelled |
| `tenants_denial` | a resolution queried before a deactivation is cached after it, and the host is routed until the entry expires |
| `member_route` | the second request of a member route acts on the member the first one named |

**Bounds.** Two of everything that can race (requests, publishers, workers,
consumers) is where the races appear: the constraints and locks of the code are
pairwise. Two attempts stand for twenty and for five, as the bound only has to be
reached, passed, and not reached. `MaxEvents`, `MaxNow`, `MaxFaults`,
`MaxClaims`, `MaxRequests`, `MaxSaves` and the budgets of the loads and scenarios
keep the state spaces finite and appear in guards only. Three or four requests, of which
two are in flight, are enough for a third to act between the steps of the first
two, and for a cause to lie in a request that is over. Runs whose finite supply of
requests or messages can be used up do not check deadlock.

**Fairness.** A request that is being served takes its next step (Go's scheduler
and the HTTP timeouts), and `Lock` is strongly fair because PostgreSQL grants an
advisory lock to its waiters in order. Publishers, consumers and workers poll in
endless loops and are weakly fair; leases and acknowledgement timeouts run out.
An outage ends, and up-times are long enough for a readiness probe now and then,
which is the strong fairness of `EnsureReady`. Nothing makes `PublishMsg` return, so
no fairness is assumed of its end; `EveryEventSettles` has the return of one replica's
publishes as its premise (`SomePublisherReturns`) and lets the others wait for ever
with their batches. A batch of mails that outlives its
lease counts as a fault: were that to happen every time, two workers could take
a row from each other for ever. In `tenants`, requests in flight go on because
every call has a timeout, and Redis expires its entries; nothing makes requests
arrive, and a request may be lost at any step.

## What the models say about the code

Besides the five violations, the properties are worded around behaviours that a
reader of the code might not expect. They are stated where they appear as the
alternatives of a property.

* **Denial is not immediate** (`tenants_denial`). What bounds the delay is that such an
  entry has one of three causes and expires (`StaleHasACause`,
  `DenialReachesTheCache`).
* **Admins cannot book or move.** The slot check of appointment-service asks the
  public availability endpoint, which answers the booking application only
  (scheduling-service `handler/http.go`, line 206): as deployed, every create and
  reschedule of an admin is refused as a conflict. With `SlotCheckApps` as in
  `BookingRetry.cfg` the model shows the same.
* **A publish may wait for ever** with its batch; the others take the rows over when the
  lease has run out (`EveryEventSettles`).
* **An outage is told as "not found".** When barber-service or catalog-service does not
  answer, an availability query says that the barber or the service is not there
  (`AvailabilityIsTheSchedule` has it as an alternative).
* **Settings can be lost.** A PATCH merges into what the cache or an earlier read
  says and writes every field, so two of them, or one and a stale entry, undo
  each other's fields. The same late fill keeps the cache stale until it expires
  (`SettingsCacheSettles`), which the comment in the tenant repository (lines
  88-90) does not say.
* **A member route keeps its first id** (`member_route`). The gateway's closure replaces
  `:id` in its own variable, so all later requests of that route act on the first
  member named. What is left is that routes do not mix: no request acts on a member
  that only requests of other routes have named (`RoutesDoNotMix`, proved only).
* **A session may outlive its password**: when its login compared the password
  before the change, when a repeated registration replaced the password, or, for
  customers, when the revocation after the change was lost
  (`SessionEndsWithItsPassword`).
* **A repeated registration replaces a password the user chose** as long as the
  delivery of the first one was never recorded as sent.
* **Concurrent replacements of working hours add up** to their union, as each
  deletes only what it sees (`HoursAreOneReplacement` excludes such races).
* **The last-owner trigger does not see a concurrent change** of another owner;
  that owners stay rests on the service refusing to change any (`OwnerStays`).

## What is proved

`BookingProofs` proves, for any sets of requests, appointments, barbers, keys and
principals: the type invariant, `NoDoubleBooking`, `OneBookingPerKey`,
`AnswerIsOwnBooking`, `NoUniqueKeyRace`, `EventsTellTheRow`,
`FinishedStaysFinished`, and that Booking implements Calendar. The inductive
invariant `IInv` adds what the safety properties rest on: a lock belongs to one
request at a time (`LocksAreExclusive`), a key row and the appointment it names
agree (`KeysMatchRows`), and a request that has passed its receipt refers to
existing rows (`TargetsExist`). Each step is first summarised (what it does to
the tables, what to its request), and each conjunct of the invariant is then
shown to survive the summary.

`OutboxProofs` proves, for any number of replicas and events and any bounds, the
type invariant, `NothingIsLost`, `TerminalAtTheBound`, `ClaimsRespectLeases`, and
that Outbox implements Relay (`RelayImplemented`).
`NothingIsLost` is not inductive alone: a publisher that is about to mark a row
must hold an event that is in the stream (`Holding`), which in turn needs that
the broker remembers only ids of messages it stored (`Remembered`). The refinement
adds that what a publisher holds has been recorded (`Recorded`), because a late
publish, acknowledgement or release meets a row that others have changed since.
Each action then maps to one step of Relay or to none.

`NotificationsProofs` proves, for any sets of consumers, workers, messages, events
and offsets and any bounds: the type invariant, `AckedIsPlanned`, `SentWasMailed`,
`CancelledIsNotMailed`, `FinalStaysFinal`, `OnlyTheHolderFinishes`, and that
Notifications implements Mailing (`MailingImplemented`). One lemma
says what any step may make of a row (`Succeeds`: a planned row stays, its
attempts never fall, a final status never changes); what a consumer has planned
when it is at its step (`ConsumerOK`) and what a worker has claimed (`WorkerOK`)
then survive every step of the others. Two facts complete the invariant: nothing
is mailed before it is claimed (`MailedWasClaimed`), and a message that is to be
delivered again has a delivery left (`DeliveryLeft`). The refinement needs no more
than this invariant: a worker mails what has an attempt, and what it closes as sent
was mailed, both by `WorkerOK`.

`GatewayProofs` proves, for any sets of requests, tenants
and hosts and any scenarios: the type invariant, `VerifiedAgrees`,
`ResolvesToTheOwner`, `ForwardedToItsApp`, `StaleHasACause`,
and `NoFalseDenial`. The caches are right because of what
requests in flight carry, so the inductive invariant speaks of those (`ProcOK`): a
resolution between its query and its fill is that of the host, and resolves
still unless it is marked late; a domain that is about to be changed exists and
is the tenant's. The steps fall into those that leave rows and cache alone, those
that store a domain or a status (which can only turn resolutions stale that are
then marked, or are listed for deletion), and those that change the cache.

`AccountsProofs` proves, for any sets of identities,
owners and slots and any number of requests: the type invariant, `OwnerStays`,
`ActorIsStillOwner`, `RoutesDoNotMix`, `PasswordIsKnown`,
`SessionEndsWithItsPassword` and `SentIsFinal`. Its inductive invariant has five
parts, one per piece of state. `RequestsOK` is what the others rest on: numbers
of requests are distinct and none is a password the user chose, a password that
is about to be activated or stored was mailed, and as long as a first delivery is
not over, the stored password is the one being delivered or one the user has.
`MembersOK` holds that the seeded owners keep their rows and nobody becomes one,
which is why a check before the transaction is enough. That there is a seeded
owner is an assumption on the constants.

`AvailabilityProofs` proves what the slot algorithm computes
(`AvailableIsTheReference`): for every finite set of windows that do not overlap,
every set of busy periods, every service and every positive step, the loops return
starts in order, each of them free; and when the service takes time, each once and
exactly those that `IsSlot` allows. The prover cannot use an induction theorem
that takes a predicate, so the induction is over sets: a set of numbers that
contains 0 and with each number the next one is the set of all (`AllNat`, from the
least element of its complement). Each loop has an invariant (what the rounds so
far have listed is what they should have, in order), and the set of rounds after
which it holds is shown to be all of them. The same way the ranks of `InOrder` are
shown to list every period once, whatever their number.

`SchedulingProofs` and `AnswerProofs` prove, for any sets of requests, branches,
barbers, services, identities and periods, all that the run checks: the type
invariant, `AccessIsTheShop`, `HoursAreOneReplacement`, `LinkIsEarned`,
`SlotsAreInOrder`, `AvailabilityIsTheSchedule` and `LastingIsKept`. None is
inductive alone, since each is about what several transactions have read one
after the other. There are two inductive invariants.

* `IInv` is about the requests that check the shop or replace hours. `RequestOK`
  says what a request knows at its step: unless it was raced, that the branch and
  the barber it has read are still open; unless another replacement passed it,
  that the rows its DELETE chose are all the hours there are; and before it writes
  a link, that the identity has been eligible. A save of the shop or of the
  schedule races the requests in flight, which then claim nothing.
* `AInv` is about queries, and rests on `IInv`. Its `Saw` says that a query which
  nothing has raced has read what is there now, for each step what it has read so
  far, up to the answer, which is the offer of the day. Its `Fields` is what holds
  of a raced one too: the periods it has read do not overlap, because each came
  from one statement whose table excludes overlaps (`RowsFine`, `OverridesFine`);
  what lasts is among the periods it has read as busy once the blocks are read; and
  a finished answer is in order (`Ordered`) and clear of all that lasts (`Clear`).
  `SchedulingProofs` shows that writers keep `AInv`, by marking the queries in
  flight as raced or by shrinking what lasts; `AnswerProofs` shows it for the seven
  reads of a query, the last of which calls on `AvailableIsTheReference`. TLC has
  checked `AInv` on the instance of the run as well.

Leaves that name no prover are tried with SMT, then Zenon, then SMT again: in modules
of this size tlapm now and then gives up on preparing an obligation that it
prepares at once when it tries again.

The proofs assume what the modules' ASSUMEs say of the constants, and nothing
else. Every invariant and every action property that a passing run checks is
proved. Liveness (`EveryRequestEnds`, `EveryEventSettles`, `EveryNoticeSettles`,
`DenialReachesTheCache`, `SettingsCacheSettles`) is out of the prover's reach and
model-checked only.

## What is not modelled

* Tenants are isolated by row-level security: except in Tenants and Gateway, each
  module is one tenant's view.
* Reads that change nothing and are used by nothing else (lists, single rows,
  profiles), names, prices and addresses, HTTP and JSON details, forwarding of
  headers and bodies.
* Guests of customer-service (one upsert by phone number) and the name and plan
  of a tenant.
* A customer's registration whose INSERT commits although the call fails: it is
  covered as a crash followed by another registration.
* Days on which the clock changes: instants are counted from local midnight, as
  the code counts them, and which wall clock they show is outside the model. One
  weekday stands for the seven, whose rows are independent.
* The rate limiter (one atomic Redis script), the migrations runner, connections,
  configuration, logging, metrics and tracing, and the web applications: they
  hold no state the protocols above depend on.
* The event path is modelled in three modules, with a table or a stream between
  two of them: what Booking writes to the outbox is what Outbox publishes, and
  what the stream holds, in any order and more than once, is what Notifications
  consumes. One module over all three is beyond TLC's reach at the bounds at
  which the races of each show.
