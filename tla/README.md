# Asset Pilot: TLA+ models, checks and proofs

Asset Pilot is a FastAPI back end with which an IT department lends devices to
employees: requests are approved, devices assigned, shipped, supported, extended
and returned. This directory models the services that change that state, checks
them with TLC and proves their main safety properties with TLAPS.

## 1. The system

| Part | State | Operations | Interacts through |
|---|---|---|---|
| request service | `request` | reject, cancel, escalate-to-manager | the request's status |
| assignment service | `request`, `item` | assign, direct-assign, booking-range | unique index, item status, owner |
| shipping service | `request`, `item`, `support_request` | ship, confirm-delivery, complete-return (closes the open tickets) | item status |
| support service | `support_request`, `item`, `request` | start, resolve: remote, repair in place, swap, lost | the request a ticket is tied to |
| extension service | `extension_request`, `request` | approve, reject | the parent's `assigned_to` |
| inventory service | `item` | create, edit, change status | item status, unguarded |
| user service | `user` | create, role, deactivate, activate | owner and requester columns |
| device log | `device_log` | append (by all of the above), timeline | - |
| employees' and managers' app | all of them | file and decide requests, tickets, extensions; start a return | outside the repository (specs/00_CONTEXT.md F1) |
| sessions | the identity map and the uncommitted rows of each HTTP request | one transaction per HTTP request: select, flush, answer, commit or roll back | row locks, unique keys, READ COMMITTED |
| seeding | all of them | `scripts/seed.py` fills an empty database | the services start from its rows |
| auth | `user`, tokens in clients' hands | register, login, refresh, the admin gate | the role in the token |
| queues, pickers, dashboard, lists, dropdowns, handovers, health | - | reads | the tables |

The services never call one another: they meet only in the tables. Each one
guards its writes by the status of *one* row (the request's, or the device's, or
the ticket's) and trusts that the rows it does not look at agree with it. Whether
they do is a property of all services together over long sequences of calls, and
this is what the models are about. What makes it hard:

* The pair (request, device) is written by different handlers: `cancel` and
  `escalate` touch one side, `change_status` the other, `complete_return` both
  but looks at one.
* The database rule "one active request per device" is an index on (device,
  *status*): it compares requests of equal status only.
* Tickets and extensions outlive what they were filed for, and are resolved later.
* The device log is written by hand next to each status change, partly with
  constants as the old status.
* Queues and pickers select by columns other than those the services then guard by.
* A token carries its owner's role and is not looked up again until it expires.
* The transactions of two administrators overlap. They read without locks, decide on
  what they read and write only the columns they changed; between two flushes of one
  call another call's commit may come, or a deadlock, or the connection may be lost.
* The demo database is written past the services, by the seed script.

The hazards, each at its line and with the properties that watch it, are in
`PROJECT.json`.

## 2. Modules

| Module | Models |
|---|---|
| `Store` | the tables with the columns that guards read, the unique index, the queries services share, the fold of the device log |
| `RequestService` ... `UserService` | one module per file of `app/services/`, one action per handler |
| `MobileApp` | the writes of the employees' and managers' side (external) |
| `AssetPilot` | the composition: `Init`, `Next`, `Spec`, the properties and the inductive invariant |
| `Claims` | the abstract specification: requests that wait, hold a device nobody else claims, and end |
| `Queues` | the returns queue and the suggested devices, as queries over the tables of `AssetPilot` |
| `Auth` | accounts, tokens and the clock: login, refresh, the admin gate, role changes (a system of its own) |
| `Seed` | the rows of `scripts/seed.py` as initial states of `AssetPilot` |
| `Sessions` | HTTP requests that overlap: the handlers of the services taken apart into selects, flushes, answer and commit, with the locks of the database |
| `Promises` | statements of the documents that the code does not keep |
| `MCAssetPilot`, `MCAuth`, `MCSeed`, `MCSessions` | instances for TLC |
| `AssetPilotTypes`, `AssetPilotProofs`, `CustodyProofs` | theorems about the composed services |
| `AuthProofs`, `SeedProofs` | theorems about tokens and about the seeded database |
| `SessionsProofs`, `SessionsTypes`, `SessionsEffects` | theorems about overlapping sessions: the unique index, the types, what calls answer and commit |

### From code to model

* **Tables.** One variable per table, a function from ids to rows; a row not yet
  inserted has status `"absent"`. Columns no guard and no property reads (names,
  notes, actors, tracking URLs, decision times) are left out.
  `requires_mgr_approval` is `mgr # "not_required"`: the writers keep the two equal
  wherever a guard reads them.
* **Actions.** A handler is one action: its 404 and 409 branches are the negated
  guards (they roll back and change nothing), its writes the primed variables.
  Guards and row updates are operators of their own (`Assignable`, `AssignedRow`),
  so that the mutants and `Sessions` can use
  them. `resolve` is four actions, one per resolution, each with the common closing
  of the ticket.
* **The index.** Every write of the request table goes through `WriteRequests`,
  enabled only if `UniqueActive` holds of the new table: an `IntegrityError` rolls
  the transaction back.
* **The device log.** Per device, `trail` keeps the fold a reader computes:
  `told`, the last status an entry reported, and `chained`, whether each
  `from_value` was the status told before. An entry that implies a change but has
  no values (`swapped_out`) makes `told` `"untold"`.
* **Dates** are days `0..MaxDay`; only their order matters. Ranges satisfy the
  validator `from < to`.
* **Swaps** take any status for the old device, as the schema does.
* **The mobile app** files requests in the three states `scripts/seed.py` creates,
  tickets by the present assignee with or without the tied request, extensions
  that ask for a later day.

* **Queues** are sets of requests or devices; the order of rows, joined names and
  paging are left out. `requested_from/to` is not a column of the model: a
  suggestion is judged for every range a request can ask for.
* **Tokens** are records that were issued once and expire by the clock; forged
  tokens and wrong passwords are refused by `decode_token` and `authenticate`, so
  no action stands for them. `updated_at` is the row's `onupdate` column, untouched
  by an update that changes nothing. An admin route needs *some* valid admin token,
  which one does not matter. `Deactivate` in `Auth` may be refused at any time (the
  devices and requests it looks at are in `UserService`).

In `AssetPilot` each HTTP request is atomic: `get_db_session` opens one transaction
per request and commits it at the end. `Sessions` takes that apart.

### The seeded database

`Seed` describes what `scripts/seed.py` leaves behind as a set of initial states: any
slice of the script's rows that is closed under what the rows refer to. `RequestKinds`
are the groups of requests the script makes (waiting, turned down, over, in use in
the office, in the mail, client devices); a lent device has the status its request's
shipping marks imply (`LentStatuses`), others one of `SpareStatuses`; tickets exist
at devices in use, at swapped-out and lost devices and at completed requests; extensions
at requests in use. `SeedTrail` says what the script's log entries tell of a device,
and where they break the chain. Handovers, names and timestamps are left out: no
guard reads them.

### Overlapping sessions

`Sessions` gives every HTTP request a session (`app/db/session.py`) of its own:

| Variable | Code |
|---|---|
| `call` | the route and what the client sent (`Messages`) |
| `at` | how far the handler is: reading, writing, checking a key, answered, ended |
| `copies` | the identity map: each row as loaded (`db`) and as assigned to (`now`) |
| `plan` | the UPDATEs its flushes still have to send, in order |
| `held` | the row versions it has written, which are the row locks it holds |
| `entries` | the device-log rows it inserts |
| `fresh` | history: nobody else has committed since the call began |

* `Read` is a SELECT by primary key: it takes no lock and sees what is committed *at
  that moment*. A row already in the identity map is not selected again, unless the
  repository refreshes it after a flush (`Refreshed`, `app/repositories/base.py`).
* `Handle` decides with the guards of `RequestService`, `AssignmentService`, ... on
  the copies. A refusal rolls back. `start` and `complete_return` go on after their first
  flush (`Continues`): the former then sends the device to repair, the latter selects
  the tickets to close.
* `Write` is the UPDATE of one row. It waits for the row's lock and then changes only
  the columns whose value the handler changed (`Merged`): the others keep what has
  been committed since the row was read. The unit of work orders tables by their
  foreign keys and rows by their ids; the model lets the rows of one flush be written
  in any order (`Orders`), which includes the one it takes.
* `Check` and `Collide` are the entry into the unique index: the session waits for
  transactions whose outcome decides whether its key is unique (`Rivals`), fails if
  a committed row has it (`Duplicate`).
* `DetectDeadlock` fails any one session of a cycle of waits; `Lose` is a lost
  connection, possible whenever a call is under way.
* `Answer` comes before `Commit`, as FastAPI sends the answer before it finishes the
  dependency that commits.

Each session serves one call. Sessions that are done change nothing any more, so a
longer history is the same model with more sessions, begun later.

## 3. Runs

| Run | Instance | Shows |
|---|---|---|
| `Custody` | a company and a client device, 2 requests, 2 users, all filing routes, all manual statuses | `TypeOK`, `OneActiveClaim`, `HeldDeviceHasOwner`, `InactiveHasNoOpenRequest`, `InactiveHoldsNothing`, `LogTellsEveryStatus`, `ReturnsAreListed`, `TerminalNeverReopens`, `ImplementsClaims` |
| `Bookings` | the seeded database: 1 device, 2 requests, 2 users, 1 extension, 2 categories, 3 days | `AssertsHold`, `NobodyElseHoldsIt`, `ApprovedWithConsent`, `DecidedExtensionIsFinal` |
| `Support` | 3 devices, 2 requests, 2 users, 2 damage tickets | `ClaimInvariant`, `LogNeverLies`, `OpenTicketHasOwner`, `ImplementsClaims`, `ReturnLeavesNoOpenTicket`, `ResolvedTicketIsFinal`, `InactiveReceiveByLateSwap`, `DisplacedByLateSwap`, `OwnerlessByTicket`, `OrphanedByStraySwap` |
| `Auth` | 2 users, access and refresh tokens of 2 and 3 ticks, 5 ticks, 4 tokens at a time | `AuthInvariant`, `AuthorityIsRecent` |
| `Overlap` | 2 sessions on 1 device and 2 seeded requests; decisions, assign, ship, deliver, status changes | `IndexInvariant`, `AnswersAreCommitted`, `ShippingMarksStick`, `EveryCallEnds` |
| `OverlapSupport` | 2 sessions on 2 devices, 1 seeded request, 1 ticket; start, the four resolutions, return, status changes | `UndisturbedCallsAreAtomic`, `EveryCallEnds` |
| `DoubleClaim` | 3 sessions on 1 device, 2 requests; assign and escalate | a counterexample of section 5 |
| `CancelStrands`, `DanglingTicket`, `ExtensionPullsIn`, `StaleReturn`, `Suggestions` | one device each | the other counterexamples of section 5 |

**Why these bounds.** The claims are about pairs: two requests on one device, two
tickets on one device, two extensions of one request; a second device is needed
for a swap and for the company/client distinction, a second user to see a device
change hands, a second category to change a device's under a request. Requests are
never recycled, so two requests already give the interesting lives: a device
returned and handed out again while operations on the first request arrive late.
Three days are the fewest on which two ranges can touch, overlap and be disjoint.
Everything together does not fit into one instance, so each run leaves out what
its properties do not depend on: `Custody` has no tickets and no third day,
`Bookings` no tickets and two manual statuses
(it starts from every kind of request the seed script makes for company devices, so
that the lives of requests begin anywhere). `Support` has the third device that two
swaps in a row need and the second employee one is taken from (523,215 states up to
symmetry); in exchange its tickets report damage only, all tied to their request, and
by hand a device is only made available. Tickets of the other types, which `start`
does not send to repair and which are resolved alike, are in `OverlapSupport`. The bounds are the constants
`Routes`, `WfhChoices`, `TicketTypes`, `TiedChoices`, `ManualStatuses`,
`SwapOutStatuses` and `MaxDay`; the proofs assume only `StoreAssumption` of them.

`Auth`: a second tick in an access token's life lets a change fall between issue and
expiry; a refresh token that outlives it carries the change over; five ticks are a
login, a refresh and the expiry of what it gave; four tokens are two pairs. The
clock stops at `MaxTime`, where an instance with nobody active has no step left, and
that run does not check deadlock. Nor do the three runs of `Sessions`, where all calls
end (that they do is `EveryCallEnds`).

`Overlap` and `OverlapSupport` have two sessions: a stale read, a lost update, a row
lock, a wait for a key and a cycle of locks take two each. The operations are divided
by what they meet on: `Overlap` has a device two requests want (the index needs two
requests), `OverlapSupport` a ticket, its device, the spare one of a swap and the
request (four rows that `start`, `swap`, `lost` and `return` lock in opposite
orders). Seeded initial states put the calls in front of a request that waits, is in the mail
or is in use without a history of calls before them. `DoubleClaim` needs a third
session. `SessionsProofs` covers any number of them.

Symmetry: ids of one kind are interchangeable, except that client devices are only
interchangeable among themselves; the runs with symmetry check safety only.

**Four properties hold without tickets and fail with them**: a ticket outlives its
request, and the tie between that request and the ticket's device. `Custody` and
`Bookings` check them without tickets and their theorems assume `Tickets = {}`;
`Support` checks, with tickets, that nothing but one kind of step breaks each:

| Without tickets | With tickets | The step that breaks it |
|---|---|---|
| `InactiveHoldsNothing` | `InactiveReceiveByLateSwap` | a swap for a request that has ended gives the new device to a former employee |
| `NobodyElseHoldsIt` | `DisplacedByLateSwap` | such a swap takes a device made available by hand under another assigned request |
| `HeldDeviceHasOwner` | `OwnerlessByTicket` | a device a swap left in repair is repaired in place through its other ticket, or a swap leaves the old device in a workflow status |
| `ReturnsAreListed` | `OrphanedByStraySwap` | a ticket on a third device swaps a request away from the device it leads to |

`LogTellsEveryStatus` weakens to `LogNeverLies` with swaps, whose log entries carry
no status.

**Fairness.** None is assumed of `AssetPilot` and `Auth`: every step is the decision of
a person, and nothing in the code obliges anyone to decide; there is no background
job, timer or retry. `SessionsSpec` assumes weak fairness of `Step(s)` for each
session, that is of what goes on by itself once a call has begun: the event loop
runs every coroutine that can go on, and Postgres grants a lock once it is free.
Weak is enough, since a step that waits is disabled only while another session holds
what it waits for. `WF(DetectDeadlock)` is Postgres's `deadlock_timeout`. Neither `Begin`
(clients need not call) nor `Lose` (connections need not break) is fair.

## 4. What the main properties mean

* `OneActiveClaim`: PROJECT.md's "one device, one active claim", which the index
  alone does not give. It holds because a request has a device only while it is
  assigned or over (`ClaimInvariant`), which is a property of all handlers.
* `ImplementsClaims`: the services implement `Claims` under the mapping `Phase`,
  `ClaimedDevice`. It rules out at once a grant of a claimed device, a change of
  hands without a swap, a held request that waits again, a return from the end.
* `HeldDeviceHasOwner`, `NobodyElseHoldsIt`: the two sides of the pair agree,
  although neither `change_status` nor `cancel` writes both.
* `InactiveHasNoOpenRequest`, `InactiveHoldsNothing`: the check in `deactivate`,
  made once, is kept by everything that happens later.
* `InactiveReceiveByLateSwap`, `DisplacedByLateSwap`, `OwnerlessByTicket`,
  `OrphanedByStraySwap`: which steps may part a device, its owner and the request
  that leads to it, with tickets around (the table in section 3). A handler that parted
  them in any other way would violate one of them. All four kinds of step do occur in `Support`.
* `OpenTicketHasOwner`: no handler takes a device from its owner and leaves a ticket
  on it open, except a swap through another ticket.
* `ReturnLeavesNoOpenTicket`, `ResolvedTicketIsFinal`: the cascade closes all that
  is open, and neither it nor a resolution touches a resolved ticket.
* `LogTellsEveryStatus`: the timeline reports the device's status, and every
  `from_value` is the status reported before it.
* `ReturnsAreListed`: a device in the mail is never missing from the returns queue,
  even when its request was cancelled meanwhile: the query must not look at the
  request's status.
* `IndexInvariant`: the unique index is the only thing that two overlapping
  assignments cannot both pass. That it holds of the committed rows needs that a
  row has one writer, and that a session does not go past a key whose owner is still
  undecided, in both directions (an owner about to commit it, an owner about to
  give it up).
* `UndisturbedCallsAreAtomic`: ties `Sessions` to `AssetPilot`: a call that meets no
  other commit has the effect of one action of the services. Everything the atomic
  model proves is lost only through races, never through the splitting of a handler
  into flushes.
* `AnswersAreCommitted`: the row in the answer is the row that gets committed, although
  the UPDATE was merged with what another session committed in the meantime. It
  depends on the refresh after each flush.
* `ShippingMarksStick`: no overlapping call writes a stale copy of the shipping marks
  back, which an UPDATE of all columns would.
* `EveryCallEnds`: handlers lock tickets, devices and requests in different orders;
  cycles come about, and each of them is broken.
* `AuthorityIsRecent`: the delay with which a demotion or a deactivation takes
  effect at the admin gate is bounded by one access token's lifetime, whatever
  refreshes, reactivations and changes of role come between.
* `AssertsHold`: the `assert`s that follow the writes of an extension's decision
  cannot fail, although the parent may have ended by then.

## 5. Where code and documents disagree

| Run | The document | The code |
|---|---|---|
| `CancelStrands` | request_service.py:4-5: a non-terminal request has no device yet | `cancel` accepts an assigned request and strands its device |
| `DanglingTicket` | WORKFLOWS.md:76-77: a completed transaction cannot leave a dangling ticket | `_mark_lost` completes the request without the cascade |
| `ExtensionPullsIn` | WORKFLOWS.md:98-99: an extension pushes the end further out | `approve` copies a date that may be earlier by then |
| `StaleReturn` | PROJECT.md:105-107: ownership only clears at final completion | `complete_return` on a request already completed clears the present owner |
| `Suggestions` | IMPLEMENTATION_PLAN.md:289: suggestions are conflict-free | the unique index refuses a suggested device that has an assigned request for other days |
| `DoubleClaim` | PROJECT.md:85-87: a device can never be the target of two active requests, "a hard constraint" | an escalation that read its request before an assignment of it committed leaves the device in the row under a status the index does not compare; a second assignment of the device then commits too |

`DoubleClaim` is what becomes of `OneActiveClaim`, proved for calls one at a time, when
calls overlap: its proof rests on `ClaimInvariant`'s "a request has a device only while
it is assigned or over", which the escalation's guard protects in its own copy only.

A remark without a run: the returns queue joins a returning device with every request
that ever had it, so a device returned a second time appears twice. It is the price
of `ReturnsAreListed`.

## 6. Proofs

`AssetPilotTypes` proves `Spec => []TypeOK` (`TypeCorrect`): one lemma per service,
each action's row updates first shown to yield rows of the schema.

`AssetPilotProofs` proves, for all sets of devices, requests, users, tickets and
extensions:

| Theorem | Statement |
|---|---|
| `ClaimsAreKept` | `Spec => []ClaimInvariant` |
| `OneClaimPerDevice` | `Spec => []OneActiveClaim` |
| `EndIsFinal` | `Spec => TerminalNeverReopens` |
| `Refinement` | `Spec => ImplementsClaims` |
| `InactiveHaveNoOpenRequests` | `Spec => []InactiveHasNoOpenRequest` |

The argument: `OneActiveClaim` is not inductive, since the index does not compare
an assigned request with one in another status. `ClaimInvariant` adds what is
missing: among requests that are not over exactly the assigned ones have a device,
so the index compares all that matter. To preserve it, swaps must not reach a
request that waits: hence its conjunct `TiedRequestHadDevice`. Each service's step
is shown to do to the request table one of the six things `Moves` lists
(`RequestServiceMoves` ... `NextMovesRequests`), and the invariants, the finality
of an end and the step simulation of `Claims` are then proved once for `Moves`.
The assumption is `StoreAssumption`: bounds are within their enumerations, `NULL`
is no id.

`AuthProofs` proves `TokensAgeOut` (`Spec => []AuthInvariant`) and `AuthorityAgesOut`
(`Spec => []AuthorityIsRecent`) for any users, lifetimes and bounds. `AuthorityIsRecent`
speaks of now only; the invariant says of each access token that it expires within
its lifetime from now and, if it disagrees with its owner's row, from the row's last
change. One lemma (`CallKeeps`) covers all calls: rows are touched now or not at all,
tokens are old or fresh.

`CustodyProofs` proves the rest of the properties the runs of `AssetPilot` check:

| Theorem | Statement | Argument |
|---|---|---|
| `ApprovalsHaveConsent`, `DecisionsStand` | `ApprovedWithConsent`, `DecidedExtensionIsFinal` | `ExtensionMoves`: a row is filed under an assigned request, or is pending and decided once |
| `AssertsNeverFail` | `AssertsHold` | strengthened by `PendingHasDevice`; a request that has had a device has one ever after |
| `ResolutionsStand`, `ReturnsCloseTickets` | `ResolvedTicketIsFinal`, `ReturnLeavesNoOpenTicket` | `WhoCompletes`: only complete_return and mark_lost complete a request, and only the former moves the device to the pool |
| `LogIsTruthful`, `LogIsComplete`* | `LogNeverLies`, `LogTellsEveryStatus` | `LogMoves`: what a step does to a device's status is what it appends, constants included |
| `NobodyElseHolds`*, `HeldDevicesHaveOwners`*, `InactiveHoldNothing`*, `ReturnsStayListed`* | `NobodyElseHoldsIt`, `HeldDeviceHasOwner`, `InactiveHoldsNothing`, `ReturnsAreListed` | `CustodyMoves`: owners, workflow statuses and grants move together |
| `OnlyLateSwapsServeInactive`, `OnlyLateSwapsDisplace`, `OnlyStraySwapsOrphan` | `InactiveReceiveByLateSwap`, `DisplacedByLateSwap`, `OrphanedByStraySwap` | `SupportMoves`: what the support service does to owners and claims is `SupportKeeps` or `SwapsIn` |
| `OpenTicketsHaveOwners`, `OnlyTicketsUnown` | `OpenTicketHasOwner`, `OwnerlessByTicket` | `TicketInvariant`; `OwnerOutcome`: only a return and a swap take an owner away, and a return closes the tickets |

Theorems marked * assume `Tickets = {}` (nobody files tickets), without which they are
false (section 3); the last five hold for any tickets. There every step is a
`CustodyMoves`, which by itself keeps owners and requests together, or one of the two
support moves, and among these only the swaps and the repairs in place remain.
`OpenTicketHasOwner` is not inductive: that the ticket's device is in the table and that
a device not created yet has no owner complete it to `TicketInvariant`.

The `Moves` predicates are needed because the properties are each about two tables that
different services write: each action is shown once to make one of few moves, and the
induction is over moves.

`SeedProofs` proves of any slice of the seeded database, for any number of rows,
that it satisfies `ClaimInvariant` (each group of rows has a shape, `SeedRequestShape`,
`SeedTicketShape`) and the strengthenings above: extensions left pending are of requests
with a device, the owner of a lent device is the requester of the one request assigned to
it (`SeedHolder`), tickets left open are on lent devices (`OpenAtDesk`). The steps are
those of `AssetPilotProofs` and `CustodyProofs`, whose lemmas `NextKeeps...` do not
mention `Init`. So every theorem of these two modules has a twin for `SeededSpec`, those
about custody without tickets again with `Tickets = {}`, except three whose statements are about a
beginning from nothing: the script itself breaks the chain of the log (`SeedTrail`), and
`Claims` starts with no request
filed.

`SessionsProofs` proves `SessionsSafety => []IndexInvariant` for any number of sessions,
rows and operations. `IndexInvariant` is inductive because it speaks of uncommitted
versions as well as of committed rows; `LockInvariant` only adds what the tables are
indexed by. Steps that
touch no lock are treated at once (`QuietKeeps`); the work is in `WriteKeeps` (a new
version is not in the index yet), `CheckKeeps` (it enters because no version that may
survive clashes with it) and `CommitKeeps` (versions become committed rows). It does
not depend on the handlers' guards: the index holds whatever they decide.

`SessionsTypes` proves `SessionsSafety => []SessionsTypeOK` (`SessionsTypeCorrect`):
sessions are called on rows that exist and copy, lock and write only such rows; every
version is a row of the schema, and the rows still to be written are copied. It
is not a property of a run but what the next module rests on; one lemma per handler
shows what its assignments make of the copies.

`SessionsEffects` proves the three safety properties of overlapping sessions that are about
the contents of rows, for any number of sessions:

| Theorem | Statement | Argument |
|---|---|---|
| `AnswersHold` | `AnswersAreCommitted` | the refresh makes a copy equal to the version held, and a held row is committed by nobody else |
| `MarksStick` | `ShippingMarksStick` | `MarksInvariant`: no copy has a mark taken back relative to what was loaded, no held version relative to what is committed; the merge of a stale copy takes back none since it names changed columns only |
| `UndisturbedAtomic` | `UndisturbedCallsAreAtomic` | `AtomicInvariant`: while nobody else has committed, copies not yet written are the committed rows, and copies and held versions together are what the atomic action of the service makes of them, decided against the same rows |

All of it rests on `SessionsAssumption`: ids of different tables differ, and there are
finitely many tickets (the rows of a table; the loop over them in the cascade ends).

Only model-checked: the liveness property `EveryCallEnds`, which is beyond the prover
(fairness, ENABLED), and the counterexamples. Every invariant and every action property
that a run checks has a theorem.

## 7. Not modelled

* **Reads without promises**: the dropdown, handover and health services, the lists
  and the dashboard counts filter rows and write none; the documents promise nothing
  of them beyond the filter. That the dashboard's five statements may see five
  snapshots is listed as a hazard. Handovers are written by the employees' app, and
  no guard reads them.
* **Overlap of the other handlers**: direct-assign, booking-range, extensions, device
  edits and the user service are modelled atomically only. They read and write as
  the modelled ones do, and their rows would multiply the states of `Sessions`.
  Among them is the race between deactivate and assign, a hazard in `PROJECT.json`.
* **The connection pool**: a session takes one connection and waits for no second
  one, so that a full pool only delays a call.
* **Order of log entries with equal timestamps**, milestone filtering, response
  formatting, logging, configuration, pagination, Terraform and CI.
* **Passwords, signatures and key handling**: taken to work.
