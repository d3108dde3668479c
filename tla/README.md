# SnapBid: TLA+ specifications and proofs

SnapBid is an auction server: an Express API with Socket.IO (`src/apps/server`), a
BullMQ worker (`src/apps/worker`), a domain package that both share
(`src/packages/auction`), and PostgreSQL and Redis behind them. This directory holds
the specifications of the parts whose correctness depends on what happens *between*
two calls: row locks, job queues, published events, rooms, token rotation, unique keys,
pages of lists that change, start and shutdown, and one piece of arithmetic. Everything
is translated from the code.

Run a model with `tlc -config <cfg> <module>.tla`, check proofs with `tlapm
<module>.tla`. `PROJECT.json` lists the components, the runs, the mutants that show
each property can fail, the source lines of every definition, the hazards, the
findings and the theorems.

## 1. Inventory

| component | state | operations | what is hard | what makes it correct |
|---|---|---|---|---|
| auction and bid store: `modules/bid`, `modules/auction`, `packages/auction` | rows of `Auction` and `Bid`, row locks | create, edit, cancel, bid, start, end | two bidders; a bid against the end; decisions on rows read without a lock; clocks read before a wait | the winner is the highest bid, every raise meets the increment, nothing changes once live, each request is one atomic step |
| lifecycle jobs and worker: `jobs/auction.jobs.ts`, `workers/auction.worker.ts` | BullMQ jobs, at most one per auction and kind | add, remove, replace, run, retry | commit and queue calls are separate; crashes, stalls, late workers, overlapping requests | the jobs match the row; stale jobs do nothing; every auction ends; events are published once and are true |
| refresh tokens: `modules/auth` | rows of `RefreshToken`, the browser's cookie | register, login, refresh, logout | racing refreshes, lost answers, logout against refresh | one working token per login, an ended login stays ended, the cookie works |
| realtime events and rooms: `redis.pubsub.ts`, `socket/` | channel, rooms, sockets | publish, broadcast, join, leave, disconnect | publication after the commit; a join that awaits the database; a subscriber that reconnects, a server that dies | events are committed, the client knows its room and ends up with the right state |
| bid amounts: `bid-amount.service.ts` | none | minimum bid, comparison | decimals of mixed scales as integers | exact comparison and addition |
| registration, login and profiles: `modules/auth`, `modules/user` | rows of `User` | register, login, rename | look-ups and writes in separate statements; statements that fail in between | one account per name and email, true answers, no account lost or taken over |
| listing and history pages: `auction.repository.ts`, `modules/user` | none (reads); the client's cursor or page number | next page | rows that come, go and move between two pages | what is shown twice or not at all is bounded by what happened |
| process start and shutdown: both `index.ts`, `redis/`, `modules/health` | open clients, requests and jobs at work | start, signal, drain, close, exit | requests still running, a second signal, a broken connection, a quit that rejects | nothing that somebody waits for is cut off; the process ends |
| HTTP pipeline and validation: `middlewares/`, `packages/shared` | none | | sequential and stateless | the guards and inputs of the modules behind them |

How they interact: an HTTP handler runs a transaction on the store, then calls the
queue (create, edit, cancel) or publishes to Redis (bid, create of a live auction).
The worker takes a job, calls the same domain package on the same rows, and
publishes. The server's one subscriber receives every publication and broadcasts it to
the auction's room. Nothing spans two of these calls atomically; that is where the
hazards listed in `PROJECT.json` are.

## 2. Modules

    AuctionTables ── AuctionContract                 (abstract: every operation one step)
         │                  ▲ implements (proved)
         ├────────── AuctionStore                    (statements, row locks, aborts)
         └── JobQueue ── AuctionLifecycle            (handlers, BullMQ, worker, events)
                        │     └─ implements (proved) ─► AuctionContract
                        └── LifecycleMishaps         (history: what cost an auction its jobs)
    AuctionEvents                                    (publication, outages, rooms, clients)
    LoginSessions  ◄─ implements (proved) ─ RefreshTokens
    Accounts                                         (registration, login, profiles)
    ListingPages                                     (cursor and numbered pages)
    ProcessShutdown                                  (start, signals, clients, requests, jobs)
    BidAmount                                        (decimal strings)

**AuctionTables**: the two tables, the clock and the pure rules on rows:
`StartAllowed` and `EndAllowed` are `auction-lifecycle.rules.ts`, `BidAllowed` the
checks of `placeBid`, `SellerMayChange` those of `updateAuction`, `Finalized` the
winner that `finalizeAuction` stores. The properties of the tables are stated here,
since both machines below have them.

**AuctionContract**: what the store promises. Create, edit, cancel, start, bid and end
are single steps on current data.

**AuctionStore**: what the code does. `session[s]` is one request or job in flight. It
reads a row without a lock (`ReadAuction`), decides (`CheckEdit`, `CheckCancel`,
`CheckStart`, `CheckEnd`: early returns and errors), waits for the row
(`LockRow` is `SELECT ... FOR UPDATE`, and where the time is read after or before it
follows the code: `placeBid` after, the END job before), decides again under the lock
(`ValidateBid`, `ValidateChange`, `ValidateEnd`, `RejectMissingRow`), and commits
(`CommitBid`, ...). `Abort` is any error or time-out up to the commit. `InsertAuction`
and `MarkAuctionAsLive` are single statements; the second is the conditional `UPDATE`
that waits for the row too. Reads see the last committed row (READ COMMITTED).

**JobQueue**: BullMQ as the code uses it: one job per auction and kind, `Add` of an id
that is taken is a no-op, `Remove` of a job that a worker holds throws, three
attempts, removal on completion and on the last failure, a stalled job handed out
once more.

**AuctionLifecycle**: the calls around the transactions, each transaction taken as one
step (that is what the refinement justifies). A handler adds its two jobs
in sequence on create (`AddJob`), removes both in parallel on edit (`RemoveJob` in
either order; a failed removal stops the additions that follow), and removes both on
cancel, as `auction.jobs.ts` does. A worker takes a job, reads,
writes, publishes, and reports the result if it still holds the lock. `HandlerFails`,
`JobFails`, `WorkerCrash` and `WorkerStalls` are bounded separately, so a run can say
which faults it allows. Its rows are those of `AuctionTables`, so `AuctionContract` can be
stated of it as it stands: every write of a handler or a job must be a step of the
contract on the row as it is then, whatever the writer once read.

**LifecycleMishaps** adds to `AuctionLifecycle` a history variable and changes nothing else:
`mishaps` is the set of the auctions that have met something which can cost them a job.
These are, each with its code: a request on the auction is cut short before its last call to the
queue (`CutShort`); a removal throws, because a worker has the job (`RemovalThrows`), or an
addition, because its moment has come (`AdditionThrows`; for an edit both delays are computed as
soon as the removals have returned, and only `startTime` can be late then); a second request
on the same auction commits before the first has made its calls (`Overlap`); or BullMQ gives up a
job that is still needed, after its last attempt or its second stall (`GivenUp`). TLC was used
to find each of them necessary: with any one left out, `JobsFollowUnlessMishap` fails (the second
stall needs `MaxWorkerCrashes = 2`, the addition that throws a server that is not prompt).

**LoginSessions / RefreshTokens**: a login is a chain of tokens. The abstract module
has one current token per login; the detailed one runs `rotateRefreshToken` as read,
`DELETE` (which holds the row) and `INSERT` with commit, against `revokeRefreshToken`
and the saves of login, and delivers or loses the answers that set the cookie. The
expiry of row and JWT are the same number in the code (`refreshTokenMaxAge`, seven
days), so they are one here.

**AuctionEvents**: a bid is committed (`PlaceBid`) and published in a later call
(`PublishBid`, or `PublishFails`), likewise the end; `Broadcast` is subscriber, parser
and `broadcastSocketEvent`; the join handler is two steps around its database read
(`HandleJoin`, `JoinRoom` or `LookupFails`), the leave handler one. Redis keeps nothing for
a subscriber that is away: `LoseSubscription` (the connection breaks, with what was on
it) and `ServerCrash` (rooms, sockets and unpublished bids go with the process) put
events into the history variable `lost`, until `Subscribe`. The client is
the one `src/docs/realtime-architecture.md` and `socket-architecture.md` describe
(external to the code): it joins, fetches over REST when it is in, and applies events.

**Accounts**: `registerUserService` as its statements: the two look-ups of `Promise.all`
in either order, the check, the `INSERT` against the unique constraints (P2002 becomes 409
in `errorMiddleware`), the refresh token; `loginUserService`; and `updateUserProfile`. Any
statement can fail (`Fail`). `refusable` is history: whether the table gave a reason for
a refusal at some moment since the request came.

**ListingPages**: a client walks through one list while the list changes. `key[row]` says
where the query's `ORDER BY` puts a row (every `ORDER BY` of the code ends in the unique id,
so no two rows share a key; a row has its key, the time and id of its `INSERT`, before it is
committed). `Insert`, `ChangeStatus` and `Move` are what other requests and jobs do to the list.
`Slice` is Prisma's `skip` and `take`: the rows whose `Offset`, the number of rows before them,
lies in a range. `FindAfter` is Prisma's cursor as the three repositories of
`modules/user` use it (it starts at the key of the cursor's row, in the list or not, and
skips one row of the list); `FindAuctions` and `CountAuctions` are the two statements
of a numbered page. `history` counts what the client cannot see.

**ProcessShutdown**: the awaits of both `index.ts`, the clients each process has open, and
its requests and jobs, each a sequence of calls on clients (`Calls`). `Signal` is the
handler with its `isShuttingDown`, `Drained` what `closeSocketServer` and
`auctionWorker.close` wait for. The clients differ in what a call does after
they are closed: `prisma` and the publisher connect again, the others throw. A request
whose connection breaks (`Abandon`) goes on, and nobody waits for it. Every quit may reject
and leave its client connected or not (`CloseClients`: all that `Promise.allSettled` begins at once;
`FinishClosing`: the subscriber, whose quit `closeSocketEventRedis` asks for only after that
of the publisher has succeeded). `rejected` keeps what the code has in `results`; it goes with the
process. `MayStay(p)` are the clients that such a failure can leave behind. The worker's
`process.exit` does not ask. Left to the libraries and not modelled: a quit that never settles,
and an `auctionWorker.close` that rejects.

**BidAmount**: `decimalScale`, `toScaledInteger`, `fromScaledInteger`,
`calculateMinimumBid` and `meetsMinimumBid` on strings given as digits and scale, inside
the bid that uses them, with `Prisma.Decimal.toString` in front (external). `Ten[n]` is what
the zeros of `padEnd` and the dropped zeros of `replace` do to an integer, a recursive
function so that it can be reasoned about.

Modules whose names end in `Proofs` hold theorems; those that begin with `MC` the
finite instances.

## 3. Runs

All runs check the whole state space of their instance. Stopping is allowed
(`CHECK_DEADLOCK FALSE`) where the clock, the requests, the messages or the faults of an
instance are used up, or the process has exited. In `MCAuctionStore`,
`MCAuctionStoreLive`, `MCAccounts` and `MCBidAmount` something can always happen, and
deadlock is checked.

| run | shows | instance |
|---|---|---|
| `store_safety` | the row lock keeps prices, bids, winner, status and terms right, and every request is one step of `AuctionContract` | one auction, three users, two sessions, amounts 1..4, clock 0..2 |
| `store_liveness` | no lock outlives its transaction and every request ends | one auction, two users, two sessions, clock 0..1 |
| `lifecycle_safety` | whatever is late, repeated, stale or half done, every write is a step of `AuctionContract` and nothing untrue is published, nor anything twice | two handlers, two workers, two requests, edits at `startTime`, late workers, one fault of each kind |
| `lifecycle_recovery` | every auction keeps the jobs of its row and comes to an end, unless it has itself met a mishap; an event is lost only when its publisher fails between commit and publication, and none is pending when nobody is at work | two handlers, two requests, edits at `startTime`, one late worker, two failing attempts, one crash or stall, one failing handler |
| `tokens_safety` | racing refreshes leave one token; ended logins stay ended; statements implement whole operations; the cookie works while no answer is lost | one browser, three requests in flight, four tokens, one fault |
| `accounts_unique` | a name and an email have one account; every refusal and success is true; no account is lost, taken over or half created without its owner being able to log in | three users, three names, two emails, two passwords, two requests in flight, one failing statement |
| `events_rooms` | events are committed; the answers tell the client the truth about its room; a client that waits is where it asked to be; one that fetches once it is in misses nothing but the events that were lost | two bids, one socket, three messages, one fault, one broken connection, two outages |
| `pages_walks` | cursor pages repeat nothing and miss a row only where a page begins after a row that left the list; numbered pages repeat or hide one row per change | four rows, five keys, two changes, pages of one and two rows, every filter |
| `process_shutdown` | work that somebody waits for finishes with its clients open, and the process ends; what can keep the server is an abandoned request or a quit that rejected, and nothing else | two requests of every kind, one job; beside the subscriber's, one quit of a process rejects |
| `amounts_exact` | string arithmetic agrees with exact arithmetic | 52 prices, 16 increments, 51 amounts, scales 0..3 |

Why the bounds are enough. Rows, jobs and rooms of two auctions never meet in one
statement, so one auction suffices. The conflicts are between two parties for one
row or job, hence two sessions, handlers or workers; the third user is the seller
who is neither of two bidders. The clock has a moment before, at and after each of
the two times of an auction. `MaxRequests`, `MaxHandlerFaults`, `MaxWorkerCrashes` and
`MaxJobFaults` cap what the environment does: two failing attempts are as many as three
attempts can stand, and with one that comes too early or too late they are more. Three
requests let a rotation, a second refresh with the same cookie and a logout meet at every statement; four tokens allow a login, two
rotations and a loser. Two bids are what it takes to publish in the wrong order,
three messages to join, leave and join again, and two outages to lose an event and then
the server. Three accounts let two requests compete while a third owns what one of
them wants; three names let a rename free one. Four rows are two full pages and two
changes between any two of them, which is how a row can leave and another take its place;
the fifth key is the free place that a row needs to move to.
Two requests let one be abandoned while the shutdown waits for the other. Quits that reject
act on each other only through the publisher and the subscriber, so one that fails beside the
subscriber's is enough (`MaxRejections`); the theorem about them has no bound. `lifecycle_recovery`
has one worker, which may lose its job by a stall and get it again; two workers with the same
job are in `lifecycle_safety`. In `BidAmount` scientific notation begins at 10^4 and 10^-3 instead of 10^21 and 10^-7 (`ToExpPos`, `ToExpNeg`), which changes only where it
begins.

Symmetry (users, sessions, handlers, workers, requests, tokens, bidders, names, emails,
passwords, rows) is used in
safety runs only; no definition distinguishes their values.

### Fairness

* `AuctionStore!FairSpec`: a statement that has been sent returns (weak fairness of
  `Advance`), and the row is granted to a waiter sooner or later (strong fairness of
  `Acquire`: PostgreSQL queues the transactions that wait for a row). No request has
  to arrive, no time-out has to fire.
* `AuctionLifecycle!FairSpec` and `LifecycleMishaps!FairHistorySpec`: the event loop and the workers go on with what they
  have begun, BullMQ's stalled-job check runs, a job that is ready is taken
  eventually, and time passes. Faults and requests are never forced.
* `ProcessShutdown!FairSpec`: a call that was made returns, a quit that was sent returns or
  rejects, and the event loop runs what is due (weak fairness of `Call` and `Stop`). No signal
  has to come, no request, and no connection has to break.
* `Prompt` and `EditsAtStart` are assumptions of a run and not of the code: that time does not
  pass while the server or the worker has something to do, and that no edit is sent
  once `startTime` has come. `lifecycle_safety` makes neither, and `lifecycle_recovery` only
  assumes a prompt server, for the sake of `NoEventIsForgotten` and `EventsArePublished`.

### Disagreements between code and documentation

Each of these runs checks one sentence of the repository's documentation and finds a
behaviour of the code against it; `PROJECT.json` quotes the sentences.

| run | what happens |
|---|---|
| `lifecycle_server_crash` | the server fails between the `INSERT` and the jobs: the auction never starts or ends |
| `lifecycle_edit_at_start` | an edit while the START job runs removes END, fails on START and leaves the auction without jobs |

Both are mishaps of `LifecycleMishaps`.

The models show more of this kind. These are stated as the conditions under
which a property of a passing run holds, and TLC finds the behaviour when the condition is
taken away:

* A START job that runs at or after `endTime` fails for good, END too, and the auction stays
  SCHEDULED: `AuctionsEndUnlessMishap` excepts an auction whose job was given up (`GivenUp`;
  `auction-lifecycle.rules.ts:15`).
* A refresh commits before a logout with the same cookie, whose `DELETE` then finds nothing:
  the login survives the logout. `EndedLoginsStayEnded` speaks of logins that have no token
  left (`auth.service.ts:100`).
* A price that `Prisma.Decimal` writes in scientific notation makes `BigInt` throw, and every
  bid on that auction with it: the properties of `BidAmount` speak of the prices that
  `CanRead` lets through, `BidThrows` is the rest (`bid-amount.service.ts:5`).
* A page that is asked for after an auction which no longer has the status of the filter leaves
  out one auction that has it: Prisma skips a row, and it is not the cursor's.
  `CursorPagesAreExact` counts these pages (`user.repository.ts:69`).
* A request whose connection broke can connect the publisher again after the shutdown has
  closed it, and the server does not exit: `ShutdownCompletes` excepts it
  (`redis.pubsub.ts:46`).
* `publisher.quit()` rejects, as when Redis stops together with the server, and its connection is
  closed: `closeSocketEventRedis` ends before it closes the subscriber, `Promise.allSettled`
  swallows the rejection, the server logs "Server shutdown completed with errors"
  (`index.ts:47`) and does not exit. `ShutdownCompletes` excepts it: with `rejected[p]` in place
  of `MayStay(p)` it fails (`redis.pubsub.ts:55`).
* A registration whose refresh token cannot be stored is answered with an error although the
  account exists; `AnswersAreTrue` says that the login is open to it
  (`auth.controller.ts:70`).
* Two requests on one auction interleave their queue calls, and the older schedule can
  stay in the queue: `JobsFollowUnlessMishap` makes no claim about an auction after an `Overlap`
  (`jobs/auction.jobs.ts:94`).
* A publisher that fails after the commit loses the event, because the retry
  returns early: `EventsArePublished` and `NoEventIsForgotten` need their `silenced`
  (`auction.worker.ts:16`, `:34`).
* A create that is born live and still has its END job to add when `endTime` comes gives up,
  because `scheduleAuctionEnd` throws, and its start is not announced either:
  `NoEventIsForgotten` needs a prompt server (`Prompt`; `jobs/auction.jobs.ts:32`).
* A leave overtakes an earlier join, whose handler still awaits the database:
  `RoomFollowsRequests` needs its patient client (`auction.socket.ts:20`).
* A lost answer to a refresh leaves the browser with a token that no longer works:
  `CookieWorks` needs `faults = 0` (`auth.controller.ts:123`).
* A failed publication answers a committed bid with an error (`PublishFails`,
  `bid.service.ts:19`), and bids can be published in another order than they were
  committed, or after `auction:ended`: the prices that a watcher receives may fall. `WatchersAreUpToDate`
  holds because the client of the model keeps the highest. An event that is published while
  the subscriber is away is gone, and no client is told that it should fetch again
  (`redis.pubsub.ts:31`): the property excepts the event of the current price or status.
* `src/docs/auction-lifecycle.md:16-17` lets every auction begin as SCHEDULED;
  `createAuctionService` creates it LIVE when `startTime` has come. `StatusEdges` follows
  the code.

## 4. Proofs

TLAPS proves the following for every number of auctions, users, sessions, requests,
browsers, tokens, accounts, bidders, sockets, handlers, workers, jobs, rows and page sizes,
every set of terms and amounts, every scale, and every bound. One theorem, `EventsNeverForgotten`,
has a hypothesis about the environment, which is named below.

**AuctionStoreProofs** (with the lemmas of `AuctionTablesProofs` on what each change of a
row preserves): `ContractKeepsTables`, `StoreTypeCorrect`, `RowLockIsExclusive`,
`DecisionsHoldUntilCommit`, `WinnerIsAlwaysHighestBid`, `RaisesAlwaysMeetIncrement`,
`HistoryAlwaysOrdered`, `StatusAlwaysFitsClock`, `StoreImplementsContract`, `StatusAlwaysFollowsDiagram`,
`TermsFrozenOnceLive`. Assumed are only the named assumptions of the modules: amounts
are positive integers, a schedule ends after it starts (both are in the validation
schemas), and the two "none" values are none of the real ones.

None of these invariants is inductive: that a commit is right follows from a
decision some steps earlier, on a row that must not have changed since. `StoreInv`
adds that for every session: what it remembers of the row while it holds the lock
equals the row, its decision still holds (`SessionOK`), a lock is held by a session
that is in a transaction on that row (`LocksAreHeld`), no two creates insert the
same row (`CreatesAreDistinct`), and the tables satisfy `TablesInv`. With the lock,
other sessions cannot touch the row (`StepKeeps`, `WriteKeeps`); without it the
session relies on nothing it has read. The
refinement theorem maps each commit to the contract's step and everything else
to a stutter; the two action properties then follow from the contract's steps.

**RefreshTokensProofs**: `TokensTypeCorrect`, `RotationKeepsOneToken`,
`EndedLoginsNeverReturn`, `TokensImplementSessions`. `TokenInv` adds to the
one-token property that a request between its `DELETE` and its `INSERT` is the only one
there for its row and that the row is still committed (`RequestOK`, `RowLockHeldOnce`),
that the tokens that requests are about to store are new and pairwise different
(`NextTokensDiffer`), and that a token descends from a login that was stored
(`OriginsUsed`).

`CookiesAlwaysWork` is about the browser's side. `CookieInv` says that what a request carries
came from the cookie of its browser (`TokensFromCookies`), that two browsers never hold
the same token (`CookiesDiffer`), that a token on its way to a browser is in no
cookie yet (`AnswersUnseen`), and that while nothing was lost a cookie is covered: its token
is stored, or the answer that replaces or clears it is under way (`CookiesCovered`). The
first three parts show that a token which has just been issued can neither be rotated nor
revoked by anybody before it has reached its browser.

**AuctionLifecycleProofs**: `LifecycleTypeCorrect`, `EventsAlwaysTrue`,
`LifecycleImplementsContract`. That a stale write is harmless does not follow from what its
writer read but from what it checks again in its statement; that nothing is published twice
follows from who may be publishing. `LifeInv` says: a worker that holds BullMQ's lock holds
that of an active job, and two workers not the same one (`LocksHeld`, part of
`QueueInv`); no handler or job reads a later clock than the present one; the tables are sound
(`TablesInv`) and every row has its seller (`Owned`); a create that has not inserted its
row is the only request on an auction that does not exist yet (`HandlersInv`); an event has
at most one publisher, only when its change is committed, and none once it is published
(`EventsInv`). The new facts about a write are proved once per operation and used both for
the invariant and for the refinement.

`EventsNeverForgotten` (`NoEventIsForgotten`) is the other half of `EventsAlwaysTrue`, and what
is left of `EventsArePublished` without fairness. Its one hypothesis is that time waits for the
requests; workers may be late, and requests, jobs and faults are any number. `NewsInv`: a
committed change is announced or has a publisher (`Foretold`), and a create has its `endTime`
ahead of it and, when it is born live, only the END job to add (`Undisturbed`), so
that its additions do not throw. A publisher publishes, or is known to have failed, in whatever
step ends it (`WorkerKeepsNews`, `HandlerKeepsNews`). TLC also finds it true with two
handlers, edits at `startTime`, late workers and one fault of each kind, and false without the hypothesis.

`JobsAlwaysFollowUnlessMishap` (`JobsFollowUnlessMishap`, of `LifecycleMishaps!HistorySpec`) has no
hypothesis: requests overlap and fail, edits come once `startTime` has passed, workers are late,
crash and stall, as often as they like. It says that an auction which is still to start or to
end, and which no request is scheduling, has the jobs of its row unless it has itself met one of the
mishaps. It does not say that these are rare, nor that they do no harm; the violation runs
show that they do. `JobsInv`: while an auction has met none, at most one request is between its
commit and its last call, what that request has removed is gone and what it has added fits the
row (`OnSchedule`), and a job that is needed is queued for the row's time or that request is
about to queue it (`Served`). Three more parts hold after a mishap too: a job is completed only when
its change is committed (`DoneIsCommitted`), so that completing takes away nothing that is
needed; an auction that does not exist has no jobs (`NoRowNoJob`), so that the additions of a
create find their ids free; and a request that has not committed has removed nothing
(`Prepared`). Each step is shown to keep `Served` for the auctions that meet no mishap in it
(`JobsStep`); the history is brought up to date in one place (`JobsKept`). TLC checked
the property before it was proved, and that no clause of `Mishap` can be left out.

**AccountsProofs**: `AccountsTypeCorrect`, `KeysStayUnique`, `AnswersAreAlwaysTrue`,
`AccountsAlwaysKept`. Uniqueness is inductive on its own, since the constraint is checked by
the statement that writes. `AnswersAreTrue` needs what a request carries between its
statements: a look-up that found a key taken has seen a reason (`refusable`), a request that
is to store a token has an account with its email and password, and accounts keep both.
Its `TypeOK` has a theorem and no run, since it says no more than the types.

**ProcessShutdownProofs**: `ShutdownTypeCorrect`, `ShutdownCutsNothingOff`,
`ShutdownLeavesNothingOpen` (`NothingIsLeftOpen`). The invariant says which clients are open in
which phase (while closing, the subscriber and those whose quit rejected; then only `MayStay`) and
that an attached task is active only while its process is up or draining; with the drain
as guard of `CloseClients` that is inductive, and it holds for any number of requests and of
quits that reject. `TypeOK` has a theorem and no run here either.

**AuctionEventsProofs**: `EventsAlwaysCommitted`, `AnswersAlwaysMatchRoom`. For the first,
`CommittedInv`: a request that is about to publish holds a price that is committed, an END job
that is about to publish has ended the auction, and every event in the channel and on the
wires is backed by the row (`Sound`), which stays so because prices only rise until the
auction has ended, and then stand. For the second, `RoomInv`: the last `auction:joined` or
`auction:left` on a socket's wire agrees with the room, and when there is none the client does
(`LastWord`); the lookups that joins are waiting for play no part in it.

`RoomsAlwaysFollowRequests`: the answers, lookups and requests of a client are counted
(`RequestsInv`). A patient client has at most one of them outstanding, and it is of the kind it
asked for last; when there is none, the last answer was to that request. A client that does
not wait is only counted, which is why nothing follows for it. `WatchersAlwaysUpToDate`:
`FollowInv` follows the two events that matter to a client, the bid of the current price and
the end. Once it was in the room when it fetched, each of them is in its view, on its wire, in
the channel, still to be published, or in `lost`; `Broadcast` moves it from the channel to
the wires of the room, and `Quiet` with an empty wire leaves only the view and `lost`.
`EventsTypeCorrect`: that a price is at most the number of bidders is not inductive;
`PricesInv` says that it is the number of those who have placed their bid, for which
`Bidders` is assumed to be finite.

**AmountsAndPagesProofs** holds the proofs of `BidAmount` and of `ListingPages`, which share
one argument: a set of natural numbers has a smallest one (`SmallestOf`).

For `BidAmount`: `AmountsTypeCorrect`, `MinimumAlwaysExact`, `RaisesAlwaysExact`. The
powers of ten that the padding multiplies by are a recursive function, of which only its
definition is at hand: that there is such a function, and its values, are shown by the
smallest counterexample (`SmallestOf`, `PowersExist`, `TenStep`), that exponents add up by the
same means (`TenSum`). Then `ScaledWorth` (padding to a common scale keeps the value) and
`ShortestForm` (so does dropping the zeros at the end, and the result is in shortest form) carry
the three properties for strings of any length. `ToExpPos` and `ToExpNeg` are arbitrary,
so the theorems also speak of the real ones, 21 and 7.

For `ListingPages`: `PagesTypeCorrect`, `CursorPagesAlwaysExact`,
`NumberedPagesCostOneRowPerChange`, for every finite set of rows, which is the one assumption
beside positive page sizes. About the operators: in a list no two rows have the same offset, and
a row with a greater key has a greater one (`OffsetFacts`); a page holds no more rows than were
asked for (`SliceIsShort`), and no fewer when there are more (`SliceIsFull`); so a page with a
row left over is complete up to its last row and has more behind it (`PageFacts`). `PagesInv` then
says what a client has behind it. With a cursor (`CursorInv`): every row shown so far is at the
cursor or before it, hence the next page shows nothing twice; and the rows which were there all
the time, lie before the cursor and were not shown (`Passed`) are no more than the pages that
were asked for after a row which had left (`lost`), because `skip: 1` drops one row, and it is the
cursor's own as long as that is in the list (`SkippedRow`). With page numbers (`NumberedInv`):
the shown rows that have been pushed beyond the client's place, together with those shown
twice (`Again`, `Repeated`), are no more than the rows that came to a place, and the rows not shown
that have been pulled back before it (`Behind`) no more than those that left one. A page
keeps both; a change of one row shifts every offset by at most one (`OffsetsShift`), and since
offsets are unique it takes at most one row across the client's place. TLC checked `PagesInv`
(three rows, three changes) before it was proved.

Only model-checked: the liveness properties (`EveryRequestFinishes`, `AuctionsEndUnlessMishap`,
`EventsArePublished`, `ShutdownCompletes`), since fairness (`ENABLED`) is out of the provers'
reach.

## 5. Not modelled

* Images, categories, titles, display names, avatars and the shape of answers: no property
  reads them. The price filter of the public list acts as the status filter does (a row
  joins or leaves) and has no action of its own.
* The upper half of `Prisma.$transaction`: it is taken as PostgreSQL's READ COMMITTED
  with row locks. Time-outs of waiting transactions are `Abort`.
* The generated Prisma client (`packages/database/generated`, about four fifths of the
  TypeScript in the repository): types and query builders without a rule of their own. What
  its calls do is part of the actions that make them.
* Authentication, roles and validation middlewares: sequential and stateless; they appear as
  guards and input sets. Hashing and the access token: a password matches or it does not.
* The socket handshake and the user room, to which nothing is sent.
* A client that fetches before it is in the room (it misses what is broadcast in between): the
  client is not part of the repository's code, and the one modelled is the documented one.
* That a numbered page is announced by its count and then found empty, or the other way round,
  because rows and count are two statements. Only the rows are spoken of.
* Logging, configuration, and the UI package, which no application uses.

## 6. Plan

Done, in order of importance: the store and its contract, the lifecycle with its proofs, the
tokens, the events with outages, the accounts, the pages, the processes, the amounts.

Next:

1. A composition of `AuctionLifecycle` and `AuctionEvents`, so that what the worker
   publishes is what the rooms see, with the conditions under which a watcher learns
   of every end.
2. A composition of `ProcessShutdown` with the worker of `AuctionLifecycle`: a deployment that
   stops the worker and starts another while jobs are delayed.
