# TLA+ project for the CoParentes backend

The backend (`src/src`, Node.js, Express, Prisma over PostgreSQL) serves two
separated parents who share a custody calendar, expenses, messages and
documents. This directory holds TLA+ models of its stateful parts, TLC runs on
small instances and proofs checked by TLAPS for all instances.

All paths below are relative to `src/`.

## 1. How the code runs, and what an action is

One Node process serves all requests. A handler runs undisturbed between two
`await`s; every `await prisma...` is one SQL statement, or one `$transaction`,
which PostgreSQL makes atomic. Between two of them any other request, from the
other parent, from a second device of the same parent or from a repeated tap,
may run its own statements, and the handler may end: a statement throws, or the
process stops. Nothing is retried, and almost no statement that follows a check
repeats the check in its `where`.

So **an action is one statement together with the code up to the next one**.
What a handler has read stays in its own record (`req[h]`) until it is used;
`req[h].step` names the statement that comes next; `Fail(h)` ends the handler
anywhere and leaves what was written. The number of handlers is the number of
requests that can overlap: with one handler requests are serial. Properties are
stated for what they need: most hold for any overlap and any failure, some only
for serial requests.

The newer modules extend `Load`: a load says which handlers serve (`load.crowd`) and
which kinds of request arrive, is chosen once in the initial state and never changes.
`Overlap` is the size of the crowd, `Serial` says that it is one. One specification
thereby covers requests that come one by one and requests that overlap, and a property
such as `ParentsBounded` says by how much the second may exceed the first.

Assumed of the parts outside `src/` (marked *external* in `PROJECT.json`):
one Prisma call is atomic (an `upsert` on a unique key too), a `$transaction` is
all or nothing, `findFirst` returns one of the matching rows (the newest where the
call says so), a mail that is reported as failed or timed out may have arrived or not
(no property says what has arrived, only what the server was told).

## 2. Inventory

| Component (source) | State | Operations | What is hard | What makes it correct |
|---|---|---|---|---|
| **Custody calendar**: `src/services/custody/*.js`, `src/services/calendar.js`, `src/routes/calendar.js` | CustodySchedule, CustodyException, SwapRequest, CustodySlot (unique per day) | propose / answer a schedule, ask for / answer an exception, ask for / answer a swap, edit a handover | every operation is 2 to n+4 statements without a transaction; answers overlap; status is checked once and written unconditionally | no day changes without the consent of both; a slot shows its true source; an answer stands once it is given, but for answers already under way; one schedule in force; agreed changes survive an approval; every day of the schedule in force is there |
| **Pattern arithmetic**: `src/services/custody/pattern.js`, `dateUtils.js`, `constants.js` | none | custodian of a day | weekday and week numbering, negative weeks, older rows without a cycle length | the same answer as counting days |
| **Expenses**: `src/services/finances.js`, `src/routes/finances.js` | Expense.status, paidById | create, accept, dispute, settle | the check and the update are two statements | only the other parent answers, only the payer settles, "disputed" and "settled" are terminal |
| **Account**: `src/services/session.js`, `authService.js`, `src/middleware/auth.js`, `src/routes/auth.js`, `account.js` | User.passwordHash / deletedAt, Session, PasswordResetToken | login, logout, change and reset of the password, delete, purge | the session limit, the two statements of every password change, links that supersede each other, mail time-outs | a password change ends all sessions; one usable link, used once; at most five sessions |
| **Membership**: `src/services/workspace.js`, `authService.js` (join), `src/routes/workspace.js`, `invite.js` | User.workspaceId / role / childProfileId, Workspace codes, EmailInvite, Child | register, join by code, invite, accept, refresh codes, delete a child or an account | checks of "is the place free" before a slow hash or outside the transaction | two parents per workspace, a profile for each child's account, codes that last |
| **Threads and messages**: `src/services/threads.js`, `messageReactions.js`, `messageTags.js`, `messageAttachments.js` | Thread, ThreadKey, Message, reactions, tags | get or create, post, read, react, tag | get-or-create without a unique key; toggles; notices from other components, whose errors are swallowed | one family and one system thread, message and last activity together, no key of a deleted account |
| **Documents**: `src/services/documents.js`, `src/routes/documents.js` | Document | upload, list, delete | the quota is an aggregate read before the insert | the quota, up to the overlap |
| Exports, consents | rows of their own | create, list, purge | an export reads many tables one by one | purge by age |
| **User profile, recovery key**: `src/routes/user.js` | User columns | update, store and mail a recovery key | write, mail, roll back | the stored key is the newest whose mail was not refused |
| **Weekly statistics**: `src/services/weeklyStatsJob.js` | a mark in memory | send once a day | two triggers, read before and set after an `await` | one mail a day, one more for each job that overlaps |
| **Rate limits**: `src/middleware/otpRateLimit.js` | counters in memory | count, lock, clean up | no `await` inside; the boundaries of window, lock and cleanup | the cleanup changes no answer |
| Login codes, trusted devices | tables only | none reachable | retired (`otp.service.js:27`) | - |
| Receipts, crypto, mail, roles, start-up | none | conversions, I/O, guards | - | - |

Components meet in few places: schedule, exception and swap answers all write
CustodySlot; custody and swaps post notices to the system thread (errors are
swallowed, no custody state depends on them, so the notices are left out);
account deletion frees a place in the workspace, as does a move by invitation;
Membership decides who is a parent, which Threads reads when it compares the keys of a
new thread; accounts are deleted with their keys or without; a change of password clears the recovery envelope; `requireAuth` stands before all
routes but login, registration and reset. The mobile client is outside.
`PROJECT.json` lists the hazards line by line.

## 3. Modules

| Module | Models | Correspondence |
|---|---|---|
| `CustodyState` | the four custody tables, the requests in flight, their failures | `schedules`, `exceptions`, `swaps`, `slots` are the tables; an id is the row's place in the order of `createdAt`; `req[h]` holds a handler's locals |
| `ScheduleActions` | `scheduleActions.js`, `slotGeneration.js` | `ProposeCustodySchedule` / `CreateSchedule`; `RespondToCustodySchedule`, then `RejectSchedule` or `SupersedeActive`, `Activate`, `ReadProtectedDays`, `DeleteOwnSlots`, one `WriteSlot` per day |
| `ExceptionActions` | `exceptionActions.js` | `CreateCustodyException` / `CreateException`; `RespondToCustodyException`, `DecideException`, one `ApplyException` per day |
| `SwapActions` | `calendar.js` (swaps), `persistence.js` | `CreateSwapRequest`; `RespondToSwapRequest`, `ReadPendingSchedule`, `ReadActiveSchedule`, `EnsureOriginalSlot`, ..., `SwapSlots` (the transaction), `AnswerSwap` |
| `SlotActions` | `slotActions.js` | `UpdateCustodySlotHandover`, `FindSlot`, `UpdateSlot` |
| `Custody` | the four together, and what they promise | `Next`, `Fairness`, the properties |
| `CustodyPattern`, `PatternWalk` | the date arithmetic, and a walk day by day that it is compared with | a day is a number of days since 1970-01-01; the walk keeps weekday and week by counting |
| `Expenses`, `ExpenseLifecycle` | `finances.js`; the status diagram of its comments | `UpdateExpenseStatus` is the read and the check, `WriteStatus` the update |
| `Accounts`, `AccountPromise` | one user's sessions, password, links; what an account promises | `LoginUser` ... `CreateSession`; `Authenticate`, `ReadUser`; `UpdatePassword`, `DeleteSessions`; `CreateLink`, `InvalidateOthers`, `SendMail`, `DropLink`; `ConfirmPasswordReset`, `Claim` |
| `Load` | which handlers serve and which kinds of request arrive | section 1 |
| `Membership` | `workspace.js`, the joins of `authService.js`, `routes/invite.js`, the transaction of `account.js` | a workspace is named after the user who founded it, a code is its number in the workspace; `RegisterUser` / `CreateFamily`; `JoinWorkspace`, `CheckParentB`, `CreateParentB`; `ClaimProfile` / `CreateChildAccount`; `SendInvite`, `RefreshForInvite`, `CreateInvite`; `AcceptInvite`, `FindInviter`, `CountOwn` and `CountTarget` in either order (`Promise.all`), `Move`; `AskDeleteChild` / `DeleteChild`; `AskDeleteAccount` / `DeleteAccount` |
| `Threads` | `threads.js`, `custody/messaging.js` | a thread is known by the stamp of its `createdAt`, a message by its `sentAt`; the members come, move and are deleted in `ParentJoins`, `ParentMoves`, `DeleteOwnAccount`, `DeleteChild`; a deleted member is in `gone`, and its row still found by what does not look at `deletedAt`; an interactive transaction takes two actions, since its rows are stamped before they can be seen |
| `MessageMarks` | `messageReactions.js`, `messageTags.js` | one row of state for each pair of user and message |
| `Documents` | `documents.js` | a document is its size, uploader and privacy |
| `RecoveryKeys` | `POST /user/recovery-key`, `sendRecoveryCodeEmail` | an envelope stands for the code that opens it: store, mail (taken, timed out or refused), roll back |
| `WeeklyStats` | `weeklyStatsJob.js`, `routes/internal.js` | `StartJob` (the mark is compared), count, mail, mark; midnight; restart |
| `OtpRateLimit` | `otpRateLimit.js` | one key in each map; an attempt is one action, as it has no `await` |
| `Services` | the last six side by side | they share the handlers and no table; a step of one leaves the others alone |
| `MC_*` | instances for TLC | model values, plans, loads, bounds |
| `*Proofs` | theorems about the module they are named after; `CustodySerialProofs` about Custody with one handler, `PatternProofs` about PatternWalk, `MessagesProofs` about Threads and MessageMarks, `ServicesProofs` about the other services and their composition | section 6 |

A few operators are faulty copies of the action that follows them (a dropped
status check, one statement too few); they are marked `mutant`, no specification
uses them, and each breaks the property that `PROJECT.json` pairs it with.

Abstractions. A plan is its range and the custodian of each day, which is all the
handlers read of a schedule; the two plans of `MC_Custody` come from
`CustodyPattern`, so the calendar is checked with what the arithmetic yields.
Handover time and place are one value. A password is compared, never hashed; a
session or link row has a state instead of dates, and the clock is an action. In
Accounts `under` and `compared` (the password at a session's creation, and the one that its
login compared) exist for the properties only, as do the variables marked *history*:
`wanted` (MessageMarks), `newest` and `lost` (RecoveryKeys), `mails` (WeeklyStats), `unpruned` (OtpRateLimit). In Membership a check that
a unique key repeats at the insert is joined to the read after it, and `requireAuth` to the
first statement. Notes, amounts, names, notices and serialisation are left out.

## 4. Runs

`CHECK_DEADLOCK FALSE` everywhere: clients may stop sending, and ids run out.

| Run | Instance | Shows |
|---|---|---|
| `custody_exceptions` | 2 handlers, 2 days, 2 schedules, 1 exception, 2 failures | `DaysAreAgreed`, `SlotsCarryTheirSource`, `NoUnilateralChange`, `LateAnswersBounded` under overlap and failure |
| `custody_swaps` | 2 handlers, 2 days, 1 schedule, 1 swap (two days, or one day with itself), handover edits, 1 failure | the first three, where swaps repeat and meet generation |
| `custody_serial` | 1 handler, all kinds of request, 1 failure | the serial promises: superseded is final, accepted is what shows, agreed changes survive, swaps keep the balance, handovers are locked, the calendar follows the schedule (without failures) |
| `custody_approvals` | 2 handlers, 3 schedules, no failure, fair | `SchedulesBounded` (two schedules in force, two open proposals) and `ApprovedScheduleIsGenerated` when proposals and approvals overlap |
| `pattern` | all presets, custom and older patterns, 14 start days, 38 days both ways | `CustodianFollowsTheWalk`, `PresetsAreFair` |
| `expenses` | 2 parents, 2 handlers, 2 expenses | `RightfulAnswers`, `SettledAfterAnswer` |
| `expenses_race` | the same | violates `DisputedIsTerminal` (section 7) |
| `accounts_overlap` | 2 handlers, limit 1, 3 session rows, 2 links, 1 failure, no clock | `SessionsBounded`, `NoSessionOutlivesThePassword`, `StaleLoginsBounded`, `UnclaimedLinksBounded` |
| `accounts_serial` | 1 handler, limit 2, 4 session rows, 2 links, clock and purge | `PromiseKept`: Accounts implements AccountPromise |
| `accounts_links_race` | 2 handlers, links only | violates `OnlyOlderLinksAreInvalidated` (section 7) |
| `membership` | 1 or 2 handlers, 3 users, 3 addresses, 1 child profile, 1 invitation, a code that runs out once | `ParentsBounded` under overlap and failure; one at a time `ChildAccountsHaveProfiles`, `MovesJoinTwoSingles`, `FreshCodesStay` |
| `services` | six services, each with one request at a time and with 2 (WeeklyStats: 3) at once; 2 adults, 1 child, 3 stamps; 2 marks, 3 tags; 3 documents against a quota of 2 and a storage of 3; 3 envelopes; 3 days; time 1 to 7 against windows and locks of 1 and 3 | Threads: `ChannelsBounded`, `NewestActivity`, `NoKeyOutlivesItsAccount`; MessageMarks: `ReactionsToggle`, `TagsBounded`; Documents: `DocumentsBounded`; RecoveryKeys: `RefusedCodeIsNotKept`; WeeklyStats: `MailsPerDayBounded`; OtpRateLimit: `PruningIsInvisible` |

Why the bounds are enough. Every race in this code is between two requests, or a
request and a failure; two handlers show it, and the theorems of section 6 cover
any number. Two days are the Sunday and the Monday between which a weekly pattern
changes hands: enough for a generation to be interrupted half way and for a swap;
the plans disagree on both, so a stale custodian shows. Two schedules make one that
replaces another; a third lets two proposals stand beside a schedule in force, and two approvals
follow on them. One exception covers both days. The walk of `pattern` is longer
than two of the longest cycles and crosses 1970-01-01. A session limit of one
makes the second login the excess one; three rows let the excess repeat. Both
bounds of Accounts also hold with three handlers (eight session rows, or five links and
two failures), which takes too long to be a run of the project. Three users are two
parents and one too many, or two parents and a child; one invitation is enough for the inviter to
move or leave before it is accepted. Overlap in `membership` is split into the kinds
of request that touch the same rows (who is a parent; the code; the child profile), because all at
once is too large; one request at a time has the kinds of two such groups together. The
components of `services` share no table, so a load sends requests to one of them, and
the run is a sum of six small ones instead of a product. Documents of size 1 and 2 against a
storage of 3 fill both limits; three stamps are a thread and two messages whose order may
differ from that of their commits; a third job is the one that shows a day with more mails
than jobs at once (a job that ends after midnight puts the mark back a day); the clock
passes every boundary of both windows and of the lock.

Symmetry
is used where the model does not tell parents, handlers or passwords apart,
never with liveness.

The serial promises do fail with two handlers: an approval and an acceptance that
overlap can overwrite an agreed change (`slotGeneration.js:11` against line 58), a
superseded proposal can be activated, two schedules can be in force, a proposal can
slip in before a handover edit. That is what the code does; the runs say what is left
of each promise: `SchedulesBounded` holds with as many as there are handlers, and
`LateAnswersBounded` says that of the requests about to write an answer all but one at most have
been overtaken (an accepted exception does turn rejected, a schedule in force superseded or
rejected, by such a late answer, and by nothing else). Likewise, in Accounts, a login that has
compared the old password may create its session after a password change deleted
the others: `NoSessionOutlivesThePassword` is about the sessions created before, and
`StaleLoginsBounded` counts those created after.

Likewise in the newer modules: two joins at once may make a third parent
(`authService.js:289`), two requests two family channels (`threads.js:172`), two taps of one user on one
message may both add or both remove (`messageReactions.js:110`), two `PUT` of tags may leave
the union, two uploads may exceed the quota, two requests for a recovery key may leave an
envelope whose mail was refused (the rollback restores what was read first), a key that
was checked before its parent left may be stored afterwards. The
bounded properties say how far this goes; those that hold only one at a time say `Serial`.

## 5. Fairness

Only `custody_approvals` needs any: weak fairness of each handler's `Step`. A
handler in flight always has an enabled step, and the event loop resumes it when
its query has returned; a query that never returns is outside the claim, as is one that
fails (`MaxFailures = 0`). Nothing forces a parent to send a request.

## 6. Proofs

Every safety property and every action property of the passing runs is a theorem, for all values of
the constants (any sets of parents, handlers, days, plans, rows). Assumed are the named `ASSUME`s of
the modules, which TLC evaluates on every run: bounds are natural numbers, days are
integers, the sets of handlers and days are finite, `Null` is none of the other values,
and the schedules that PatternWalk looks at are rows that `proposeCustodySchedule` can
store (`SchedulesAssumption`; `ProposedRowsAreStored` proves that it stores no others).
Two kinds of theorem have a hypothesis besides: the serial promises of Custody
(`OneAtATime`, there is one handler), and `PromiseIsKept` and `SerialRefinement` (one handler;
the first also `MaxFailures = 0`). Where a property says `Serial`, as those that use `Load` do, the
hypothesis is in the property.

**Custody, any overlap and any failure** (`CustodyProofs`). `TypeCorrect`,
`DaysAgreed`, `SourcesAreTrue`, `NoChangeAlone`, `FewAnswersAreLate`, `SchedulesAreBounded`. The properties are
not inductive: that a written slot is right depends on what its handler checked
statements ago. `IInv` adds, for each request in flight, what it can still rely
on (`RequestOK`): an answering user is not the one who asked, an approved schedule
is approved by the other parent although its status may have changed since, the days
still to be written belong to a decided exception, a custodian that was read is that
of a row which still exists. These facts survive other handlers because rows only
grow in the relevant columns (`Grow`: ids are not re-used; plan, requester and
approval stay), so `RequestFrame` and `SlotFrame` are proved once and each action has
one lemma that names only what it disturbs. The action properties follow from `IInv`
step by step. `SchedulesAreBounded`: open rows alone cannot be bounded inductively, so
`BoundsInv` counts with them the handlers between "supersede" and the statement that opens a
row; closing comes before opening, and each handler opens at most one. `FewAnswersAreLate`: a
handler becomes late only when another one writes its answer, and that one is done with it and no longer
late, so the last handler in time stays in time until it has written.

**Custody, one request at a time** (`CustodySerialProofs`). The other seven promises: what was
replaced stays replaced (`SupersededForGood`), approvals respect agreed changes
(`ChangesSurvive`), swaps keep the balance (`SwapsAreEven`), handovers are locked
(`EditsAreChecked`), exceptions that show were accepted (`OnlyAcceptedAreApplied`), and the calendar
shows every day of the schedule in force (`CalendarIsComplete`). `SInv` adds to `IInv` that
what the single request has read is still so (`SerialRequest`): the row that it answers is still
open, no other schedule is in force once it has superseded them, a custodian that it read
is the row's. The heart of it is `CalendarFacts`: whatever the statement, the days of
the schedule in force that a generation has still to write (`ToCome`) are the only ones that may be
missing. A request that breaks off is covered by all of them but the last, which asks for `failures = 0`.

**Pattern arithmetic** (`PatternProofs`). `ArithmeticFollowsTheWalk`: `WalkInv` says that the
weekday and the week that the walk counts are the remainders the code computes; one day
more or less is one step of a division with remainder (`Remainder` and the lemmas after it), on
both sides of the start and of 1970-01-01. `PresetsDivideTimeEqually`: of two days a week apart
exactly one is parentA's, so the days that parentA has of any fourteen are in bijection with the
first seven. The run covers 38 days; the theorems, every integer.

**Expenses** (`ExpensesProofs`). `TypeCorrect`, `AnswersAreRightful`,
`SettledIsAnswered`, by an `IInv` that keeps what the check established until the
write (the payer never changes, an answered row stays answered); and
`SerialRefinement`: with one handler, `Expenses` implements `ExpenseLifecycle`.

**Accounts, any overlap and any failure** (`AccountsProofs`). `TypeCorrect`;
`PasswordEndsSessions`: whoever has changed the password and not yet deleted the sessions is
still at that statement or has failed, which is what the property excepts.
`StaleLoginsStayBounded`: whoever changes the password stands at the deletion of the sessions next,
which the property excepts, and is no login; when it has deleted them, what is stale are logins of
other handlers. `LinksStayBounded`: with the unclaimed links are counted the handlers that have created one and
not yet deleted the others. `SessionsStayBounded` is the one whose invariant is not obvious: a
login reads the oldest sessions, deletes them and then creates its own, and the sessions that two
logins read may be the same. `SessionsInv` therefore speaks of every set D of handlers about
to delete: the sessions that none of D is about to delete, the handlers about to create one, and the size
of D together never exceed the limit plus the number of handlers less one. Taking D empty
gives the bound; a read extends the sets by one handler (`OldestAreEnough`: it drops all but
the limit less one), a delete moves a handler out of D.

**Accounts, the promise** (`PromiseIsKept`). With one handler and no failure, `Accounts` implements
`AccountPromise`: each statement is a step of the abstract account or leaves it alone. The mapping
shows sessions and links as the owner may see them between requests; while one is between
the two statements of a change of password, or of the making of a link, the state after the second
is shown already (`OwnSessions`, `UsableLinks`). A session that was good when its request was let in
(`Served`), and a link that was in time when it was sent (`InUse`), count as good until the request
has been answered, as the clock may let them expire, and the purge remove them, between its statements.
`Relies` says what else the request has read and is still so. A deleted account has no special
place in it: its random password is none that a client knows, `loginUser` does not look at `deletedAt`, and a
reset by a link that has survived the deletion lets its owner log in again, in both modules
(`requireAuth` then ends the session at its first use).

**Membership** (`MembershipProofs`). Any overlap and any failure: `MemberTypes`;
`ParentsAreBounded`, where parents are counted together with the tickets, the requests that have seen a
free place and not yet taken it (a check that issues a ticket has seen no parent but the founder
of the workspace, as only founders have the role parentA, or a single member, so whatever else
counts is a ticket of another request in flight; a step that takes the place gives its ticket up).
That a profile has one account is left to its unique key: no order of statements could break it. With one request at a time, with failures:
`ChildrenKeepTheirProfiles`, `MovesAreOfSingles`, `CodesStayUntilTheyExpire`, from
`FamilyInv`: what the request has counted or read is still so at its last statement (`RequestFacts`: the profile
is in the family, the code has run out, both have been counted alone), and between requests the
inviter of an open invitation is a parent who has not left and a child's account has its profile (`FamilyFacts`).

**Threads, reactions and tags** (`MessagesProofs`). `ThreadsInv` holds with any overlap: the rows of a
channel and the requests about to make one are at most as many as requests (`ChannelsStayBounded`: a
request that finds none is one of those counted from then on); no stamp is ahead of the clock, and
`lastActivity` is that of a row, the newest if nobody else commits in between (`ActivityIsAStamp`).
`KeysEndWithTheAccount` (serial): keys past their check are those of present parents until they
are stored (`Checked`), as the family changes only when no request is in flight, and who deletes the own
account takes its keys along. `TapsToggle`: a tap that is alone on its mark is either on its
way, with the row as it read it, or has arrived, with the row as its user wanted it.
`TagsStayBounded`: each tag of a mark can be laid to one handler so that none has more than a request
holds (`EachBroughtSome`): before a handler inserts, it has seen what it brought earlier and takes it away.

**Services** (`ServicesProofs`). `UploadsStayBounded`: documents, and bytes (`Bytes` counts pairs of
a document and one of its bytes, so that cardinality theorems apply), are bounded together with what
has passed the quota and not been inserted; the first upload of those under way has seen room for
itself, each further one adds at most a document. `MailsStayBounded`: a job that ends after midnight puts the
mark back and lets every free handler send again, so the invariant gives each late job a credit,
`Credit(n, l) = l(2n + 1 - l)`, that its end pays for. `RefusedCodesAreTakenBack`: with one request at a time
the previous envelope that a request remembers is the newest whose mail was not refused, at every
statement half way; after a crash only that the stored envelope is its own (`Stored`), which the next
mail that is not refused turns into the whole again. `CleanupIsInvisible`, for any limits, windows and locks:
a bucket `Stands` for the one that was never cleaned up: they are equal, or it is gone and the other
is `Stale` (its window and its lock are over), or they are `Alike` but for a lock that is over; and
attempts, time, cleanup and a restart keep that. `EachServiceIsItself`: the composition implements each
component, hence `ServicesKeepTheirPromises`, all nine properties of one process.

Only model-checked: `ApprovedScheduleIsGenerated`, as liveness under fairness is outside the prover;
and the two violated properties of section 7, which have counterexamples instead of proofs.

## 7. Where code and comments disagree

* `src/services/finances.js:212` calls "disputed" terminal. The update at 252 does not
  repeat the check of 213, so two answers that overlap move a disputed expense to
  accepted (`expenses_race`).
* `src/services/authService.js:599` says older links are invalidated. The statement deletes
  every other unused link, newer ones too; two requests that overlap leave none
  (`accounts_links_race`).

What the models show besides, where no comment says otherwise or the comment is a matter of reading:

* `src/services/weeklyStatsJob.js:47` says successful sends are deduplicated per calendar day. The mark is
  compared before the mail and set after it, so the tick and the HTTP cron may both send;
  `MailsPerDayBounded` says how often at most.
* A child that deletes its own account keeps `childProfileId`, and the key is unique: the
  profile can never have an account again, unless a parent deletes the profile.
* After parentA has left, two users with the role parentB may share a workspace (one joined by code, one
  invited by e-mail). `ParentsBounded` counts people, not roles.
* Accepting an invitation moves the user to the workspace the inviter is in *now*, not to the
  one the invitation was sent from, and checks no role. Two people who accept each other's invitation
  at once swap workspaces. The keys that a moved user holds in the workspace left
  behind stay there, and others may join that workspace by its code later.
* `deleteChild` (`src/services/workspace.js:288`) leaves the keys of the child's account, and
  `syncFamilyThreadKey` (`src/services/threads.js:370`) gives a key to whoever has the role of a child in the
  workspace, deleted or not. `NoKeyOutlivesItsAccount` excepts children for that reason.
* Reset links survive the deletion of an account, and `loginUser` does not look at `deletedAt`: the
  deleted account can be given a password and logged into under its new address, until
  `requireAuth` ends the session.
* The route's check of a document's size (`src/routes/documents.js:18`) takes padding off that the
  length does not contain if there is more of it than base64 needs: what is stored may exceed
  `MAX_DOCUMENT_BYTES` by as much. `MaxSize` bounds the stored size.
* An invitation renews an expired code of the workspace even when it has a parentB already.
* Reactions and the recovery envelope stay when an account is deleted.
* Users who join by code leave no consent rows; users who register do.
* Threads are ordered by stamps of a millisecond. The model gives distinct stamps; ties are left out.

## 8. Not modelled, and what is left

Not modelled: plain calendar events (`createCalendarEvent`, `updateCalendarEvent`,
`deleteCalendarEvent`: single statements on a table of their own), consents (rows are only
added), exports (reads, and one row), public keys and profile fields, `updateChild` and
`updateWorkspaceName` (one update that nothing reads first), retired login codes and trusted devices (no
request reaches them), receipts (text recognition), encryption and the text of mails, file
signatures, the guards of roles (they are in the guards of the request actions), start-up and
seeds. They have no order of steps, or no state, that a property could be about.

Left for later: an abstract specification of the custody calendar (a day, its custodian and the
agreement it rests on, changed in one step) that `Custody` implements with one handler, as
`Accounts` does `AccountPromise`; the same for the threads of a family. The serial theorems of
Custody and Membership allow no overlap at all, although requests about different rows do not
disturb each other: which pairs may overlap is not stated. Refinement under overlap is not
attempted: section 4 says where it fails.
