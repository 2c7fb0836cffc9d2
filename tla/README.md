# Idento: models and proofs

Idento checks people in at events. A Go server (`backend/`) keeps attendees in
PostgreSQL; a React panel (`panel/`), a desktop kiosk (`desktop/`) with a
hardware agent (`agent/`) and a Kotlin mobile app (`mobile/`) scan badges
against it; live monitor screens follow an event over server-sent events. This
directory holds TLA+ models of the parts where steps of several actors meet,
the TLC runs that check them on small instances, and TLAPS proofs for all
instances.

1. Inventory  2. Plan  3. Modules  4. Runs  5. Findings  6. Proofs
7. Assumptions  8. Not modelled

## 1. Inventory

Server (Go). Every writer of an attendee goes through `PGStore`; most then
issue a NOTIFY that every server process hears.

| Component (source) | State | Operations | Hard behaviour | What makes it correct |
|---|---|---|---|---|
| Station check-in, undo (`handler/checkin.go`, `store/pg_store.go` 898-1199) | attendee row, `checkin_actions` feed | scan, undo | guarded UPDATE, miss, fallback SELECT, bounded retry | one winner, answers true at one instant; feed and row agree |
| Batch check-in (`checkins_batch.go`, `pg_store_batch.go`) | the same, dedup log | resend queued items | commit, then log insert; crash between | an item applied once |
| Attendee editing (`attendees.go`, `attendee_codes.go`) | attendee row | info, PUT, block, delete, codes | load, edit, write the whole row | no edit takes a scan back |
| Legacy sync (`sync.go`) | attendee row, feed | pull, push | last write wins over a partial copy | feed counts real flips |
| Print counter (`attendee_printed.go`) | `printed_count`, feed | mark printed | best-effort feed row | no print is lost |
| Publishing (`event_publish.go`) | none | publish an event id | owed until sent; crash, timeout | nothing shown changes silently |
| Monitor push path (`broker/`, `monitor_stream.go`, `useMonitorStream.ts`) | LISTEN sessions, channels, timer, cache | notify, relisten, reconnect, refetch | lost notifications, coalescing, in-flight reads | nobody is left behind; settles |
| Registry, template, bulk route, zones, staff on the server | rows | single guarded statements | met by the screens below | compare-and-swap, one row per request |

Screens (React). A screen is one event loop, but every `await` lets the world
and the operator move: the component may show another event, be unmounted, or
have sent a second request before the first is answered.

| Screen (source) | Hard behaviour | What makes it correct |
|---|---|---|
| Check-in station (`panel/.../checkin/useCheckinFlow.ts`, `useScanInput.ts`, `StationPage.tsx`) | scan, lookup, check-in, print, mark: five awaits over a moving station, printer, connection; a one-slot scan buffer | one badge per check-in; always back to idle |
| Recent scans (`RecentScansRail.tsx`) | reprint that timed out may have printed; shared dialogs | a badge per confirmation at most |
| Launch ceremony (`LaunchCeremony.tsx`) | form seeded late, URL moves | saves only what was loaded for that event |
| Kiosk pages (`desktop/src/pages/Run.tsx`, `SelfService.tsx`, their hook) | prints outlive verdicts and mounts; nobody to press a button | badges earned; button comes back; returns to idle |
| Agent supervisor (`useAgentSupervisor.ts`, `commands.rs`) | restart kills an agent that is booting | the agent comes back |
| Kiosk equipment (`desktop/src/pages/Equipment.tsx`) | calls to an agent deselected meanwhile; test timers | a test can end |
| Equipment hub (`EquipmentPage.tsx`) | registry, then mirror to the agent in two calls | a mismatch is reported |
| Printer, scanner wizards (`PrinterWizard.tsx`, `ScannerWizard.tsx`, `useWedgeListen.ts`) | answers of earlier sessions; one buffer for all scanners | one device per session; a fresh scan |
| Badge editor (`BadgeEditorPage.tsx`, `editorState.ts`) | version check against a cache that refetches; guard waits for a save | no lost save |
| Fonts, preview, test print (`useEventFontFaces.ts`, `usePreviewAttendee.ts`, `ZplPreviewModal.tsx`, `TestPrintDialog.tsx`) | loads and generator runs answered out of order | "ready" is true; the job is what is on screen |
| Attendee drawer (`AttendeeDrawer.tsx`, `EditAttendeeForm.tsx`) | typing during a save; overlapping removals | typing survives; no grant is removed twice |
| Attendee card, list (`AttendeeCard.tsx`, `AttendeesPage.tsx`, `BulkBar.tsx`) | answers after the sheet closed; batches cut short | only confirmed toasts; an honest tally |
| Import (`ImportWizard.tsx`, `wizardState.ts`) | chunks, retries, skips; mapping and merging | each row accounted, created once, as mapped |
| Zones (`ZonesPage.tsx`, `ZoneRuleEditor.tsx`) | page keeps a copy of the editor's flags | never locked out |
| Staff (`StaffPage.tsx`, `StaffCard.tsx`, `AddStaffDialog.tsx`) | a new code kills the one before; create, then assign | known codes live; no account forgotten |
| Mobile queues, server zone handlers, provisioning, limits, authentication | see section 8 | |

Interactions: mobile clients queue scans and resend them to the batch
endpoint; panel and kiosk take scans from the agent's buffer by polling, check
in through the station endpoint and print through the agent; a monitor
refetches what the writers committed; the office screens prepare the rows
(attendees, templates, zones, staff) the venue's screens use.

`PROJECT.json` lists the hazards, each at its line, with the properties that
cover it.

## 2. Plan

Done: (1) the writers of a check-in, (2) the push path, with proofs; (3) the
screens at the venue; (4) the screens of the office; (5) proofs about every
screen: every safety property the passing runs check, the types, and that the
two harnesses implement each screen's specification; (6) proofs of what is left
of the properties the findings break, and of the safety half of what liveness
needs.

Left, by importance:

- `BatchClient`: the mobile registration queue (enqueue, flush, lost answers,
  app death, backoff) composed with the batch endpoint of `CheckinStore`; each
  queued scan takes effect at least once, and at most once where no undo
  intervenes.
- `ZoneAccess`: override, category rule and default as operators compared with
  a reference; zone scan, batch `zone_entry` and registration over the UNIQUE
  constraint.
- `PrintQueue`: the mobile print queue's drain; at-least-once printing, one try
  per pass.
- `MonitorAttribution`: `created_at` from several clocks against commit order.
- Composition of `ScanStation` with `CheckinStore` instead of the atomic
  registry it assumes, justified today by `ImplementsLedger`.

## 3. Modules

### CheckinStore, CheckinLedger, CheckinHistory

A request is a process: `pc[r]` names the statement it runs next, `call[r]`
what it asks for, `copy[r]` the attendee a handler loaded and edited, `ans[r]`
what it has been told. `row` is the attendees table; `feed` the check-in and
undo rows of `checkin_actions`, in commit order; `reprints` counts its reprint
rows; `log` is `batch_checkin_log`. The columns `at`, `by`, `device` and
`point` hold the *request* that wrote them, which is all the properties need
to tell two scans apart. `CheckinLedger` is the abstract specification: per
attendee one holder or none, one verdict per request, given at one instant.
`CheckinHistory` adds to `CheckinStore` which requests really raised the status.

Granularity. The server runs PostgreSQL at its default READ COMMITTED. A
guarded UPDATE re-evaluates its WHERE on the latest committed row and keeps it
locked to the end of its transaction, so UPDATE and feed INSERT in one
transaction are one step (`StationUpdate`, `UndoUpdate`, `BatchUpdate`).
Everything else is its own step: the ownership read (`StationRead`, ...), the
fallback SELECT (`StationFallback`), the dedup look-up and insert
(`BatchLogCheck`, `BatchLogInsert`), the claim of a status flip (`Transition`),
its separate feed row (`FeedInsert`), the full-row overwrite (`WriteRow`), the
publish (`Publish`). `Crash` ends a request anywhere; `StoreFails` makes a
statement fail and the handler answer an error; `FeedInsert`, `ReprintInsert`
and `SyncWriteFails` are the failures the handlers log and survive.

Three details of the code that the model keeps: `UpdateAttendee` writes every
column but `printed_count` (`Overwrite`); a sync pull leaves out who, device,
point, blocked and deleted, so the push writes zero values over them
(`SyncEdit`); an undo of somebody not checked in is a success and is published
(`UndoFallback`).

`unannounced` and `dropped` are bookkeeping for publishing: a statement that
changes what the monitor's queries read (`Shown`, feed rows) marks the
attendee; a publish clears the marks, because a screen that hears it reads
everything committed by then; a failed or crashed one is remembered.

### MonitorStream

The monitor-visible state is a version number, `db`; a writer commits
(`Commit`) and later publishes (`Publish`), or its publish fails and is only
logged. `listen[s]` is the LISTEN session of replica s: `up`, `dead` (broken,
unnoticed: `WaitForNotification` has not failed yet), `down` (backing off),
`relistened` (LISTEN issued, `BroadcastAll` not done); `wire[s]` counts the
notifications it has received. `link[m]` is the stream of monitor m, from the
panel's call through the handler's Subscribe and hello to its end; `signal[m]`
the one-slot channel; `frames[m]` what is written and unread; `timer[m]` is
`coalescePending`; `fetch[m]` the GET in flight with the versions its
statements read; `shown[m]` the page.

External code is modelled from its use: NOTIFY reaches the sessions that listen
when it commits; `invalidateQueries` cancels a refetch and starts another, but
joins a first fetch that has no data yet (TanStack Query 5, `cancelRefetch`).
Backoff delays, pings, and the other refetch triggers of the query client
(window focus, network) are left out: they only add refetches. Five statements
of the snapshot become two reads, the first and the last.

### The screens: common conventions

A React component is a record of its state and refs. An event handler is one
action up to its first `await`; each continuation is another, and what it read
before the await is a field of the call it belongs to (a *submission*, *PUT*,
*load* or *call* in a set of those in flight). An effect runs in the step that
changes its dependencies, cleanup included. A query is its cached data and the
fetch in flight; a mutation follows TanStack Query 5: callbacks given with the
mutation always run, callbacks given with the call only while its component is
mounted and watches that call. A request that reaches the backend is a step
(it commits) before its answer is one (it arrives), and either may fail, so an
answer is lost after the effect. Counters of the form `Max...` bound what users
and the world do; they are guards, named in each module's CONSTANTS.
Definitions commented "Mutant" are the plausible wrong versions the properties
are tested against; no specification uses them.

| Module | State and actions in terms of the code |
|---|---|
| `ScanStation` | `flowStatus`, `flowBusy`, `dismissTimer` are the hook's state, `busyRef` and timer; `submissions` the running `processCode` calls at *lookup, post, answer, print, mark*; `scanPoll`, `strayPolls` the consume requests of the current and earlier poll effects; `registry`, `checkins`, `autoPrints` the backend and what the printer did. `Navigate` is a move to another station, which resets the hook while its calls go on (`moved` remembers) |
| `RecentScans` | `railDialog` is the dialog shared by all rows, `reprint` the confirmed reprint at send or mark, `undoPending` the undo; `AgentRefetched` changes the printers underneath |
| `LaunchCeremony` | `settingsForm`, `seededFor` the form and its seeding ref; `settingsPuts` the PUTs with the event they were built for; `Start` registers a station |
| `KioskStation` | `kiosk` is the hook's state, `kioskJobs` and `reprints` its calls, each with the mount it was made in; `KioskRemount` leaves a page and comes back |
| `KioskAgent` | `proc` the spawned process, booting for `bootLeft` ticks; `supFailures`, `supRecovering`, `cooldown`, `backoff` the supervisor's refs; time is counted in ticks of the first cooldown |
| `KioskEquipment` | `equipCalls` the page's series *health, lists, answer*, sent to the agent selected at the time; the scanner test with its timer and polls |
| `PrinterWizard`, `ScannerWizard` | `wizSession` / `listening` number the sessions; calls remember theirs; a create may commit and its answer be lost, and Save is then enabled again; `comBuffer` is the agent's one buffer; a wedge is a burst of keys, fast or slow |
| `EquipmentHub` | `registered` the registry, `agentRuns` and `agentKeeps` what the agent uses and what its file says; `mirrors` the remove-then-add calls after a registry write; `unmirrored` what was reported, `silenced` the devices that may have fallen out of step without a word: an answer of a PATCH or DELETE lost, the page left (which also drops a DELETE's callback), a change overtaken by the next, an add the agent answered 201 without having written its file |
| `BadgeEditor` | `editor` the reducer's document, version and dirty flag with `originalRawRef`; `templateCache` the query cache; `templates` the rows whose version the PUT compares; `puts` by kind *save, leave, overwrite*; `blockedNav` the router's blocker. A document is a number, new at each edit |
| `FontFaces` | `loads` the runs of `loadDelta`, cancelled or not; `processed`, `families`, `faceStatus` the hook's refs and result |
| `BadgePreview` | the attendee shown is worked out from two cached lists (`Shown`); `genRuns` the runs of the generator effect; `jobs` what was sent to the agent |
| `AttendeeDrawer` | `editForm` with `editVersionRef`; `patches`, `removals` in flight and which one each mutation watches |
| `AttendeeCard` | `detail` the query cache; `cardDialogs`, `cardCalls` the requests of what is mounted, `moved` when the card has changed its attendee since; `orphans` those whose callbacks are gone; `undoToasts` the toasts. A switch to an attendee whose cached detail can be checked in leaves the sheet mounted; any other unmounts it |
| `AttendeeList` | `listUrl`, `listData` with a clamped page, `batch` the loop of the bulk bar, `tally` what it shows, `outcomes` what became of each request at the other end: *answered*, *nothing*, *unheard* (done after the page stopped waiting), *cut* (done, the connection broke) |
| `ImportWizard` | `parses` of step 1 with `step1SessionRef` and `encToken`; chunks sent in order, `rowErrors`, `rowSkipped`, `rowDone`, retries; `wizard.rows` is the sheet the wizard holds, from which chunks and retries are built at the time; `imported` the one Import was clicked for, `rowsKept` whether no pick that ended late has replaced it, `retriedFrom` the rows a retry was built from; `bulkCreated` counts a row's creations in the backend |
| `ImportMapping` | `computeDefaultMapping`, `validateMapping`, `dedupeByEmail`, `buildBulkPayload`, `chunkArray` and the row numbers as operators over sheets of at most `MaxSheet` rows; names are a base with blanks and capitals as marks |
| `ZoneRules` | `expanded`, `rulesDirty`, `rulesBusy` the page's copies; `ruleEditor` the mounted editor; `ruleCache`, `ruleFetches` the queries; the form and the delete dialog with its session |
| `StaffTokens` | `liveCode` the backend's code per member; `codes` those known to the session; `codeCalls` the cards' calls; `printAll` the run, member by member; `leftRuns` the runs that go on after their page was left, and a call's `heard` flag whether its card is still there |
| `StaffRoster` | `addForm`, `revokeForm`, `zonesForm`; `teamCalls` in flight; `unclaimed` the accounts made and neither assigned nor reported |
| `MCVenue`, `MCOffice` | harnesses: ten and eleven screens, one per behaviour (section 4) |
| `MCCheckin`, `MCHistory`, `MCMonitor` | model values and symmetry sets |
| `CheckinStoreProofs`, `CheckinHistoryProofs`, `MonitorStreamProofs`, `ScanStationProofs`, `KioskStationProofs`, `BadgeEditorProofs` | theorems about the module of that name |
| `VenueProofs` | theorems about the other screens of `MCVenue`, one section each, and about `MCVenue` itself |
| `OfficeProofs` | the same for `MCOffice` |

## 4. Runs

| Run | Instance | Shows |
|---|---|---|
| `CheckinGuarded` | 5 requests, 1 attendee, 1 uuid; station, batch, undo; crashes | `AtomicLedger`, `FeedMirrorsStatus`, `OneScanPerRow`, `NothingSilent` |
| `CheckinLegacy` | 3 requests; all endpoints; crashes, failed statements, failed publishes | `PrintedExact`, `NoOvercount`, `VerdictWasTrue` |
| `CheckinAnswered` | 2 requests; all endpoints, all failures; fair | `Answered` |
| `MonitorFresh` | 1 monitor, 2 replicas, 2 changes, 2 failures of any kind; fair | `TypeOK`, `NobodyLeftBehind`, `Settles` |
| `Venue` | ten screens, one per behaviour; fair | ten safety properties, three of liveness, the types |
| `Office` | eleven screens, one per behaviour; fair saves | eleven safety properties, two action properties, `GuardResolves`, the types |
| `CheckinDouble`, `CheckinReplay`, `CheckinSilent`, `MonitorSlowStart`, `ZoneStale`, `EditorClean` | small | findings, section 5 |

### The two harnesses

The screens share no variable: what joins them is the backend, and each module
has the rows it meets, with other users' changes to them as actions
(`Elsewhere`, `OtherSaves`, `OtherSavesSettings`, `OtherEdits`, `OthersAct`). They are therefore
checked in two runs rather than twenty: `screen` is chosen in the initial state
and never changes, `Alone(s)` leaves every other screen's variables alone, and
each screen's own next-state relation is one disjunct. The behaviours are those
of the screens' specifications, side by side and not interleaved, so an
invariant of one screen holds in the harness exactly when it holds of that
screen. Pages not on show keep one fixed initial state, to avoid counting the
same behaviour several times. `EditorClean` and `ZoneStale` check their modules
directly.

### Why the bounds are enough

Check-in. Attendees meet only in the publish of their event, so one attendee
shows every conflict on a row; the proofs cover the rest. A station that is
raced twice, and answers `conflict`, needs itself and four others, which is why
`CheckinGuarded` has five requests; they also give a replay after an undo. Two
requests of any kind make a station retry once; that it never issues a third
statement is proved (`TypeCorrect`). In `CheckinLegacy` the claims and
overwrites need two legacy requests and a witness. `MaxAttempts` is the code's
own 2. Initially an attendee is not checked in, blocked or not.

Monitor. A monitor depends on no other monitor, only on its replica; two
replicas let it reconnect elsewhere; two changes let one be lost behind
another; two failures let recovery itself fail.

Venue. Two stations, two codes (one of an attendee, one of a stranger) and two
scans give a scan answered after a move or during another; the kiosk has two
guests because a print may outlive the verdict of the first. The supervisor has
the code's threshold of 3 and a cooldown of 1, 2, 4 ticks (the code's 1, 2, 4,
... 30 s, doubling and capped alike) over boots of 0 and 3 ticks, one shorter
and one longer than the first cooldown. Three calls of the hub are a change, a
second that overtakes it and one more; five calls of the wizard are test, save,
refused default, and the same again. 274,243 states.

Office. Two events, because the hazards are answers for the event left behind;
two PUTs of the editor, so that one is answered after the next was sent; three
rows in chunks of two, and four POSTs, for a retry of a row while a later chunk
is out; sheets of three rows over two columns (`FewSheets` leaves out the
sheets whose second column has a padded cell: that column is no key); three
codes for two staff, so that a run of Print all and a card overlap, and one
leaving of their page or cards; three parses, because a late pick that replaces
the rows under an import needs a pick, a full parse and a second pick; previews
of one row (`PreviewRows`), so that a preview is not the whole file; two zones,
because opening the second is what a stale flag would refuse. 1,391,376 states,
depth 33.

What is switched off. Each module's `...Faults` constant says what may happen
around the screen; the runs switch all of it on but for the import's lost
answers (`"lose"`: a chunk sent again then creates its rows again, which the
wizard cannot know). Requests are served once and actions bounded, so behaviours end: deadlock checking is off. `SYMMETRY`
permutes requests, which no property names, and is never used with liveness.

What `NothingSilent` leaves out: PUT, block, unblock and code generation may
overwrite a status and publish nothing (a consequence of finding 1), and a
failed statement after a commit skips the publish (finding 3). The run has the
guarded endpoints; `NeverSilent` proves it for all of `AnnouncedOps`.

### Fairness

- `CheckinAnswered`: `WF(Continue(r))`: `net/http` runs a handler to its end
  and each statement answers or fails; nothing makes a request arrive.
- `MonitorFresh`: weak fairness of owed publishes, broker loops, SSE handlers,
  the hook's reaction to frames, its timers, the snapshot request. A dead
  connection is noticed in the end (TCP keep-alive; the hook has no timeout of
  its own). No failure, change or remount is fair.
- `Venue`: weak fairness of the station's and the kiosk's calls (every `fetch`
  of the flow is answered or rejects; the agent's requests time out), of their
  dismissal timers, of the supervisor's clock, boot and cooldown timers; strong
  fairness of the health poll, which a due cooldown only ever holds up. Scans,
  button presses, outages and moves are not fair.
- `Office`: weak fairness of the answers to the editor's PUTs, for the guard.

## 5. Findings

1. `CheckinDouble`: an edit of an attendee's details, loaded before a scan and
   written after it, un-checks the attendee without a feed row; the next scan
   admits the attendee again, against "zero-double-checkin" (`checkin.go:90-91`).
   The same overwrite is why PUT's guarded claim is not the "sole arbiter" its
   comment calls it (`attendees.go:341-343`).
2. `CheckinReplay`: the dedup row is inserted after the check-in's commit; a
   crash in between and an undo let the same `client_uuid` apply twice
   (`checkins_batch.go:13-16` says "idempotently").
3. `CheckinSilent`: a failed dedup insert turns a committed check-in into an
   error item and its publish is skipped (`event_publish.go:19-20`).
4. `MonitorSlowStart`: a first snapshot slower than the coalescing second
   swallows the hello's refetch, so a racing change does not "surface within one
   coalesce window" (`useMonitorStream.ts:154-155`).
5. `ZoneStale`: after saving a zone's rules, closing the row cancels the
   refetch the save asked for; reopened before another ends, the editor starts
   clean on the old rules and its next save writes them back, although a save
   "can never silently submit an empty or stale array"
   (`ZoneRuleEditor.tsx:240-243`).
6. `EditorClean`: an element edited while a save is in flight is marked saved
   by its answer and leaves without a warning, although every edit "sets
   `dirty: true`" (`2026-07-16-panel-p3.1-badge-editor.md:122`).

Section 6 proves for each what still holds: `NobodyAdmittedTwice` (1),
`ReplayNeedsUndo` (2), `NeverSilent` (3), `EveryMonitorCovered` and
`ScreenMovesOn` (4), `OpenEditorsStayFresh` (5), `CleanWhenPatient` (6).

Smaller disagreements met on the way are named where they are excluded; the
property or the definition that excludes them is in brackets.

- Batch check-in admits blocked attendees (`pg_store_batch.go:114-118`), which
  the station does not (`VerdictWasTrue` is about the station).
- The printer's wizard enables Save again after a create whose answer was lost
  (`PrinterWizard.tsx:445-449`), and the registry has no uniqueness
  (`equipment.go:345-352`, migration 000023): the session registers a second
  device (`NothingAfterTold`: not after it was told of one).
- A device falls out of step without a word when the answer of a PATCH or DELETE
  is lost, the page is left (`EquipmentPage.tsx:651-674` is a callback of the
  call), a second change overtakes the first, or the agent answers 201 to an add
  it could not write to its file (`agent/main.go:564-569`; `MirroredOrReported`).
- A bulk print whose connection breaks after the agent has the job is counted
  failed (`agentClient.ts:301-306`, `BulkBar.tsx:382-384`), although "the failed
  tally never invites re-running an attendee whose badge may already be printing"
  (`BulkBar.tsx:117-123`; `TallyHonest` claims it of timeouts).
- A pick of step 1 that ends late (`ImportWizard.tsx:409-435`) replaces the rows
  in step 3, against "`state.rows`/`state.mapping` never change once past step 2"
  (162-165): a retry then sends a row of the other file (`RowsAccounted`,
  `CreatedOnce`: `rowsKept`).
- The card is not keyed by its attendee (`AttendeesPage.tsx:331`): a jump in the
  history to a cached attendee leaves the check-in sheet open, and the answer for
  the first attendee closes it, or shows its refusal, under the second. The toast
  names nobody; its Undo undoes the first (`ToastsWereConfirmed`: `moved`).
- The loop of Print all survives its page (`StaffPage.tsx:170-241`), and so does
  a card's call; both kill the code a later visit generated. So does a card's
  call that overlaps Print all (`DeadCodesOverlapped`: `overlapped`).
- An overwrite confirmed in another event's editor takes over the observer of
  "Save and leave" (`GuardResolves`); a late poll of a cancelled scanner test
  passes the next one (`TestCanEnd` is about its timer).

## 6. Proofs

Every theorem holds for all values of the constants that satisfy the modules'
assumptions (section 7): any number of attendees, requests, stations, devices,
rows, pages, any faults. Most properties are not inductive; each has an
invariant that is (`IInv`, `FlowInv`, `RailInv`, ...), proved with one step per
action, and the theorem about the property follows from it. The properties
themselves, and the types, are also checked by TLC on the runs' instances. Six
theorems state what no run checks: `HandlersEnd`, `ReplayNeedsUndo`,
`ScreenIsPast`, `ScreenMovesOn`, `CleanWhenPatient` and `OpenEditorsStayFresh`;
what they say is defined in the proof modules, beside them.

`CheckinStoreProofs` (`IInv`), requests finite:

- `TypeCorrect`: `TypeOK`. The interesting conjunct is `tries <= 2`; it needs
  that a request about to retry has tried fewer times than the bound.
- `PrintsCounted`: `PrintedExact`. Inductive with: a request pending its reprint
  has counted its print, and reprint rows never outnumber them; a counting
  lemma says the set of winning prints grows by one exactly at the increment.
- `AnswersWereTrue`: the action property `VerdictWasTrue`, for all endpoints and
  failures: one case for each statement that answers. A station admits nobody
  checked in, deleted or blocked; the batch endpoint's UPDATE does not look at
  `blocked` (`pg_store_batch.go:114-118`), and the property claims nothing of it.
- `NeverSilent`: `NothingSilent`, when the endpoints are among `AnnouncedOps`
  and statements do not fail: a marked attendee has a request that still owes a
  publish, and every step that ends such a request publishes or is recorded.
- `FeedFaithful`, `ScanUnmixed`, `NobodyAdmittedTwice`: `FeedMirrorsStatus`,
  `OneScanPerRow` and `NoDoubleCheckin`, when only guarded endpoints write. The
  last is what finding 1 breaks: the theorem says that nothing else does.
- `ReplayNeedsUndo`: the rest of finding 2. `UuidAppliedOnce` is false, but under
  the same condition two admissions of one attendee, a queued item and its resend
  among them, have an undo somebody asked for between them in the feed
  (`AgainOnlyAfterUndo`). Inductive with `FeedAuthored`: every row of the feed is
  the work of one request that won, every winning scan has its row, and no
  request has two; between two check-in rows an alternating feed has an undo.
- `HandlersEnd`: for all endpoints and failures a request has at most eight
  statements left (`Left`), none exactly when it has ended, and each step of the
  system takes one request nearer to its end and no other further from it. With
  the fairness of `Continue` this is why `Answered` holds for any number of
  requests; the fairness argument itself stays with TLC.
- `ImplementsLedger`: under the same condition as `FeedFaithful` every step is a
  step of `CheckinLedger` or a stutter, with holder = the row's `by` and the
  verdicts grouped. It rests on `ScanUnmixed` (a row not checked in carries no `by`) and
  on the fact that a request with an answer only publishes or ends.

`CheckinHistoryProofs`: `FeedNeverOvercounts` (`NoOvercount`), for all endpoints
and failures. `HistoryInv`: a request that claimed a flip and has yet to write
its feed row has raised the status, and a request that left a row is past the
only statement that writes one, so it leaves no second.

`MonitorStreamProofs`, for any monitors, replicas, changes and failures:

- `TypeCorrect`: `TypeOK`; the queue's `wire[s] - 1` needs the guard of `Forward`.
- `EveryMonitorCovered`: `NobodyLeftBehind`, when the first answer is not slow:
  a reminder is only ever passed on, from the queue to the signal, the frame,
  the timer and the request, and a request that starts after an announcement
  reads it.
- `ScreenIsPast`, `ScreenMovesOn`: a snapshot on a screen holds nothing that was
  not committed and counters no newer than its list, although its statements read
  at different instants; and a screen never goes back: what replaces a snapshot
  was read after everything it showed, and data once shown is not taken away.
  `ReadInOrder`: the reads of a running request lie between what is shown and the
  database, in their order. Both hold with a slow first answer too, so finding 4
  delays a screen and never turns it back.

`ScanStationProofs` (`FlowInv`):

- `OneBadgePerCheckin`: `PrintsMatchCheckins`. Not inductive as it stands: a
  submission that has been let in and not printed is a badge still to come.
  `BadgesCovered` adds their number on the left; a commit raises both sides, a
  print moves one unit, and every other answer only drops a submission.
- `VerdictsDismissed`: `DismissalOwned`; the timer is set with the verdict and
  cleared by whatever starts or resets a scan.
- `FlowIsSerial`: `OneInFlight`. Inductive with: `flowBusy` is set exactly while
  a submission is out. It is false once the tab has moved (`moved`), since the
  reset frees the hook while the old scan is still being handled.

`KioskStationProofs` (`KioskInv`): books of the jobs and presses that may still
print (`Owed`, `Asked`) give `NoFreeBadge` (`BadgesEarned`) the way
`BadgesCovered` does; `PressOwned` (at most one press of this mount is out, and
`printBusy` says whether) gives `PendingHasOwner` (`PendingOwned`).

`BadgeEditorProofs` (`EditorInv`): the backend never gives one version of a
template to two documents (`HistoryOK`); cache, baseline, and the base of every
PUT are pairs from that history, each for its own event (`CacheOK`, `PageOK`,
`PutsOK`). Hence `BaselineIsReal` (`Coherent`) and `NoLostTemplate`
(`SavesOnWhatWasSeen`): a PUT whose version equals the row's was edited from
the row's document. `CleanWhenPatient` is the rest of finding 6: `CleanMeansSaved`
holds, whatever fails, conflicts or is saved by others, for an operator who
neither edits nor leaves while a save or a confirmed refetch is under way
(`Patient`, an assumption about steps: `EditorSpec /\ [][Patient]_editorVars`).
`PatientInv`: the save whose answer the page will act on is of the document on
the screen, and so is the overwrite that waits for its refetch.

`VenueProofs`:

| Theorem | Property | What makes it inductive |
|---|---|---|
| `ReprintsWereConfirmed` | `PrintsAreConfirmed` | a reprint about to be sent has a confirmation of its own, one about to be marked a print (`RailBooks`) |
| `NoForeignSave` | `SavesOwnForm` | settings that are shown have seeded the form, and Save needs them shown (`CeremonyInv`) |
| `TestsEnd` | `TestCanEnd` | the type of the page |
| `ScansAreFresh` | `ScanIsFresh` | a poll under way is of the current effect (`PollOwned`), and after the discard the buffer holds nothing older (`BufferFresh`) |
| `ToldSavesAreLast` | `NothingAfterTold` | one save, stamp or mirror at a time, each in the session that is open (`SavesOwned`); a session that was told of its device is over or has only the mirror left (`SavedSessions`); what is registered was sent before the call under way (`SavedInOrder`); openings and closings alternate |
| `NoSilentDrift` | `MirroredOrReported` | for each device: the one mirror under way carries the registered address, and with none the agent knows it or it was reported (`PrinterAgrees`, `ScannerAgrees`), unless one of the four silent ways marked it (`silenced`) |

`OfficeProofs`:

| Theorem | Property | What makes it inductive |
|---|---|---|
| `FontsAreComplete` | `ReadyIsComplete` | a live load is about the list loaded last, of the event on the screen (`FontLists`) |
| `TestPrintsAreShown` | `JobsMatchScreen` | a ready label and a live run of the generator are of the attendee shown (`LabelCurrent`), a chosen printer is listed (`ChoiceListed`) |
| `NoDoubleRemoval`, `NoTypingLost` | `RemovalsTracked`, `TypingSurvivesSaves` | a save of the version being edited is the one watched, and holds what the form holds (`SavesKnown`) |
| `ToastsAreConfirmed` | `ToastsWereConfirmed` | a check-in whose callback still counts was confirmed on the sheet that is open, for the attendee on the card unless the card has moved (`LiveOnSheet`) |
| `BulkTallyHonest` | `TallyHonest` | done is what was answered, timed out and failed, and also what the requests came to at the other end; what went unheard is among the timed out, what was cut among the failed (`TallyBooks`) |
| `ImportRowsAccounted`, `ImportCreatesOnce` | `RowsAccounted`, `CreatedOnce` | the loop is past every row that was answered (`LoopAtNext`); a retry is of a row that was refused, not created (`RowBooks`); until a late pick replaces the rows, all that is sent is of the imported sheet and the loop leaves out none of its rows (`SentFrom`); no upload before step 3 (`Untouched`), so a full parse (one at a time, `FullParses`) cannot replace rows that were sent |
| `ColumnsKept` | `NoColumnOverwritten`, a part of `ImportsWhatWasMapped` | past the gate no column is undecided and no two clash (`MappingInv`); normalising a name twice changes nothing (`NormalizedTwice`) |
| `ImportIsAsMapped` | `ImportsWhatWasMapped` | the loop of `dedupeByEmail`, turn by turn (`VisitedTurns`): every row visited is kept or has the address of a row kept before it (`VisitMerges`); the chunks put one after the other are the kept rows (`ChunksHold`, `ChunksApart`), so the number reported for a place in a chunk is that of the row sent there (`RowsNumbered`) |
| `PageNotLocked` | `NeverLockedOut` | by itself: a mounted editor's row is on the list, a row that goes away takes the flags |
| `OpenEditorsStayFresh` | the rest of finding 5: `CleanShowsSaved` if no row is opened on stale rules (`OpensFresh`) nor rewritten while open (`LeftAlone`) | what Cancel goes back to is what the zone has (`OpenIsFresh`); an editor filled with a rule set would save that very set (`BodyOfDerived`) |
| `KnownCodesLive` | `DeadCodesOverlapped` | for a member not overlapped at most one call asks, a card only while Print all does not run and no code is known, the run only from the copy it took, still true of the members ahead of it (`CodesInv`); a run left behind reaches only members already marked (`RunsLeft`) |
| `NoOrphanAccount` | `CreatedIsClaimed` | one request of the dialog at a time on this page, and while it is out the dialog is open (`RosterCalls`); the account's own request has not got further than its claim (`RosterClaims`) |

Composition. `VenueImplementsScreens` and `OfficeImplementsScreens`: a step of a
harness is, for every screen, a step of its own specification or a stutter, so
each theorem above holds of the harness the run checks. `VenueTypeCorrect` and
`OfficeTypeCorrect` (`VenueTypeOK`, `OfficeTypeOK`) collect the types of the ten
and eleven screens.

Induction. `ImportIsAsMapped` needs facts about every turn of a loop. The
library's induction theorems take an operator, which no backend here can
instantiate; `AllNaturals` is the same principle over a *set* of naturals, from
the least element of its complement, and is used with the set of turns that
satisfy the claim.

What the proofs changed. Where a step could not be proved, the model was wrong
or its constants too free:

- `ScannerWizard`: a scan made while nothing listens now carries a mark of its
  own (`Unheard`); it had carried the number of the session that was to begin,
  and so could not be told from a fresh one.
- `BadgePreview`: opening the test print chooses a printer at once from the list
  already loaded (`TestPrintDialog.tsx:120-130`); the model chose one only when
  a list arrived.
- `AttendeeCard`: two guards of the `CASE` for a check-in's outcome overlapped;
  their order is the server's.
- `ZoneRules`: an editor can hold as many simple rules as there are categories,
  so `MaxClauses` bounds their number.
- `StaffRoster`: a request that is about no zone says so.
- `ImportMapping`: `Dedupe` is a recursive function, one application of `Visit`
  for each turn of the loop, where it was a fold: the turns can be reasoned
  about. `Headers` is assumed finite.

Only model-checked: liveness (`Answered`, `Settles`, `StationRecovers`,
`SelfServiceReturns`, `SupervisorRecovers`, `GuardResolves`), which is out of
the prover's reach, and the findings. Every invariant and every action property
of a passing run has a theorem.

## 7. Assumptions

READ COMMITTED and row locks as above; commit is atomic; a client mints a
`client_uuid` for one attendee; `ScanStation` and `KioskStation` take a
check-in as one step of the backend and its answer as another, which
`ImplementsLedger` justifies for guarded endpoints. Clocks are not modelled but
for the supervisor's. JavaScript runs a handler to its next await without
interruption; two tabs of one browser share nothing but the backend and the
agent. Printing either happens or not, known or not: the agent may print and
its answer be lost.

The constants' assumptions are stated once in each module
(`StationAssumption`, `HubAssumption`, ...), evaluated by TLC in every run that
extends it, and are all the theorems take besides `Ops`, `Faults` where said.
They say that bounds are naturals, that "none" values are not real ones, that
faults are among those the module knows, and:

| Assumption | Why the code has it |
|---|---|
| `IsFiniteSet(Requests)` (`CheckinStore`) | a print count is a number; executions have finitely many requests up to any step |
| `InitialBackoff <= MaxBackoff` (`KioskAgent`) | the constants at the head of `useAgentSupervisor.ts` |
| `Addresses`, `EditorEvents`, `FontEvents`, `Encodings`, `Stations`, ... not empty | a device has an address, a page its event, a file its encoding |
| `HubPrinters`, `HubScanners` disjoint, `NoDevice` and "clear" neither | separate tables; a form value that names no device |
| `IsFiniteSet(Categories)`, at most `MaxClauses` of them (`ZoneRules`) | each category has one simple rule, and the editor opens with all of them |
| `IsFiniteSet(Headers)` (`ImportMapping`) | a file has finitely many columns |
| `Folded \in [Cells -> Cells]`, `Folded[Blank] = Blank` (`ImportMapping`) | trimming and lower-casing a cell is total and keeps the empty one |

Data is abstracted to what is told apart: attendees, codes, templates and rule
sets are model values or numbers. Of zones only the column effect of a
registration (a full-row overwrite, endpoint `zonereg`) is in `CheckinStore`,
and no run enables it: it behaves as `codes`.

## 8. Not modelled

- Monitor snapshot contents: sums over rows and `created_at` of several clocks.
- Zone access, days and registration on the server; provisioning of stations;
  default equipment and test stamps: guarded statements of one step each, with
  check-then-insert races that a UNIQUE constraint ends (listed as hazards).
- Mobile queues and sync loop: planned; the server's side of a resent item is in
  `CheckinStore`.
- Tenancy, limits, authentication, keys: one check before the handlers.
- Badge ZPL, rasterising, layout, texts, styles; the older web client, landing
  pages, deployment: no protocol of several steps.
- Left out of a module that is otherwise complete: the kiosk's *blocked* to *no
  access* outcome and a kiosk without a default printer (`KioskCommit`); staff
  joining or leaving while `StaffTokens` runs (the list is fixed); the hub's page
  is open once and starts with devices that agree.
- Browser behaviour below React (focus, key repeat), the agent's serial and
  printer I/O, and Rust window code.
