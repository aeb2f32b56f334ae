# TournamentStudio in TLA+

TournamentStudio is a Go server with an embedded React front end for racing
tournaments: teams race heats in pre-phase rounds, a Lua plugin reseeds the groups from
round to round and cuts the last ranking into divisions, and everybody watches the
standings live. This directory holds TLA+ models of its backend logic and of the parts of
its front end that hold state, the TLC configurations that check them, and theorems about
all nine models, checked by TLAPS. `PROJECT.json` maps every definition to the source
lines it stands for, and lists runs, mutants, hazards and theorems.

    tlc -workers 2 -config RoundCascade.cfg MCRoundLifecycle    # one of the runs below
    tlapm Qualification_proofs.tla                              # the proofs of one module

## 1. The system

The server is one Go process over one SQLite file. `net/http` runs each request in a
goroutine of its own; handlers (`src/internal/server`) hold no locks and call
repositories (`internal/round`, `schedule`, `team`, `tournament`, `auth`) whose calls are
single SQL statements or one transaction. A handler is therefore atomic only from one
repository call to the next, and can stop between any two: the call fails and the
handler answers 500, or the process ends.

| Component | State it keeps | Operations | What makes it correct |
|---|---|---|---|
| Rounds, groups | `pre_phase_rounds`, `groups` | create, `/next`, close | numbers unique, each team in one group once, closed only when finished, closed for good |
| Heats, results | `heats`, `heat_results` | schedule a round, schedule divisions, record results (with the closing cascade), move a heat | one heat per group or division, all of a round or none, closed only when complete, a result is never lost, a complete round does close |
| Divisions | `divisions` | `/divisions` on a closed round | teams ranked on complete results |
| Ranking | – | `ranking.Rank` | stable; one correction moves one team |
| Bundled tournament type | – | `next_round_groups`, `division_cuts` | teams conserved, groups mixed, cuts deal the ranking out in order |
| Courses, schedule view | `courses`; the answer in progress | create, `PATCH`, delay broadcast; list heats, read delays | stored delay is the announced one, again too after an overlap or a crash; automatic heats queue up behind all others; one answer moves the heats of a course alike |
| Broadcast hub, WebSocket handler | a bounded channel per connection | register, broadcast, write | what is committed reaches the screens |
| Watch screen | socket, failure count, banner, query cache | reconnect, invalidate, refetch | the banner is true, a screen that was cut off catches up |
| Plugin engine | files in a directory, an atomic pointer to the loaded engine | upload, delete, reload, load at start | bundled plugins stay, the engine is what the directory says, again too after overlaps and errors |
| Plugin calls, Lua sandbox | a Lua state, a mutex and a deadline per loaded plugin | look up, wait, call with a deadline | every call is answered, none pays for the time or the deadline of another; an answer that loses or doubles a team is refused |
| Accounts, sessions, roles | `users`, `sessions` | first account, log in, log out, check | one first account, whose printed password works; a live session is accepted with the role its account has now |
| Web session | token, role and query cache in the browser | log in, log out, a 401 signs out | nobody sees data of the account before; a request of the live session does not end it; a logout ends |
| Team import | `teams`; the page that uploads | parse, validate, insert one by one | the answer accounts for every row, an answered error has stored nothing, the results are shown |
| Store, migrations, `main` | tables, `schema_migrations` | open, migrate, create the first account, listen | each migration executed once and in order, whoever serves has all of them, a failed start can be repeated |
| Tournaments, translations, routing, other pages | rows, maps | create, read | nothing that takes more than one step on the server |

How they interact. An organizer creates round 1 and schedules its heats on courses.
Operators submit results; that handler upserts them, reads them back, closes the heat if
it has one for every team, reads the round's heats, closes the round if all of them are
closed, and then broadcasts. `/next` and `/divisions` read a closed round, rank it, call
the plugin, and insert a round or divisions. The watch screens get the broadcast over a
WebSocket and fetch the standings again. Plugin uploads replace the engine while all of
this runs; calls under way keep the plugin they have found. The browser sends a token with
each request, and whatever request is answered 401 signs it out.

What is hard about it:

- *interleaving*: two operators submit the last results of two heats at once; two `/next`
  requests, or two `PATCH`es of a course, or two plugin reloads overlap; answers to requests
  of an old session arrive after a new login;
- *partial failure and restarts*: the closing cascade is four statements; a start of the
  server is a transaction per migration and two statements for the first account; an import
  is a statement per team; a course is stored and then announced; a plugin file is saved and
  then a reload may fail;
- *timeouts and retries*: plugin calls wait for one another with deadlines; an upload whose
  answer was lost is offered again;
- *staleness*: handlers act on what they read some calls before;
- *ordering*: commit before broadcast, handshake before registration, ties in a ranking;
- *limits*: full channels, remainders of tiers, cuts beyond the last team, texts compared
  as times.

`hazards` in `PROJECT.json` lists these at their lines with the properties that cover
them.

## 2. The models

### RoundLifecycle – rounds, groups, heats, results, divisions

The core. Tables are sequences (keys are AUTOINCREMENT and rows are never deleted, so row
*k* has key *k*); `req` holds for each request in flight the repository call it makes
next, the key it works on and the results it has read. One action per handler where the
handler is one transaction (`CreateRound`, `ScheduleRound`, `ScheduleDivisions`), one per
repository call where there are several:

| Code | Actions |
|---|---|
| `handleSubmitHeatResults` | `SubmitHeatResults`, `ListHeatResults`, `SetHeatStatus`, `ListHeatsForRound`, `SetStatus` |
| `handleNextRound` | `NextRound` (= `LoadClosedRound`), `ListResultsForRound`, `RoundExists`, `CreateNextRound` |
| `handleComputeDivisions` | `ComputeDivisions`, `ListResultsForRound`, `CreateDivisions` |
| `handleCreateRound`, `handleScheduleRound`, division scheduling | `CreateRound`, `ScheduleRound`, `ScheduleDivisions` |
| any call that returns an error; the end of the process | `CallFails`, `Restart` |

Reads of data that never changes (a heat's group, a group's teams, a round's number) are
merged with the next call: no other request can tell the difference. Result bodies may
name anybody and may be empty, as in the code. A plugin's answer is an input: any of
`PluginGroups`, `PluginCuts`, or an error. Courses and planned starts are
CourseSchedule's, ranking is Qualification's. `ResultMaps` gives all maps that
`ListResultsForRound` may produce, because its query has no ORDER BY and the last row of a
team wins.

### RoundPromise – what a client may rely on

An abstract specification of a round: it is announced with its teams, teams get results,
it finishes once and for good when it has teams and none is missing. `RoundLifecycle`
implements it by
`plan` = the teams of each round, `have` = those of them with a result in the heat of
their own group, `done` = the closed rounds (`Promise == INSTANCE RoundPromise WITH ...`).
The refinement hides heats, requests, failures, division heats and foreign IDs.

### Qualification – ranking and the bundled plugin

`ranking.Rank` and `timed-heats-reseeding.lua` as operators, inside a small machine that
records and corrects results, reseeds, and cuts. Times are numbers; names of divisions are
numbers, with 1 for "Final" and *n* for "Final *n*". The only state the operators need
around them is the running round.

### LiveWatch – from commit to screen

The handler that commits and later broadcasts, the hub's bounded channels with their
dropping `select`, the writing goroutine, the handshake answered before the registration,
the hook `useTournamentSocket` (reconnecting, counting failures, banner, invalidation) and
the query cache that cancels and restarts a fetch. Standings are a version number. The
backoff delays are left out: the timer fires some time.

### CourseSchedule – courses, planned starts and the schedule

`PATCH` on a course in its two statements, the broadcast of a delay, the planned starts
of scheduled heats, errors of the statements (`UpdateFails`, `GetScheduleFails`), the
end of the process at any point (`ServerRestart`), and `GET .../schedule`. A start is an
instant with the UTC offset it is written in; `TextBefore` is SQLite's comparison of the
two RFC 3339 texts, as used by `MAX(planned_start)` and `ORDER BY planned_start`. Of a
row that the schedule lists only its course is kept, for the list is the result of one
SELECT and what the handler reads afterwards is the delay of each course. Two history
variables tell when the code does not promise that the stored delay of a course is the
announced one: `overlapped` has the courses whose updates under way, or the last ones,
overlapped; `doubtful` those with an overlap, or a process that ended between the UPDATE
and the broadcast, since the last delay that was set alone and announced. `announced`
is the last broadcast of whichever process; a client that connects later reads the
stored delay with the schedule.

### PluginRegistry – the directory and the engine

Uploads (truncate, then write), deletions, the reload that reads the directory file by
file, the swap of the engine, restarts, and what can fail: writing the file (`WriteFails`),
listing the directory after the file was saved or removed, which leaves the old engine and is
answered "reload failed" (`ReadDirFails`), reading a file, which skips it (`ReadFileFails`),
also at a start (`Restart` loads the files that it can read). Errors that come before
anything is changed (a body that Validate refuses, no directory, no such file) are steps that
change nothing. `Loaded` is the reference: what a start of the program would load from the
directory as it is, and `LoadedFrom` the same for a part of its files. The history variable
`inOrder` tells that the latest request or restart began alone and that since then nothing has
begun beside it or failed; it becomes true again with every request that finds no other.

### PluginCalls – deadlines and the mutex of a plugin

From `findTournamentType` to the answer of `NextRoundGroups` or `DivisionCuts`: each load
makes a Lua state per plugin, a call locks the mutex of the plugin it found, sets its
deadline in the Lua state, runs, and takes the deadline away before it unlocks. Whether a
function ends depends on the plugin and its input, so it is chosen per call. Five seconds
are not counted: `Elapse` says for which calls they may pass. `Reload` stands for the whole
of a reload, of which PluginRegistry has the steps; that the bundled types are always in the
new engine is the theorem `BundledStayCorrect` about PluginRegistry.

### WebSession – tokens on both sides

The table `sessions`, `requireRole` and the handlers for logging in and out; in the browser
the token (with the role, written and removed together), the query cache and the requests
in flight. A request carries the token that is stored when it is sent; its answer comes at
any time, is lost, or finds the page reloaded. `SignOut` is what a 401 and the `finally` of
a logout have in common: token and cache are removed, and queries in flight lose their
place in the cache (`queryClient.clear`). Requests have one of four kinds: login, logout, a
query whose answer is cached, a change that needs the role of an organizer.

### TeamImport – a file of teams

Files are an extension, a header and records. `NameOf` and `Parses` say what CSV and XLSX
make of records that are shorter or longer than the header and of columns with the same
name; `Validate` sorts out rows without a name; the handler inserts team after team, and
each insert may fail. The page shows the form, a pending upload, an error or the result.

### Startup – migrations, first account, listening

`main` from `store.Open` to `ListenAndServe`, for several processes on one database: the
lookup of each migration in `schema_migrations`, the transaction that executes it, the
count of the accounts, the INSERT, the log line with a generated password, and the port.
A process may end between any two of these and be started again. What a migration does is
its number in `schema`. Whether the environment names the first account is fixed per
deployment.

How the models fit together: RoundLifecycle takes any ranking and any answer of a plugin,
Qualification says which ones the bundled plugin gives, PluginCalls that there is one;
PluginRegistry says which engine PluginCalls finds. CourseSchedule adds the planned starts
to the heats RoundLifecycle schedules, TeamImport makes the teams it takes as given;
LiveWatch takes a commit of either and brings it to a screen. WebSession is in front of all
of them: they take requests that passed `requireRole`. RoundLifecycle is composed with
RoundPromise by refinement; the others share no variable that one of them changes and
another one reads.

## 3. What is checked

Each property of a passing run has a mutant in `PROJECT.json`: an operator next to the
modelled one, marked "Mistake:", with a plausible bug in that code; with it TLC finds the
property violated under the same configuration.

| Run | What it asks and shows |
|---|---|
| `round_cascade` | Two submissions side by side, corrections, empty and foreign bodies, one failed call or restart: a closed round is finished (`ClosedRoundFinished`), a submission about to close something is right about it although it acts on old reads (`CascadeJustified`), a round is scheduled as a whole (`ScheduledTogether`), without failures no closing is ever forgotten (`ClosureUnderWay`), nothing reopens (`NothingReopens`), and the tables implement RoundPromise (`KeepsPromise`). Liveness: where no call fails and no group is empty a complete round closes (`KeepsPromiseFairly`); where one failed, it does once results are sent again (`ResubmissionHeals`). |
| `round_succession` | Two rounds, `/next` and `/divisions` from two requests, repeated scheduling, plugins that drop, add or repeat teams: round numbers are unique (`UniqueRoundNumbers`), a group has one heat (`OneHeatEach`), a round made by `/next` has the teams of the one before (`NextKeepsTeams`), and ranking sees a result of every team (`RankingSeesEveryTeam`). |
| `qualifying` | Reseeding and cutting for four teams in four shapes of groups, over three rounds, with every combination of results: `TeamsConserved`, groups are mixed (`HeatsMixed`), cuts deal the ranking out (`CutsDealRankingOut`), a correction moves one team (`StandingsKeepOrder`). |
| `watch_delivery` | Two submitters, one screen, a channel of two, three faults: the banner is true (`BannerTellsTruth`), what is committed reaches a registered screen although full channels drop messages (`CommittedReachesScreen`), and a screen that was cut off catches up (`ReconnectCatchesUp`). |
| `heat_sequence` | A course with two updates that may overlap, fail, or be cut off by the end of the process, requests that schedule, move heats and set start times in two UTC offsets, and a schedule that is read meanwhile and may fail: automatic heats go last where one offset is used (`AutoHeatsGoLast`); the stored delay is the announced one, and is so again after the first delay that is set alone after an overlap or a crash (`DelayAnnounced`); one answer moves the heats of a course together (`ViewMovesTogether`). |
| `plugin_overlap` | Two uploads or deletions at once or one after the other, any number of failed writes, failed reloads and unreadable files, restarts in the middle: a request that comes alone and meets no error, or a restart that reads every file, leaves the engine that the directory says, whatever went wrong before (`SequentialReloadsMatch`). |
| `plugin_calls` | Two requests, two types, two reloads, calls that never end: a running call is bound by its own deadline (`OwnDeadline`), one that would end is never aborted (`QuickCallsEnd`), and each is answered (`CallsAnswered`). |
| `web_sessions` | Two accounts in one browser, two requests in flight, two sessions, one failed lookup, lost requests and reloads: without a token there is no data (`LoggedOutIsEmpty`), a live session is not ended by its own requests (`LiveSessionKept`), used in order no session stays behind (`NoSessionLeftBehind`), a logout ends (`LogoutEnds`). |
| `team_imports` | Two browsers, two uploads out of six files, a team added by hand, two failing inserts, lost answers and the end of the process: each row is stored or has a problem (`EveryRowAccounted`), what is stored is a beginning of the file at every moment (`StoredIsABeginning`), after an error that was answered nothing is (`AnsweredErrorStoredNothing`), problems name their rows (`ProblemsNameRows`). |
| `startup` | Two processes on one new database, three migrations, two that end at any point: the schema is what `schema_migrations` says (`SchemaIsRecorded`), who serves has all tables and an account (`ServesComplete`), one account (`OneAdmin`), whose printed password is the valid one (`PrintedPasswordWorks`), and a start may be repeated until it succeeds (`StartedAgainServes`). |

Two runs check a statement of the documents that the code does not keep; TLC finds the
violation, `findings` quotes both sides:

| Run | Statement violated |
|---|---|
| `division_standings` | a division is ranked by the result of its own heat: its standings mix in qualifying results (`handlers_standings.go:61`) |
| `import_results` | an import ends on a results screen: not one without problems, whose list of problems is `null` (`handlers_import.go:72`, `TeamImportPage.tsx:66`) |

Further disagreements met while modelling, without a run of their own (the models contain
the behaviour, the properties above are stated so as not to claim the opposite):

- automatic heats go behind the latest one (`heat.go:199`) only while a course has starts
  in one UTC offset: `MAX(planned_start)` compares texts (`heat.go:207`), so 10:00+02:00
  counts as later than 09:00Z. Without the premise `OneOffset` of `AutoHeatsGoLast` the
  run finds two heats that are too close;
- a `PATCH` of a course that names only the interval can write an old delay back, without a
  broadcast (`course.go:67`); the scheduling design (lines 132–135) says that only a request
  that names the delay changes it. The run has such lost updates; `DelayAnnounced` excepts the
  course until the next delay that is set alone (`doubtful`);
- a process that ends between the UPDATE of a course (`course.go:81`) and the broadcast
  (`handlers_courses.go:131`) leaves a delay that is stored and never announced: nothing
  announces it at the next start. `DelayAnnounced` excepts it in the same way;
- of two plugin reloads that overlap the one that read the older directory may be stored
  last (`handlers_plugins_manage.go:105`), although the comment above it says that a reload
  takes "everything currently in s.pluginsDir"; and a reload that fails leaves the old engine
  beside a changed directory (`handlers_plugins_manage.go:60`, `:90`), one that cannot read a
  file goes on without it (`engine.go:61`). `SequentialReloadsMatch` excepts the time from then
  to the next request that comes alone and meets no error (`inOrder`);
- a result that is committed and broadcast after the fetch of a new connection and before
  its registration does not appear until the next message (`handlers_ws.go:33` completes the
  handshake, `:44` registers); the watch design, lines 43–44, says results "appear without a
  manual reload". The watch properties are about screens that are registered;
- the problem of a team that could not be saved names its index among the valid teams
  (`handlers_import.go:61`), that of a nameless row its index in the file; the plan of the
  web UI (line 3213) calls both an index among the data rows. `ProblemsNameRows` excepts
  rows behind a nameless one;
- an error of the database in the lookup of a session is answered 401 (`middleware.go:35`)
  and ends the session in the browser; `LiveSessionKept` has the premise that none failed;
- a 401 for a request of an old session, and the late answer to a logout, remove the token
  of a new one (`client.ts:42`, `AuthContext.tsx:45`); its session stays on the server, and
  sessions do not expire. `LiveSessionKept` and `NoSessionLeftBehind` except these;
- a round may be created with a group without teams (`handlers_round.go:89`); its heat is
  never complete (`handlers_heat_results.go:115`), so the round never closes, although
  README.md:224 says it does "once every team has a result". It is in the instance of
  `round_cascade`; RoundPromise asks only that such a round finish no sooner than it may.
  With two heats a round of one group of teams and one without is never closed;
- if `SetStatus` or `ListHeatsForRound` fails, all heats are closed and the round stays
  open until somebody sends results once more. The web UI offers the form only for heats
  that are open (`ScheduleHeats.tsx:79`, `:111`), so this takes a request by hand;
- a repeated `/divisions` adds a second set of divisions of the same teams
  (`handlers_round_divisions.go:61`);
- a result may have a time and a status; it is ranked by its time, before teams without a
  status (`rank.go:45`; the design says a status is always worse than a time);
- the first account is inserted before its generated password is printed
  (`main.go:98`, `:101`); a process that ends in between takes the password along, and the
  next start finds an account and creates none, although `main.go:67` says that this
  ensures "the deployment is never left in a state where nobody can log in".
  `PrintedPasswordWorks` has the premise that no process ended;
- groups with fewer teams than there are groups are not mixed: their only nonempty tier
  is the last one, so the same teams meet again (`timed-heats-reseeding.lua:9`). The
  premise of `HeatsMixed` excludes exactly these.

### Bounds, and why they are enough

- *RoundLifecycle*: two registered teams and one foreign ID; two requests in flight; one
  score (which score it is matters only in Qualification); one or two rounds; two groups.
  Two heats and two submissions are the smallest case in which each may miss the other's
  closing. Bodies are empty, of one team, or of a stranger, so that a heat fills up in
  several requests; `round_succession` uses whole results, for its subject starts when a
  round is closed. One fault: a second failure finds the same tables as the first.
  `MaxRounds` = 2 there, so that `/next` can race with itself and with an organizer who
  creates round 2. The two requests are symmetric; `Perms` is used in `round_succession` and
  not in `round_cascade`, which checks liveness. In `round_cascade` no divisions are cut
  (`MaxDivisions` = 0): division heats are in `round_succession`, `division_standings` and
  the proofs.
- *Qualification*: four teams give two full groups, uneven groups, an empty group, and
  groups smaller than their number; a time, a longer one with a status, and two statuses
  without a time give ties and every kind of comparison. Three rounds reseed what was
  reseeded.
- *LiveWatch*: a channel of two (16 in the code) is full after two results; four results
  overflow it while others are under way. Three faults are a banner (`BannerAfter` = 2)
  and one loss to spare. Screens do not influence one another except through the order of
  broadcasts, so one is enough.
- *CourseSchedule*: three heats make "the latest" differ from "the last inserted" and a
  batch of two follow another heat; two offsets, two instants and an interval of two are
  enough for texts and instants to disagree. One course, for courses meet only in a batch,
  where each counts for itself. Failures and restarts are not bounded.
- *PluginRegistry*: two files, one of which may override the bundled plugin or the other
  file; two requests. Failures are not bounded.
- *PluginCalls*: two requests on one plugin, or on two, of the same or of different engines;
  the theorems are about any number.
- *WebSession*: two sessions, so that there is an old and a new one; two requests in flight,
  one of each. One tab: a second one, which shares the token and has its own cache,
  takes the instance to a size that is not checked in reasonable time.
- *TeamImport*: six files: one with a nameless row in front of another row, one with a
  record that is too short, as CSV and as a sheet, one with the name column twice, one
  where all rows have names, and an extension that is refused. Two uploads at once or one
  after the other, and a team by hand between them.
- *Startup*: two processes meet at every statement; three migrations have a first, a last
  and one between; two ends allow a process to be cut off, started again and cut off once
  more.

Deadlock is checked except in the watch run: there the bounds on results and faults let
everything come to rest.

### Fairness

Every assumption is about something that runs by itself, never about a user.
`RoundLifecycle!FairSpec`: weak fairness of a started handler, which the Go scheduler and
SQLite provide. Nobody has to submit; `ResubmissionHeals` states its premise (operators
send results for every heat again and again) as a formula, `Persistence`, and not as
fairness of the specification. `LiveWatch!FairSpec`: weak fairness of broadcasting,
accepting and registering, writing, receiving, the reconnect timer and the standings
request; none for committing, losing a connection or failing. `Startup!FairSpec`:
a process that runs goes on. Nobody has to start one: `StartedAgainServes` has as premise
that one is started again whenever it has ended. `PluginCalls!FairSpec`: weak fairness of
what a handler and the clock do next, strong fairness of getting the mutex, which
`sync.Mutex` hands to a goroutine that has waited for a millisecond; with weak fairness
others could take it for ever. `WebSession`: weak fairness of answering and receiving
(`fetch` gives up by itself); nobody has to log in or out. The other runs check safety without
fairness.

## 4. What is proved

Every invariant and every safety property that a passing run checks is a theorem; what is
left to TLC is liveness. `RoundLifecycle_proofs` proves, for every set of names, requests,
bodies, plugin answers, every bound, and with failures and restarts:

| Theorem | Says |
|---|---|
| `TypeOKCorrect` | `Spec => []TypeOK` |
| `TypeCorrect` | keys in rows and handlers name existing rows; a group heat belongs to the round of its group; a heat is for a group or a division |
| `ClosedRoundFinishedCorrect` | `Spec => []ClosedRoundFinished` |
| `CascadeJustifiedCorrect` | `Spec => []CascadeJustified` |
| `ScheduledTogetherCorrect` | `Spec => []ScheduledTogether` |
| `NothingReopensCorrect` | `Spec => NothingReopens` |
| `ClosureUnderWayCorrect` | `Spec => []ClosureUnderWay` |
| `UniqueRoundNumbersCorrect` | `Spec => []UniqueRoundNumbers` |
| `OneHeatEachCorrect` | `Spec => []OneHeatEach` |
| `RankingSeesEveryTeamCorrect` | `Spec => []RankingSeesEveryTeam` |
| `KeepsPromiseCorrect` | `Spec => KeepsPromise`: the tables and handlers implement `RoundPromise` |
| `NextKeepsTeamsCorrect` | `Spec => NextKeepsTeams` |

`Qualification_proofs` proves, for any teams, results, first groups, cuts and rounds:

| Theorem | Says |
|---|---|
| `TeamsConservedCorrect` | `Spec => []TeamsConserved` |
| `HeatsMixedCorrect` | `Spec => HeatsMixed` |
| `CutsDealRankingOutCorrect` | `Spec => CutsDealRankingOut` |
| `StandingsKeepOrderCorrect` | `Spec => StandingsKeepOrder` |

`ImportSchedule_proofs` proves, about TeamImport for any files, browsers and failing inserts,
and about CourseSchedule for any courses, rows, batches and requests (one module, for both
need the same induction):

| Theorem | Says |
|---|---|
| `EveryRowAccountedCorrect` | `ImportSpec => []EveryRowAccounted` |
| `StoredIsABeginningCorrect` | `ImportSpec => []StoredIsABeginning` |
| `AnsweredErrorStoredNothingCorrect` | `ImportSpec => []AnsweredErrorStoredNothing` |
| `ProblemsNameRowsCorrect` | `ImportSpec => []ProblemsNameRows` |
| `DelayAnnouncedCorrect` | `Spec => []DelayAnnounced` |
| `ViewMovesTogetherCorrect` | `Spec => []ViewMovesTogether` |
| `AutoHeatsGoLastCorrect` | `Spec => AutoHeatsGoLast` |

`Startup_proofs` proves, for any number of processes, migrations and ends:

| Theorem | Says |
|---|---|
| `SchemaIsRecordedCorrect` | `Spec => []SchemaIsRecorded` |
| `OneAdminCorrect` | `Spec => []OneAdmin` |
| `ServesCompleteCorrect` | `Spec => []ServesComplete` |
| `PrintedPasswordWorksCorrect` | `Spec => []PrintedPasswordWorks` |

`PluginCalls_proofs` proves, for any number of requests, types and reloads:

| Theorem | Says |
|---|---|
| `CallsTypeOKCorrect` | `Spec => []TypeOK` |
| `OwnDeadlineCorrect` | `Spec => []OwnDeadline` |
| `QuickCallsEndCorrect` | `Spec => []QuickCallsEnd` |

`WebSession_proofs`, for any accounts and any number of requests in flight:

| Theorem | Says |
|---|---|
| `SessionTypeOKCorrect` | `Spec => []TypeOK` |
| `LoggedOutIsEmptyCorrect` | `Spec => []LoggedOutIsEmpty` |
| `LiveSessionKeptCorrect` | `Spec => LiveSessionKept` |
| `NoSessionLeftBehindCorrect` | `Spec => NoSessionLeftBehind` |

`PluginRegistry_proofs`, for any files, plugins and number of requests:

| Theorem | Says |
|---|---|
| `RegistryTypeOKCorrect` | `Spec => []TypeOK` |
| `BundledStayCorrect` | `Spec => []BundledStay` |
| `SequentialReloadsMatchCorrect` | `Spec => []SequentialReloadsMatch` |

`LiveWatch_proofs`, for any number of screens and any capacity:

| Theorem | Says |
|---|---|
| `WatchTypeOKCorrect` | `Spec => []TypeOK` |
| `BannerTellsTruthCorrect` | `Spec => []BannerTellsTruth` |

Type invariants and `BundledStay` are not repeated in runs where a theorem states them.

The argument for the core. `TypeInv` is what the other proofs start from: an expression
like `heats[req[q].id]` means nothing unless the key exists, so it adds `KeysOK` (no
dangling key) to `TypeOK`. `ClosedRoundFinished` is not
inductive either: `SetStatus` closes a round because some earlier step found all heats
closed. What carries it is `CascadeJustified`, which says of each handler in flight that
what it read still holds, plus `ScheduledTogether`: "all heats of the round are closed"
says something about all groups only because a round has heats for all of its groups or
for none. `ClosureInv` is the conjunction of the four, and the key fact is monotonicity:
no step takes a result away, shortens or changes a group, or reopens a heat
(`StaysComplete`), and a group heat is only ever added for a round that has none, so
`RoundComplete` survives too. `CoversRound` compares lengths, so `ScheduledTogether` needs
that an injective list as long as a finite set, into that set, covers it (lemma `Covers`).

`ClosureUnderWay` says who will close what is complete. The reason is `HandedOn`, a
property of every step: what a step completes or closes is in the hands of a submission
afterwards, and a submission that stops leaves nothing undone, or a fault is counted
(`SubmissionHandsOn`). Under the invariant that is enough for the heats and for the rounds.

For the ranking, `ReadingClosed` says that `/next` and `/divisions` only read closed rounds,
and `ReadAll` that what they have read has every team; the read itself is complete because
`ClosureInv` gives every group of a closed round a complete heat (`ResultsCoverClosed`), and
later steps add no team to the round. `OneHeatEach` needs that a heat of a group has no
division (`HeatsApart`), and that both transactions refuse to schedule a second time.

For the refinement the steps are split by what they do to the rounds: an insert is
`Announce`, results are a `Record` of the teams that gain one, closing a round is a `Finish`,
whose guard, all teams have results, is what `ClosureInv` gives; every other step, a
correction of results among them, is a stutter (`StepPromise`).

For `NextKeepsTeams`, the check in the code compares two censuses, lists of how often each
team occurs; equal censuses have the same teams (`CensusOfEveryone`). `ListGroups` numbers
the groups of the old round by how many come before each; that this reaches every group once
is `PlaceOfId`. `InsertedTeams` says that the new round has what was inserted and nothing
else, because no group had its key before.

For the start, `SchemaIsRecorded` alone does not say that the file a process executes is
the next one. `Progress` does: all files before the one a process looks at are applied, so
one that is not applied has the number `Len(schema) + 1` (lemma `NextFile`), whatever
another process has done since the lookup; and who has come to the accounts has passed all
files. `StartupInv` is the conjunction with `TypeOK`, `SchemaIsRecorded` and `OneAdmin`.
`PasswordsKept` says where the account's password is while nobody knows it: with the
process that is about to print it, which created the one account.

For the calls, `OwnDeadline` needs that no two calls run in one Lua state (`Alone`): the
deadline that a returning call takes away is then nobody else's. `QuickCallsEnd` needs that
only calls without an end come to their deadline (`LateLoops`), and `OwnDeadline`, for the
deadline that aborts a call is the one in its Lua state. `CallsInv` is the conjunction.

For the browser, an empty cache is not enough: a query in flight may fill it later. So
`NoneListens` says that without a token no query in flight has a place in the cache, which
is what `queryClient.clear` does for those of the session that ends. `RefusedIsOver` says
that a request that was refused had no session, and that none comes back: a token is issued
once (`TokensIssued`). `SessionInv` is the conjunction. `NoSessionLeftBehind` has a premise
about the whole behaviour, `[]Orderly`, so its invariant `TidyInv` is kept by steps between
orderly states: while the only request is in flight, `InPlace` says for each stage of it
which sessions exist.

For the registry, `Reading` says of a reload under way that what it has built is what the
files that it has read give, in the order of the directory, and that these are in front of
the others (`GivesNext` is its step); at the end it is what a start loads (`GivesLoaded`).
That every set of files has a first and a last one is part of `RegistryInv` (`Ordered`): the
directory grows by a file at a time. `MatchInv` asks for `Reading` only while `inOrder`, and
then for one request at a time as well: a request that begins alone establishes it whatever
the engine was before (`BeginMatches`), the steps without an error keep it, and any error
ends `inOrder`.

For ranking, reseeding and cutting the theorems are about what recursive functions and
folds compute for inputs of any length. The library's induction theorems take an operator
and cannot be used here, so `Least`, `Induction` and `Recursion` are proved from the
well-foundedness of `<`: induction is about a set of numbers, and `Recursion` gives the
function that a recursive definition names. With them `Flatten` says what `FlattenSeq`
returns, and `DealtGrows` what `Dealt` does. `Rank` puts a team in the place that is one more
than the number of teams before it. `BeforeOrders` shows that `Before` is a strict total
order of the positions, `Places` that in such an order every place is taken once; so `Rank`
permutes (`RankPermutes`) and orders (`RankOrders`). `Before` of two teams depends only on
their results and their order in the groups, which is why `StandingsKeepOrder` holds.
`Tiers` says that the tiers of a group cover it without overlap, the last one with the
remainder, and `Turns` that `(n - 1 + i - 1) % k` takes every tier of a group for one new
group each; together they are `Reseeded`. The inductive invariant, `IndInv`, is
`TeamsConserved` with the types of groups and results. For the cuts, `DealtReaches` says that
the cuts that are served are the first ones and go on where the one before ended
(`CutsDealAll`).

For the import, `ImportInv` says of every upload what its handler has done so far: `Sound`
relates the rows it has to store and the problems it has reported to the file, where
`ValidateSorts` gives the beginning; `Accounts` relates the teams to them: those of this
upload are in the order of the rows, come from rows the handler is past and has not
reported, and each such row is stored or reported. A team that somebody else adds, or a
second upload, changes neither (`OthersAccounted`), and the end of the process leaves both
as they are. `Pages` says that a page with an answered error belongs to a file that does not
parse.

For the schedule, `DelayInv` says two things of each course. While updates do not overlap
(`AloneInv`) there is at most one request, whose row keeps the stored delay or will be
announced, and which announces what it stored: so a broadcast settles a doubtful delay. A
delay that is not doubtful (`SettledInv`) is the announced one but for the time between UPDATE
and broadcast: so failing and ending before the UPDATE leave it, and ending after it makes it
doubtful (`ServerRestartInv`). `ViewInv` is inductive with the lengths of
the view. For `AutoHeatsGoLast`, `TextOrder` says that the order of the
texts has a greatest one, which with one offset is the latest start; so a batch begins
behind every heat of the course, and its heats are intervals apart (`Behind`,
`IntervalsApart`).

Premises that are part of properties, and why: `DelayAnnounced` excepts courses that are
`doubtful`, for updates that overlap may take back a delay without a broadcast and a
crash may come before it, until a delay is set alone; `SequentialReloadsMatch` excepts
in the same way the time after an overlap or an error (`inOrder`); `AutoHeatsGoLast`
about courses whose starts have one UTC offset; `HeatsMixed` about groups with at least
as many teams as there are groups; `ProblemsNameRows` excepts rows behind one without a
name. Outside of them the code does otherwise, and the comments at the properties say
so.

The inductive invariants were checked by TLC on the instances of section 3 before they were
proved. Assumptions: those that the modules state about their constants (types; first groups
that have every team once; different IDs for the bundled plugins; that the password set in
the environment is none of those that processes generate); TLC evaluates them in the runs of
these modules. No leaf is taken on trust.

Only model-checked: liveness, which is `KeepsPromiseFairly`, `ResubmissionHeals`,
`CommittedReachesScreen`, `ReconnectCatchesUp`, `StartedAgainServes`, `CallsAnswered` and
`LogoutEnds`; fairness and ENABLED are beyond TLAPS as used here.

## 5. What is not modelled, and why

- The standings endpoint and other reads change no state; what a standings entry lists is
  `StandingsEntry`. The results that the schedule shows of each heat are left out of
  `GetSchedule`.
- Parsing and validation of JSON bodies: only bodies that pass it reach the models. The
  models behind `requireRole` take authorised requests.
- The marshalling between Go and Lua and what the sandbox leaves out; the hashing of
  passwords. No request creates or changes accounts.
- A second tab of the same browser, which shares the token and not the cache.
- Backoff delays, layout, translations (read once at start), routing, static files.
- Tournaments: constants of the models, created by single inserts. The bundled sport is a
  table of labels.

## 6. Plan

1. *PluginCalls composed with PluginRegistry and RoundLifecycle*: a plugin that disappears
   between two `/next` of one tournament.
2. An abstract registry (engine = directory, one step per request) that PluginRegistry
   implements as long as requests do not overlap; the same for a course row.
3. Two tabs in WebSession; the results in `GetSchedule`.
4. Proofs: the safety half of the liveness properties, that is, that whatever a screen, a
   caller or a submission still waits for is on its way (`ClosureUnderWay` is that of
   `ResubmissionHeals`; `CommittedReachesScreen`, `CallsAnswered` and `LogoutEnds` have none
   yet); that the groups of Qualification are answers RoundLifecycle accepts, so
   `NextKeepsTeams` never turns the bundled plugin away.
