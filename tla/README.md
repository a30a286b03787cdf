# Verification of the VPN relay's control plane

The repository builds a two-server VPN and the Telegram bot / Mini App that runs
it. Server B is the exit: it hosts the bot, an XRay and a sing-box. Server A is
the optional entry: a WireGuard interface whose traffic a second XRay relays to
B. The bot keeps its truth in one SQLite database and drives everything else
from it: files and units on its own host, and Server A over SSH.

This directory holds TLA+ models of that control plane, the TLC runs that check
them on small instances, and theorems about them that TLAPS proves for every
value of the constants.

- `PROJECT.json` lists components, runs, mutants, findings, hazards, theorems and
  the lines of source that each definition stands for.
- `X.tla` models a component, `MCX.tla` gives it instances for TLC, `X*.cfg` are
  the runs and `XProofs.tla` holds its theorems.

Paths below are relative to `src/bot/packages/server/src/` unless they begin
with `src/`.

## 1. Inventory

The bot is one Node.js process. Its handlers (bot callbacks, REST requests,
worker ticks, startup code) interleave at `await`s and nowhere else; database
access is synchronous. What runs beside it are Server A, systemd and its units
on B, and the root helpers those units start.

### 1.1 WireGuard peers and client lifecycle

`services/client.service.ts`, `services/wg.service.ts`, `services/wg.conf.ts`,
`api/routes/clients.ts`.

| | |
|---|---|
| State | rows of `clients` (`wg_ip`, `is_active`, keys); on Server A `wg-clients.conf` and the kernel's live peer table; in memory `ipMutex` (a promise chain) and `reserved` (octets with a 60 s expiry) |
| Operations | create, suspend, resume, delete, rename; `addClient` / `findFreeIp`; `syncPeersFromDb` after each create, delete and rename and at startup |
| Interactions | SSH to A (every command is an await that can fail, before or after its effect), the database, the two proxies, the routing sync |
| Hard | two creates racing for an address; a sync that works on a snapshot of the rows taken three commands ago; failures and crashes between A and the row |
| Correct when | no two clients share an address, in the table or on A; A converges to the rows; one failed create does not block the others |

### 1.2 Cascade routing on Server A

`services/xray-uplink.service.ts`, `updateWgTransport` in `client.service.ts`.
State: `wg_cascade_transport` of each row, the rules in the XRay config on A and
those the running XRay has loaded. One operation, `syncRoutingAndRestart`: read
the config, compare the rules, write and restart. It swallows its errors. Hard:
a file that is right while the process is not; an address re-used while its
previous owner's rule is in force. Correct when every sync that gets through
leaves the running XRay on the rules the rows ask for.

### 1.3 Local proxies' configuration

`services/xray.service.ts`, `services/hysteria.service.ts`,
`src/roles/telegram_bot/templates/{xray,singbox}-restart.{path,service}.j2`.
State: `config.json`, the client set of the running proxy, a trigger file, the
path unit and its oneshot service. The unprivileged bot writes config and
trigger and polls until the trigger is gone; systemd restarts and then removes
the trigger. Hard: one trigger shared by all mutations, a restart and its
removal that are two steps of another process, crashes between row, file and
trigger. Correct when no restart is lost and a suspended client is refused in
the end.

### 1.4 Maintenance jobs

`services/maintenance.service.ts`, `workers/maintenance.worker.ts`,
`src/roles/maintenance/templates/vpn-maintenance.j2`. State: `maintenance_jobs`
rows, a JSON file per job written by a root helper on the target server, boot
ids, trigger files, the worker's in-memory maps. Operations: start a job, arm
it (trigger file on B, `systemd-run` over SSH on A), the helper's phases, the
3 s tick (probe, mirror, judge, announce), reconcile at startup. Hard: the job
reboots the host it runs on, and on B the bot with it; probes of A overlap;
helpers die. Correct when success is never recorded without cause, a reboot
that was asked for is not recorded as a failure, no job runs twice, outcomes are
final, announced once, and reached.

### 1.5 SSH pool

`services/ssh.ts`: one connection, `connecting` flag, `pendingQueue` of callers.
A 30 s timeout rejects `exec` without stopping the remote command; the wait for
a connection is not covered by it. The `close` handler clears the shared client
whichever connection closed. Hard: the events of an old connection arrive while a
new one is made. Correct when every caller is answered.

### 1.6 Quota, expiry and suspension

`workers/quota.worker.ts`, `workers/ttl.worker.ts`, `updateQuota` and
`updateExpiry` in `client.service.ts`, `checkAbnormalTraffic` in
`workers/alert.worker.ts`. State: usage, quotas, `suspend_reason`, `expires_at`,
the alert's cooldown, the quota worker's `lastDay` and `lastMonth` (memory only).
Three phases per tick: daily reset, monthly reset, enforcement, each over a list
read before its first await. Hard: manual suspends against automatic ones, a
reset missed over a restart, stale lists, reasons written after an await.
Correct when only the quota worker's own suspends are lifted by a reset, nobody
over quota or expired stays active, and nobody stays suspended without cause.

### 1.7 Traffic accounting

`workers/traffic.worker.ts`, `workers/rollup.worker.ts`. State: counters of
XRay and sing-box that are reset when read, WireGuard's that restarts at zero with
the interface, the worker's last reading of it (memory only), snapshots and their
monthly sums. Hard: polls that overlap (the sing-box call has no deadline), a
crash between the read and the insert, a client deleted meanwhile (foreign key
error in the loop). Correct when no traffic is counted twice.

### 1.8 Alerts, health and update checks

`workers/alert.worker.ts` (cooldown and sustain windows, suppression during
maintenance, automatic suspends), `workers/health.worker.ts`,
`workers/updates.worker.ts`, `services/updates.service.ts`. State: `alert_state`
rows, `sustainStart`, the health worker's counters and last ping, the updates
message cached in the row's context. Hard: the row is written before the message;
a cooldown that outlives its cause; a cache that shares its row with a cooldown.
Correct when a lasting condition is told again and again and one that is gone is
cleared.

### 1.9 Backup and restore

`services/backup.service.ts`, `backup.schedule.ts`, `backup.container.ts`,
`workers/backup.worker.ts`, `bot/handlers/restore.ts`, `lifecycle.ts`. State: the
`running` flag, `backup_runs`, the timer, rotated bundles, one staged restore with
a ten-minute timer, the database file with its WAL, pre-restore snapshots, the
restore marker. Hard: three sources that arm one timer, a delay longer than
`setTimeout` holds, a staged restore committed as its timer fires, a restore that
fails or dies half-way, shutdown from two sides. Correct when the timer stands at
the next slot, rotation keeps the newest, a restore is all or nothing and ends in
a process that takes backups again.

### 1.10 Metrics cache, subscriptions, schema

`services/metrics.cache.ts`: a 20 s cache per server with in-flight de-duplication
and invalidation at the end of a maintenance job; correct when no answer is older
than that. `services/subscription.service.ts`, `api/routes/subscription.ts`,
`utils/sub-token.ts`, `client-card.ts`: tokens minted on first use, rotated, looked
up, delivered over Telegram; correct when a rotation never leaves the
administrator with dead links only. `db/index.ts`: tables, columns, a table
rebuild, a backfill and the settings' defaults, statement by statement at each
start, on whatever shape a crash or a restored bundle left; correct when the
process that runs has lost nothing.

### 1.11 Dialogue and Mini App

`bot/handlers/text-input.ts`, `bot/menus/add-client.ts`, `bot/context.ts`: the
session of the one administrator, filled by buttons of any menu ever sent and used
by the next text. `src/bot/packages/web/src/screens/{AddClient,ClientDetail}.tsx`
with `api/routes/clients.ts`: a client's screen over a query cache, with edits,
refetches and failures that come back in any order.

### 1.12 Left aside

The other menus and routes, authentication, logs, charts, QR codes, IP info and
the text assistant, the other screens of the Mini App, and the Ansible roles and
playbooks: rendering, stateless handlers over the services above, pure I/O, or
scripts an operator runs in sequence. Where a role installs something the running
system interacts with (the path units, the maintenance helper), that is modelled
with its component. Section 6 gives the reasons one by one.

## 2. Modules

| Module | Models | Extends / uses |
|---|---|---|
| `IpLease` | abstract: exclusive leases of addresses | |
| `WgPeers` | 1.1, with the SSH failures of 1.5 as its callers see them | instance of `IpLease` |
| `WgPeersProofs` | theorems on `WgPeers` | `WgPeers` |
| `Cascade` | 1.2 composed with all of 1.1 | extends `WgPeers` |
| `CascadeProofs` | theorems on `Cascade` | `Cascade`, `WgPeersProofs` |
| `ProxyConfig` | 1.3 | |
| `ProxyConfigProofs` | theorems on `ProxyConfig` | `ProxyConfig` |
| `JobLedger` | abstract: what `maintenance_jobs` promises its readers | |
| `Maintenance` | 1.4 | instance of `JobLedger` |
| `MaintenanceProofs` | theorems on `Maintenance` | `Maintenance` |
| `Suspension` | 1.6, with the automatic suspends of 1.8 | |
| `SuspensionProofs` | theorems on `Suspension` | `Suspension` |
| `Backup` | 1.9: schedule, runs, rotation | |
| `Restore` | 1.9: staging, commit, teardown, the next start | extends `Backup` |
| `RestoreProofs` | theorems on both | `Restore` |
| `SshPool` | 1.5 | |
| `MetricsCache` | 1.10 | |
| `Alerts`, `Updates` | 1.8 | |
| `Traffic` | 1.7 | |
| `Subscription` | 1.10 | |
| `Dialogue` | 1.11 | |
| `Migrations` | 1.10 | |
| `MiniApp` | 1.11 | |
| `ServicesProofs` | theorems on `MetricsCache`, `Subscription`, `Dialogue`, `MiniApp`, `Migrations`, `Traffic` | extends them |
| `MCServices` | the modules from `Backup` on, composed | extends them |
| `MCServicesProofs` | theorems on the composition, and the types of `SshPool`, `Alerts`, `Updates` | `MCServices`, `RestoreProofs`, `ServicesProofs` |

### WgPeers

A handler is a slot `p` with a program counter `pc[p]` that names the await it
is suspended at; an action is what the code does from one await to the next.

| `pc` | await | left by |
|---|---|---|
| `queued` | `ipMutex` (wg.service.ts:96) | `ReadUsed` |
| `conf` | `cat` in `findFreeIp` | `FindFreeIp`: `PickIp` or `NoFreeIp` |
| `set`, `pub` | `wg set` and the public key in `doAddClient` | `AddPeer`, `Insert` |
| `live` | `wg set` in suspend, resume, delete | `RemovePeer`, `RestorePeer` |
| `db` | its answer, before the row | `SuspendRow`, `ResumeRow`, `DeleteRow` |
| `snap`, `write`, `reload`, `drop` | the commands of `syncPeersFromDb` | `SyncRead` ... `SyncDone` |
| `blind` | the same drops, after a reload that failed unnoticed | `SyncDrop`, `SyncDone` |
| `uplink` | the routing sync | `UplinkDone` |

An SSH command takes effect in one step and is answered in a later one, so
`SshFail` covers a command that failed and one that took effect and whose answer
was lost. The reload command ends in `; rm -f`, whose status is the one the bot
sees: `SyncReloadFails` is a strip or a syncconf that failed and counts as done. A
create that failed takes the mutex's promise with it only where the code's
`run.catch` is missing; then every later `ipMutex.then` rejects, which `NoPoison`
rules out. `Crash` ends all handlers and restarts the startup syncs. A client
identity stands for a row id and its key pair and is created once. Columns no
property tells apart are left out. `wg_ip` is `ip[c]`: a local of the create
until `Insert`, the column from then on.

Abstractions: a command that outlives its timeout and takes effect after the
caller went on is not modelled; UNIQUE(name) is a conflict that may strike any
insert (fault `name`); peers added by hand and the interface section of the file
are not (`renderConf` keeps and ignores them); invalid rows, which the sync
skips, do not arise; clients of both types first wait for the XRay restart, which
is a delay here.

### Cascade

`at[p]` is the position inside `syncRoutingAndRestart` of a handler that
`WgPeers` leaves at `uplink`. The remote write and restart are one shell command
with `&&`, hence two steps of which the second may fail (`RestartFail`). `clean`
is a history variable: nothing failed or crashed so far. The proxy's config on A
is the set of octets with a Hy2 rule; everything else in it is kept by the code.
`CSpec` lets handlers overlap in any way. `OrderlySpec` lets them take turns
(`Orderly`), except that a sync of the peers alone may run beside one of the
routing alone, as they do at every start and when a rename meets a transport
choice; the properties of the run are those the code promises under it.

### ProxyConfig

XRay and sing-box go through the same program, so one module models either.
Row, file and trigger of a mutation change in one turn of the event loop
(`Mutate`), which a process crash can still cut (`CrashInTurn`). `UnitStart`,
`UnitRestart` and `UnitEnd` are systemd: the path unit fires, `ExecStart` has
restarted the proxy, `ExecStartPost` removed the trigger. `Poll` is one round of
the 300 ms loop. `SyncThrows` is a config file that cannot be read or written.

A `setting`, chosen at the start and fixed, says which slots mutate, whether
systemd may be slow, and which faults may occur; one run thus covers several
circumstances, and a property names those it is about (`InTurn`).

Left out: systemd's start limit and a proxy that refuses its configuration.

### Maintenance

The row, the helper's file and the boot id are the three accounts of a job that
must be reconciled. `StartJob` to `ArmFail` are `startJob`; `Helper*` the root
helper, from eating its trigger over the lock and the apt phases to the reboot;
`LocalTick` a tick on B, which is one turn unless an older job of A comes first:
then it is `BehindTick`, with the row read before that job's probe is awaited, and
`BehindJudge` when its turn comes, or `Cut` when the job before it threw.
`RemoteTick`, `Answer` and `Judge` are a tick on A, split at its await; where a
probe of A is awaited several ticks may overlap. `CameBack` to
`Mirror` the branches of `tickJob`; `BotStart` to `Reconciled` the startup. Time
is two flags per job (`aged`, `overdue`), set by `Age` and `Overrun`. `Punctual`
says when the deadlines strike only what is lost; the setting's `late` lifts it.

Abstractions: the helper writes complete files (it renames them into place);
old job files are not pruned; `told` counts to two; one server per behaviour.
Jobs of the two servers share the worker's loop and nothing else: what a job of A
does to one of B, to stop a tick between the read of B's row and its use or to
end it there, is the setting's `behind`, with the other job left out; a job of A
behind one of B loses no more than a turn, and in the startup reconcile a wait
behind A's probe is a later `BotStart`, since no row of B changes meanwhile.

### Suspension

A slot runs a worker or a request; `job[p]` is its rest, or the await it is at
with what it will do then: the row to write (`ssh`: a WireGuard client's row is
written after the command; `restart`: a proxy's client's was written before it)
and the list it goes on with. An action is one turn of the event loop, which for
the quota worker goes through the end of a phase into the next (`DayTurn`,
`MonthTurn`, `EnforceTurn`). `Write` is `setClientActive`, which looks at nothing.
Rows in a list keep the quotas of the time it was read; the use they are compared
with is read when their turn comes.

A quota is there or not: one that the use cannot reach is the same as none, and a
raised one the same as one removed. Use is the set of quotas it has reached in
the present day and month. `Rollup` drops the snapshots older than 30 days, of which
the use of a month is the sum: it may fall below a quota within the month (on a
31st; the model lets it on any day). `revoked` is history, and so is `spent`, which
remembers whose use had reached the monthly quota before. What Server A and the proxies do
with the change is in `WgPeers` and `ProxyConfig`. The Mini App's check before a
resume is subsumed by the bot's button, which has none. Left out: the messages,
the other alerts that the alert worker awaits around its check (they delay), and
`expires_at` as a date (`Lapse` is when the query begins to see it).

### Backup and Restore

A run of `runBackup` is `job[p]`, one value per await, for each of its callers
(`schedule`, `catchUp`, `admin`); `running` is the service's flag. `ArmedTimer` is
`scheduleNext`, with what Node makes of a delay that overflows (`TimerLimit`). The
ticks of `now` are hours in days of `Day` hours. A bundle's name is its label and
its stamp, which counts the minutes that have a bundle: `Land` keeps the newest's
minute or begins one, and a bundle of the same minute and label is written over, as
are snapshots of the same minute. `Labels` are those a deployment may set; rotation
orders by stamp and then by name (`Later`). `landed` is history. `Finish` is what `runOnce` does
after a run, the alert and the next arming included.

`Restore` adds the bot's handler (`restore`), the staged bundle and its directory,
the teardown that signals and the restore share, the last-resort timer, and the
disk: which database the file is, what its WAL holds, the snapshots, the marker.
`Swap` is one turn that a crash may cut after any of its four file operations
(`Files`). The bot handles one update at a time, so an upload, a confirmation and
"Backup Now" exclude one another. Abstractions: a bundle is sound or refused, so
the container's cryptography is not modelled; what a restored database says is any
schedule; the clock does not go backwards; the retention is a constant.

### SshPool

A connection is a number, because the events of an old one act on the state of a
new one. `Dial(FALSE)` is a key file that cannot be read: the executor throws with
`connecting` set. ssh2 is external; the module's head says what is assumed of it.

### MetricsCache

A measurement remembers nothing, reads the machine (`Measure`) and comes back
(`Resolve`, `Reject`) in any order. Readings are numbered, so that "older" means
smaller; `floor` and `invalidated` are history.

### Alerts and Updates

The checks of the alert worker touch disjoint rows, so a behaviour follows one of
the twelve (`kind`), with the guards that this check has: muted by maintenance or
not, unreadable or not, lasting or not. What it measures is `fine`, `bad` or
`worst`. Messages are sent from `outbox` after the row is written. `HealthRun`
supplies what the cascade's checks see. `Updates` follows the updates worker
through its awaits for one server; `context` is whose message is cached.

### Traffic

Units of traffic of one client. `Take` reads a counter with reset; when the answer
is lost the reset may have happened. `crossed` remembers that two polls held a
WireGuard reading at once, the one case in which `lastWg` may go backwards.

### Subscription, Dialogue, Migrations, MiniApp

`Subscription`: tokens are numbered as they are minted. `sending[h]` is a handler
that awaits the delivery of a link or its picture. A restart may bring the rows of
a bundle (`archived`) back. `Dialogue`: `session` is the session's step and data;
`tapped` remembers what the last button said. Cancel, and the texts that are
refused, leave the session as it is and are not actions. `Migrations`: `at` is the
next statement of the file; `tx` is the open transaction, lost when the process
dies. An ALTER that fails, for whatever reason, goes unnoticed (`swallowed`); any
other statement that fails ends the start. `MiniApp`: `shown` and `fresh` are the
cached row and whether it is younger than `staleTime` and not invalidated, `refetch`
the GET in flight, `changes` the PATCHes, whose buttons are new once the screen was
closed (`by`). TanStack Query (5.90 in the lock file) is external and modelled by
its rules for how the screens use it: a screen that opens or gets the focus asks
only if nothing fresh is cached and nothing is in flight; `invalidateQueries`
replaces what is in flight for an open screen and leaves alone what is in flight
for a closed one, whose answer then counts as fresh. `confirmed` is history, "late"
where an edit was confirmed while such an answer was on its way. Two mutations
stand for six of the same shape. A client's id never comes back; a second POST of an
add screen that is opened again ends at the name's being taken; a closed screen's
cache is not dropped after its five minutes.

### MCServices

These parts share no variables but what `Restore` takes from `Backup`. A behaviour
of the run has one of them in focus from its start and the others at rest; the
states are the sum and not the product of the parts'.

## 3. Runs

| Run | Constants and bounds | What it shows |
|---|---|---|
| `wg_peers` | 2 clients, 2 octets, 2 slots, all faults, startup syncs; 705k states | `NoSharedIp`: addresses stay unique in the table and the file; `LeaseSpec`: allocation refines `IpLease`; every create gets its turn at the mutex and fails of no other's failure |
| `wg_live_race` | the same without faults | **violated**: live peers and active rows disagree for good after an overlap |
| `cascade` | 2 clients, 2 octets, 2 slots that take turns (`OrderlySpec`), all faults on peers and routing; 1.0M states | a completed sync leaves the file and the suspended peers of A as the rows say, and all live peers unless its reload failed unnoticed (`SyncHeals`), addresses of active clients are never another's (`NoStolenIp`), routing is never inherited or stale while nothing fails |
| `cascade_failed_restart` | 2 clients, 1 slot, routing faults | **violated**: "already in sync" while XRay is down |
| `proxy` | 2 clients, 2 slots, 3 polls, three settings; 9k states | file follows rows; no restart lost in turn; suspension takes effect; polling ends |
| `proxy_lost_restart` | 1 client, 2 slots | **violated**: an overlapping mutation loses its restart |
| `maintenance` | 2 jobs (of 3), 2 tick slots, 1 unasked reboot, eight settings, three of them of B behind a job of A; 373k states | success only with cause, asked-for reboots succeed, at most one run, told once, `LedgerSpec`: refinement of `JobLedger`, every job ends |
| `suspension` | 1 or 2 clients of either kind, one run of each worker and one request at a time, one midnight, six settings, each fault once; 239k states | in turn: `RevokedStaysInTurn`, `SuspendedForCause`; overlapping: `OverstayEnds`, `ResetLifts` |
| `suspension_overlap` | 1 client, quota worker and one request | **violated**: a suspension by hand is turned into one for quota and lifted |
| `maintenance_told_twice` | 1 job on A, or on B behind one of A, 2 tick slots | **violated**: overlapping ticks announce one outcome twice |
| `services` | one of eleven parts per behaviour, bounds below; 372k states | the timer stands at the next slot, rotation keeps the newest, a restore is atomic and ends; SSH callers are answered; no stale status; traffic is counted once; alerts and updates are told again and again; a rotated link reaches the administrator; clients are made as tapped; schema steps lose nothing; the screen catches up with the row |
| `backup_interval` | days of one tick, an interval of thirty | **violated**: the timer starts backups outside any slot |

Why the bounds are enough. A race over an address needs two clients, a re-use
two identities one after the other, since each is created once; two octets let a create avoid an address
and let the pool run out. Two slots give each pair of overlapping handlers, and
their pairwise overlaps are what the code's shared state can be hurt by: every
conflict found needs two. Three polls distinguish the first, a middle and the
last; three clients add nothing to a set that is rebuilt as a whole. Two jobs
are needed for the active index and for a shared trigger; two ticks for an
overlap; one unasked reboot may come before, between or after those the jobs ask
for. Clients are symmetric in `cascade`, where no liveness is checked.

In `suspension` a second client matters where a list is gone through (one
setting has two); one midnight, which may end a month, comes before, between or
after any steps.

In `services`:

- backups: days of two hours, three schedules (daily, every third day, none), five
  hours, an anchor day after them (the grid is also taken before its anchor), two
  labels and two minutes, hence up to four names, with a retention of two: a
  rotation within a minute, and one after the label has changed;
- restores: two bundles staged, two restores, one backup, one snapshot kept: the
  second restore rotates the first one's snapshot, and finds what it left;
- SSH: two callers, three connections: an old one's events meet a new attempt, and
  the third is a reconnect; metrics: two callers, three measurements, two changes;
- alerts: each of the twelve, a sustain window of one tick inside a cooldown of two,
  two failures to the health worker's threshold; updates: two lists;
- traffic: two polls, two units; links: two handlers, three tokens, so that each
  handler's rotation may follow another's; dialogue: two names;
- schema: two clients, one of them without a subscription, every earlier shape;
- Mini App: two PATCHes in flight, one of a screen that was closed and one of the
  next, or two of the same screen.

Deadlock is checked except where the system may really stop: without faults all
clients end deleted, maintenance jobs all end, and so does the calendar; in
`services` the bounds end a part's behaviour, and so does a closed connection.

Known consequences of the code that the models show and that no run states:

- With two handlers, a create may be given a deleted client's address while
  Server A still routes it by the old client's choice (`deleteClient` frees the
  row before its syncs). `NoInheritedRoute` holds when handlers take turns.
- When `systemd-run` took effect on A and its answer timed out, the job is
  recorded as failed and its helper works on, unobserved.
- A restart of the bot across midnight skips the daily (or monthly) reset, and a
  resume that fails in a reset is not tried again: the client waits for the next
  one. `ResetLifts` excludes both.
- Enforcement may suspend for a quota that was raised after its list was read.
- A reset, or a removed daily quota, resumes a client that has expired or is over
  its other quota; the next run of the worker in charge suspends it again.
- `expires_at` is compared as text in two formats, so a client lives on until the
  end, in UTC, of the day it expires.
- A resume that read its row before a delete can bring the deleted peer back.
- A reload whose strip or syncconf failed is reported as success: the live peers stay
  the old ones, but for the suspended, until a later sync.
- On a 31st the rollup takes the 1st out of the month's use. A client suspended for
  the month stays so although the use it is shown is below its quota; an active
  one's use of the 1st is forgiven.
- `insertBackupRun` throws outside the `try` that resets `running`: after that every
  backup and restore is refused until the process is restarted.
- A second bundle within a minute replaces the first one's file, or, under another
  label, is ordered by its name: the one rotated out may be the newest.
- A failed ALTER of the traffic columns leaves a process that runs without them:
  every insert and sum of traffic throws until the next start.
- Cancel leaves the step of the dialogue: the next text is still taken for a name.
- An unreadable SSH key leaves `connecting` set: callers queue for ever (`Stuck`).
- A list of updates that changes more often than the cooldown lasts renews
  `fired_at` each time and is never told.
- A suppressed check leaves `sustainStart` alone: the time before counts as lasting.
- Traffic is lost, never doubled, by a failed insert, a restart, and in the rollup
  by rows that come of age between its SELECT and its DELETE. Two polls that hold
  WireGuard readings at once may double it (`crossed`).
- When the card cannot deliver a rotated link, its message does not show it.
- An edit that the server applied and answered with an error leaves the Mini App's
  screen as it was until the next refetch.
- An edit confirmed after its screen was closed, while a GET from before it is in
  flight, is not on the screen when it is opened again, and for as long as that
  answer counts as fresh (30 s) opening it does not ask.
- A word that Server A is back which cannot be sent leaves the health worker's
  counters as they are: it is tried again each minute. A `ping` that cannot be run
  is recorded as full loss (in the model `level` is what `ping` says).
- A restore whose snapshot fails leaves a truncated file under a snapshot's name.

## 4. Fairness

- `wg_peers`: each handler's next step or its failure is weakly fair. An SSH
  command is answered or rejected by its timeout (ssh.ts:83). No fairness for
  arrivals, faults or expiry.
- `proxy`: each poll timer fires. systemd is fair only where the setting is not
  slow; then it runs triggered units and restarts the bot (`Restart=always`).
- `maintenance`: the worker's timer ticks and probes are answered or fail; the
  helper proceeds (apt ends); time passes; a server that is down boots and the
  bot is started. `JobsEnd` is claimed where the bot stays up in the end, SSH
  answers and no job of the other server ends each tick with an error, since each
  alone can postpone every verdict for ever.

- `suspension`: each worker's timer goes off again and each await ends. The
  liveness properties are claimed for settings where programs may overlap: taking
  turns is a restriction of the model, under which timers could be held up.

- `services`: the process manager starts what has died and the restore's
  last-resort timer fires; an attempt to connect ends in an event (`readyTimeout`);
  the workers' intervals fire, their sends end, time passes; `apt list` answers now
  and again (strong fairness, since a run may fall back instead).

Faults are never fair.

## 5. Proofs

TLAPS proves, for every set of clients, octets, handlers and faults:

| Theorem | States |
|---|---|
| `WgPeersProofs!TypeCorrect` | `TypeOK` |
| `WgPeersProofs!AddressesNeverShared` | `NoSharedIp`, from `AddressesUnique` (the rows) and `FileUnique` (the file) |
| `WgPeersProofs!QueueNotPoisoned` | `NoPoison`, the safety half of `MutexProgress` |
| `WgPeersProofs!LeaseRefined` | `Spec => LeaseSpec`: the refinement of `IpLease` |
| `CascadeProofs!CascadeTypes` | `CTypeOK`, whatever overlaps (`CSpec`) |
| `CascadeProofs!CascadeAddresses` | `NoSharedIp`, whatever overlaps: the routing does not disturb the addresses |
| `CascadeProofs!PeersHeal`, `!AddressNotStolen` | `SyncHeals`, `NoStolenIp`, under `OrderlySpec` |
| `CascadeProofs!NothingInherited`, `!RoutesSettle` | `NoInheritedRoute`, `RoutesSettled`, under `OrderlySpec` |
| `ProxyConfigProofs!ProxyTypes` | `TypeOK` |
| `ProxyConfigProofs!FileFollows` | `FileFollowsRows` |
| `ProxyConfigProofs!NoLostRestart` | `RestartPendingInTurn` |
| `SuspensionProofs!SuspensionTypes` | `TypeOK` |
| `SuspensionProofs!RevokedHolds` | `RevokedStaysInTurn` |
| `SuspensionProofs!SuspensionsCaused` | `SuspendedForCause` |
| `MaintenanceProofs!MaintenanceTypes` | `TypeOK` |
| `MaintenanceProofs!HelperRunsOnce` | `RunsOnce` |
| `MaintenanceProofs!SuccessIsReal` | `NoFalseSuccess` |
| `MaintenanceProofs!RebootSucceeds` | `PlannedRebootSucceeds` |
| `MaintenanceProofs!TellsOnce` | `ToldOnceInTurn` |
| `MaintenanceProofs!TableIsLedger` | `Spec => LedgerSpec`: the refinement of `JobLedger` |
| `RestoreProofs!RestoreTypes` | `BackupTypeOK`, `RestoreTypeOK` |
| `RestoreProofs!RestoreIsAtomic` | `RestoreAllOrNothing` |
| `RestoreProofs!RotationKeepsNewest` | `NewestKept` |
| `RestoreProofs!TimerArmed` | `ArmedForConfig`, assuming `TimersFit` |
| `RestoreProofs!RunsInSlots` | `OnSchedule`, assuming `TimersFit` |
| `ServicesProofs!LinkStaysInHand`, `!SubTypes` | `LinkInHand`, `SubTypeOK` |
| `ServicesProofs!MadeAsTapped`, `!DialogueTypes` | `ClientAsTapped`, `DialogueTypeOK` |
| `ServicesProofs!AnswersFresh`, `!CacheTypes` | `NoStaleAnswer`, `CacheTypeOK` |
| `ServicesProofs!ScreenRight`, `!AppTypes` | `ScreenCatchesUp`, `AppTypeOK` |
| `ServicesProofs!SchemaUpgraded`, `!MigrationsTypes` | `Upgraded`, `MigrationsTypeOK` |
| `ServicesProofs!CountsOnce`, `!TrafficTypes` | `CountedOnce`, `TrafficTypeOK` |
| `MCServicesProofs!SshTypes`, `!AlertTypes`, `!UpdatesTypes` | `SshTypeOK`, `AlertTypeOK`, `UpdatesTypeOK` |
| `MCServicesProofs!EachOnItsOwn` | `FairSpec` of the run implies the specification of each part |
| `MCServicesProofs!ServicesTypes` | `ServicesTypeOK` in the run |
| `MCServicesProofs!PartsAreSafe` | the parts' eight safety properties in the run |
| `MCServicesProofs!TimerArmedInRun` | `ArmedForConfig` in the run, assuming `TimersFit` |

The assumptions are those in the modules: octets and client ids are numbers,
slots and model values are distinct, the poll window is positive, the calendar is
finite, retentions are positive, bounds are numbers, and jobs, ticks and polls are
finite sets (of which there are as many as the process has started, and whose
cardinality a property counts). `TimersFit` is the one assumption that is not
always true: no schedule waits longer than `setTimeout` holds. The presets
of the bot and the Mini App (1, 3, 7 days) keep to it, a custom interval of 25 to 30
does not, and the run `backup_interval` shows what happens then. The
theorems on the parts of `services` are about the parts' own specifications
(`RestoreSpec`, `SshSpec`, `CacheSpec`, `AlertSpec`, `UpdatesSpec`, `TrafficSpec`,
`SubSpec`, `DialogueSpec`, `MigrationsSpec`, `AppSpec`), in which nothing depends on
what is in focus. `EachOnItsOwn` carries them over to the run.

That addresses are unique is not inductive. `IInv` strengthens it along the
argument the code relies on: whoever is between the read of the rows and its
insert heads the mutex (`MutexHeld`), so no other create inserts meanwhile; the set it read
therefore still covers the rows when it picks (`UsedCovers`), and the octet it
picked stays free until the insert (`HeldIsFree`); creates have targets of their
own (`OwnTarget`). The reservation map is not needed for it: as long as the
mutex covers the whole create, an expired reservation does no harm. For the file,
`OctetsFinal` and `SnapshotUnique` say that a snapshot names only clients whose
octet no longer changes, and none twice. The refinement maps each client to
the octet its row or its running create holds.

`RestartPendingInTurn` needs `Confirming`: while the unit works, the trigger
exists and the handler that wrote it is still polling, so nobody has rewritten
the file since the new proxy read it. The run `proxy_lost_restart` shows what
happens when a second handler is not bound by that.

`RevokedStaysInTurn` rests on `TurnsInv`: a revoked client's row keeps a lasting
reason (`Kept`); the one job under way waits to write only what it may (`Allowed`), and the list a worker still holds names no revoked
client (`Spared`). A list read in the same turn spares them because its query
selects active rows or rows suspended for a quota. The alert worker's list is
exempt: it can only revoke. That a list has a first row is proved from the
well-foundedness of the naturals (`FirstIn`). With an overlap `Spared` is what
breaks: the list, or the reason about to be written, is older than the suspension.

`SuspendedForCause` is not inductive: `CauseInv` says what holds between the turns.
Each client's status has its cause (`Due`), or the job under way is about to
lift it (`Lifts`: its reset has the client on its list, or awaits the command that
resumes it); what a job awaits to write has its cause already; and its list says
what the rows say (`Fresh`), since nobody else moves while it runs. A reset marks
its day as dealt with in the turn in which it reads its list, so from then on the
list is all that vouches for those still to be lifted. What the rollup drops stays
with `spent`, until the month whose quota it was is over.

For `Cascade`, `Turns` joins `IInv` of the addresses with two invariants. `PeersInv`
says what each command of a sync has achieved so far: after its write the file
lists the rows, after its reload the live peers are the active rows and those
it will still drop, each at its own address, and after one that failed unnoticed no
suspended peer is live but those it will still drop. It needs that only one handler
changes peers, which `Orderly` grants, and no more: failures and crashes in any place
leave `NoStolenIp`, and the next sync that gets through restores the rest. `RoutesInv`
says who answers for a difference: between rows and file a handler that has not
synced yet (`Owes`), between file and XRay one that is about to restart it.

The other arguments, each an invariant of its proof module:

- `RunsInv`: a job without a row was never armed, a trigger is there only before
  its helper, and a helper before the lock has not run. No verdict and no
  reconciliation takes a row away, so no job is armed twice.
- `HostInv`: a helper's last file is not written again, and boot ids only grow, so
  what an answer proves of the server (`Proves`) stays proved (`TruthStays`),
  however late it is judged. `TableInv` and `TicksInv`: a row says "rebooting" only
  of a file that says so for good, and a tick that judges has an answer that is
  sound for the row it read, though the row may have changed since (`Sound`).
- `BootsInv` joins these to `TypeOK` in `JobsInv`: boot ids are bounded by the
  reboots there can be, one for each job that rebooted and the unasked ones.
- `DoomInv`: whatever counts against a job (an old queue entry, a missed deadline,
  a dead unit seen twice, an answer that says so) is true only of a job whose
  reboot cannot happen any more. `FilesInv` ties the helper's stage to its file.
  `InTurn` and `RowsInTurn` say who may hold a tick (of B, only one behind a job of
  A, while the bot is up), that the row it read is
  still current, and that a job which was told is over; from them follow
  `TellsOnce` and, step by step, that the table only moves as `JobLedger` allows.
- `SwapInv`: a restore past its snapshot still has it, complete, because rotation
  keeps the newest and no later restore can begin; the bundle is in place only
  between the end of a process and the start of the next. The mutated order of
  `Files` breaks it at once.
- `BundleInv`: at most `Retention` bundles stay and none is of the future. A landing
  adds one at most, and rotation takes one only when `Retention` others come later
  (`Later`, of which any set of bundles has a first: `OldestOf`), hence the oldest
  and no other; so as many stay that are no older than what went, whenever it went.
- `TimerInv`: the armed timer is the first slot after the present one, which
  `NextSlotIs` proves of the arithmetic of `LastDueSlot` for every hour,
  interval and anchor; runs and restores exclude one another (`OneRun`), so nobody
  but the scheduled run itself leaves the timer unarmed.
- `RowsInv`: while the database is open, `backup_runs` has an open row exactly when a
  run is under way, so that a start always has one row at most to close.
- `SshInv`: the shared client is a connection that is up, and at most one reconnect is
  pending for each closed connection, since `close` comes once.
- `NoRestore`: where the run has the schedule in focus no bundle was ever staged, so
  each step of `BackupNext` is one of `RestoreNext`; it is what `EachOnItsOwn` needs.
- `HeldInv`: every token a rotation made was shown, or a handler holds it that will
  show it, or its link is recorded as dropped.
- `TappedInv`: a session that awaits a name holds what the last button said.
- `FreshInv`: the measurement that the cache tracks has read the machine, if at
  all, after the last invalidation.
- `CaughtUp`: once an edit is confirmed, nobody else wrote the row and no answer from
  before it is on its way to a screen that was closed, an answer in flight has read
  the row as it is, a fresh cache holds it, and an open screen that still loads has
  a GET in flight. So a screen that opens without asking has the row already.
- `UpgradeInv`: no start has lost anything (`NothingLost`), the rebuild runs with the
  keys off on a table without tokens (`RebuildSafe`), and what each step behind
  has brought about still stands (`StepsDone`), whatever transaction was cut off. A
  column is there or in `swallowed`; of these the rebuild and the index on tokens
  end the start where they miss one, so that only the traffic's can be missed.
- `OnceInv`: what the polls hold is the cardinality of a set of pairs, so that sums
  over any number of polls follow from theorems on finite sets. It adds to
  `CountedOnce` what holds if the reading a poll has in hand is recorded next, and
  that readings never exceed what was exchanged.

Only model-checked: liveness under fairness, which is out of the prover's reach
(the leads-to half of `MutexProgress`, `SuspendBites`, `PollEnds`, `JobsEnd`, `OverstayEnds`,
`ResetLifts`, `RestoreEnds`, `EveryCallerAnswered`, `AlertsFollow`,
`UpdatesTold`). Every type invariant, safety property and refinement that a passing
run checks is also a theorem.

## 6. Not modelled, and what is left

Not modelled, with the reason:

- provisioning (roles, playbooks): sequential scripts an operator runs; what they
  install is in `ProxyConfig` and `Maintenance`;
- `services/system.service.ts`, `ping.store.ts`, the log parsers, charts, QR codes,
  IP info, the assistant: observations parsed and rendered, no state that outlives
  a call but bounded rings of samples;
- the other menus, routes and screens: they render, or call an operation that is
  modelled with its service; authentication is a pure check of a signature;
- the text of `wg-clients.conf`, `config.json`, links and messages: data that no
  property tells apart;
- systemd's start limit and a proxy that refuses its configuration: the policy of a
  restart that keeps failing is systemd's, and the code has no answer to it;
- the servers' own traffic counters and the collection of client addresses in
  `traffic.worker.ts`: the first follow the rule of `Delta`, the second is a log;
- `expires_at` as text: `Lapse` is when the query sees it past;
- a command on Server A that takes effect after its caller went on is modelled for
  `systemd-run` only; in `WgPeers` it would break the convergence of A in ways the
  next sync repairs.

Left: a composition of `Alerts` with `JobLedger`, in which `muted` is no longer an
input; and a refinement of `Restore` by an abstract store that is either the old
database or the bundle.
