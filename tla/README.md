# A TLA+ model of srouter

srouter is a web dashboard for an Alpine Linux router: one Go process that
serves pages, keeps a few SQLite tables, rewrites the configuration of dnsmasq
and of the firewall, and runs `iptables`, `tc` and `rc-service`. Almost nothing
in it is protected by a lock: every HTTP request is a goroutine of its own, and
the state it changes is spread over a table, a file and the kernel (or another
service). What is hard to get right, and hard to test, is the order of those
accesses: two requests at once, a step that fails after others were done, a
service or a router that restarts between two of them. That is what these
modules are about.

Paths of Go files below are relative to `internal/` unless they start with
`cmd` or `web`.

## 1. Inventory

### Components, their state and their operations

| Component | Code | State | Operations | In what module |
|---|---|---|---|---|
| Reboot scheduler | `system/reboot.go`, `handler/system.go`, `cmd/main.go` | row `scheduled_reboot`; one-slot channel; the watch loop and its timer | schedule, cancel, reboot now, the loop, restart | `RebootSchedule` |
| Device blocks | `system/device_blocks.go`, `handler/dashboard.go` | table `device_blocks`; DROP rules in FORWARD; `70-device-blocks.sh` | block, unblock, firewall reload, boot | `DeviceBlocks` |
| Bandwidth limits | `system/bandwidth_limits.go`, `handler/dashboard.go` | table; `80-bandwidth-limits.sh`; marks, HTB classes, filters | set, delete, apply at start, reload | `BandwidthLimits` |
| Encrypted DNS | `system/doh.go`, `handler/doh.go` | row `doh_config`; stub configurations and services; servers and strict-order in `dnsmasq.conf` | toggle on/off, save configuration | `EncryptedDNS` |
| DHCP and DNS pages | `system/dhcp.go`, `system/dns.go`, their handlers | `dnsmasq.conf`, `reservas.conf`; what dnsmasq has loaded | range, upstreams, strict order, local entries, reservations | `DnsmasqFiles` implements `DnsmasqSettings` |
| Port forwards | `system/firewall.go`, `handler/portforward.go` | `50-portforward.sh`, which is also the table of the page | add, delete, apply, raw editor | `PortForwards` implements `PortForwardTable` |
| Custom rules | `system/firewall.go`, `handler/firewall.go`, `web/static/app.js` | `99-custom.sh`; the list each browser window shows | list, add, delete by place, raw editor | `CustomRules` |
| Log stream | `system/logs.go`, `handler/logs.go` | the tailed file; history per category; one channel per client; a mutex | tail, subscribe with replay, fan-out, leave | `LogStream` |
| Live dashboard | `handler/dashboard.go`, `handler/dashboard_broadcaster.go`, `web/templates/dashboard.html`, `web/static/app.js` | one channel per page; what the page shows; its open forms | tick, gather, publish, deliver, edit a row, load, "Check now" | `LivePages`, `WebServer` |
| Internet probe | `system/network.go` 181-222 | the cached answer and its age | read, ping in the background, forced ping | `LivePages` |
| Bandwidth sampler | `system/bandwidth.go`, `handler/bandwidth.go` | the last reading; one channel per page | sample, fan-out, subscribe, leave | `TrafficRates`, `WebServer` |
| Updater | `system/updater.go`, `handler/system.go`, `web/static/app.js` | cached status; the binary on disk; the restart script; the polling page | check, install, restart, poll | `Updater` |
| Sessions and login | `session/session.go`, `handler/auth.go`, `middleware/*.go` | rows of sessions with their expiry; buckets of the limiter | log in, check, log out, clean up | `LoginLimiter`, `Sessions`, `WebServer` |
| Other caches | `system/sysinfo.go`, `handler/dashboard.go` 85-103 | package list, time service, with their age | read, refresh in the background | no |
| Start-up and shutdown | `cmd/main.go` | the goroutines, the server | start, stop on a signal | `WebServer`; each goroutine in the module it belongs to |
| DNS statistics | `system/dns_stats.go` | counters over log lines | count, read | no |
| Database and migrations | `db/db.go`, `migrations/` | SQLite | open, migrate | no |
| Labels, Wake-on-LAN | `system/device_labels.go`, `system/wol.go` | a table, changed by single statements | CRUD, magic packet | labels as a source of `LivePages` |
| Readings of the system | `system/cpu.go`, `memory.go`, `disk.go`, `pppoe.go`, `interfaces.go`, `speedtest.go` | none | read and parse | no |
| Validation, rendering, configuration, mock | `handler/validate.go`, `util.go`, `web/render.go`, `config/`, `system/mock.go` | none | pure functions and wiring | no |

### How they interact

* Handlers call `system` functions directly; every request is a goroutine.
* Three channels of influence are asynchronous: the reboot channel
  (`rebootCh`), the subscriber channels of the broadcasters, and goroutines
  started at start-up (`cmd/main.go` 98-107: the watch loop, the bandwidth
  apply).
* Files are the interface to other programs. The firewall orchestrator runs
  `/etc/firewall.d/*.sh`, in order, at boot and when a page presses Apply
  (`system/firewall.go` 110-117), so blocks, limits, port forwards and custom
  rules all have a kernel state that is a function of a script as it was at
  some earlier moment. dnsmasq reads its files when it is restarted; encrypted
  DNS, the DHCP page and the DNS page all rewrite the same `dnsmasq.conf`.
* Nothing but SQLite survives a restart of the service; a boot of the router
  also keeps the files. The caches, the buckets of the limiter and the streams
  go with the process; the sessions, being rows, do not.

### What is hard, and what would make each component correct

* **Reboot scheduler** - interleaving and lost wake-ups: a save must never
  leave the loop waiting for an old time with nobody about to wake it; a saved
  schedule must eventually fire.
* **Device blocks** - three stores, no lock, ignored errors, a script that is
  truncated and then written: they must agree when requests are over, requests
  for different devices must not disturb each other, and a request must be able
  to heal what a failure left.
* **Bandwidth limits** - scripts of many commands that interleave, and that
  outlive the service: the kernel must end with the rates of the table, and an
  apply must repair anything.
* **Encrypted DNS** - some ten steps over four stores, each of which may fail,
  and files that are empty between two of them: the user's plain servers must
  come back, and names must go on resolving.
* **dnsmasq files** - read, truncate, write without a lock; check, then append:
  a request must change its own section and nothing else, duplicates must not
  get in, and dnsmasq must end up with the last contents.
* **Port forwards, custom rules** - a script used as a database: deleting by a
  comment or by a place in a list must hit the rule it was meant for, though the
  list is old and the file is read and written back without a lock.
* **Updater** - the program replaces itself, restarts itself and reports success
  from a page that can only ping: it must come back, as the release that was
  asked for, and say so only then.
* **Log stream** - replay meets live lines, slow clients, a bounded channel
  filled with the mutex held: nothing lost, doubled, or locked for ever.
* **Live dashboard, internet probe** - answers, snapshots and pings that overtake
  each other: the page may be wrong for a while, and must not stay so.
* **Bandwidth sampler** - differences of unsigned counters over interfaces that
  come and go: what the page is sent must be traffic.
* **Sessions and login** - a fixed window with a clock read outside the lock; an
  expiry compared in three places with a clock that may be set: nobody in for
  longer, or shorter, than the TTL.
* **Start-up and shutdown** - streams that nothing closes: the process must end,
  and its pages must find their way back to the next one.

`PROJECT.json` lists the hazards one by one, each at its line.

## 2. Conventions of the modules

* One action per access to a store where operations interleave; one per
  operation where they do not.
* **Environments.** Several modules have a constant `Environments`, a set of
  sets of mishaps (overlapping requests, failing steps, reloads, reboots, uses
  the page does not foresee), and a variable `may`, a member of it that is
  chosen in `Init` and never changes. A property names the environments it is
  claimed for, so that one run asks every question of the module, each in the
  behaviours that matter to it. `DnsmasqSettings` and `PortForwardTable` have a
  constant-in-time variable (`calm`, `byHand`) for the same purpose: they
  promise nothing outside the behaviours they are about.
* **Time** is abstracted: a timer that is armed may expire at any step.
* **Data** is abstracted to model values. Input validation is taken as done:
  the values that operations are called with are valid ones.
* `os.WriteFile` truncates a file and then writes it, and is two steps wherever
  somebody may read the file between them, or the second may fail: in
  `DeviceBlocks`, `BandwidthLimits`, `EncryptedDNS`, `DnsmasqFiles` and
  `CustomRules`. What is written in part is whole lines.
* A statement of SQLite is atomic. A row that the database refuses to change
  ends the handler with nothing changed, and is modelled only where something
  was done before.
* Operators marked as plausible bugs, next to the definition they could
  replace, are not part of a model; they show that a property is sensitive to
  the code it talks about.

## 3. The modules

### RebootSchedule

`schedule` is the row, `wake` the number of messages in `resetCh` (capacity 1),
`loop` and `armed` the position of `RebootWatchLoop` and its local `tod`,
`request` where each handler is, `power` whether a reboot command has
succeeded. `handler.schedule` is two actions (save, then signal: lines 78-101),
`cancelSchedule` too, in the opposite order (103-115). The loop reads the row
(`ReadSchedule`), then takes its branch (`Wait`): what the row becomes in
between is what wake-ups are for. `Restart` resets everything but the row.

* `NoLostSave` - the one-slot channel with its non-blocking send loses no save.
* `SavedIsArmed`, `ScheduledRebootHappens` - a saved time is armed, and fires,
  through restarts and concurrent requests, unless the user replaces it or the
  loop gives up (`GaveUp`: after a query that failed it waits for the next save
  only, reboot.go 53; after a reboot command that failed it is gone, 68). The
  next save does wake it (`Due`), whatever parked it.
* `InSyncWhenQuiet` is what the comment at reboot.go 48 implies, and the run
  `reboot_cancel` shows it violated: the cancel handler signals before it
  deletes.

*Fairness.* Goroutines are scheduled (weak fairness of the handlers' and the
loop's steps) and a machine that was told to reboot comes back. The timer needs
strong fairness: a wake-up or a restart disarms it, but the loop arms it again
for the same wall-clock moment, so they cannot put it off for ever; and a
restart does not always strike between the query and the wait, or between the
timer and the command.

### DeviceBlocks

`blocked` is the table, `rules` how many DROP rules each device has in FORWARD,
`script` the devices in the script. A request goes through row, iptables,
listing the table, truncating the script, writing it. `-D` deletes one rule;
`InsertRule` inserts one whether or not the row was new; iptables errors are
dropped. `WriteFails` leaves any part of the rows in the script, as they come in
the order of a Go map; lines another request wrote since the truncation may
survive behind a shorter text (`Written`).

* `InSyncWhenIdle` (**proved**) - one click at a time and nothing failing: the three stores
  agree, through reloads and boots.
* `RulesFollowRows` - overlapping requests for different devices never disturb
  the rule of a device they are not about (**proved**). It says nothing of the
  script.
* `ScriptHeals` (**proved**) - without overlap, whatever failed or was cut short
  before, a write that succeeds leaves the whole table in the script, and one that
  does not leaves less, never a device that the table lacks.

Known outside these environments: a double click on Block, or a page that is
out of date, leaves a second DROP rule that unblocking does not delete; two
overlapping requests may leave the older list in the script; a router that
boots between the row and the script, or that boots or reloads its firewall while
the script is truncated, lets blocked devices through until the next request (and
reload). Enlarging the environments a property names shows each in a few steps.

### BandwidthLimits

`rows` is the table, `file` the commands in the script file, `kernel` the chain
BWLIMIT, the classes and the filters; `Script(limits)` is the sequence of
commands `generateBandwidthScript` writes and `Exec` what each does to the
kernel. An apply lists the table, truncates and writes the file and runs its
commands one by one; applies interleave, in the slots `Applies`. The service
starts with an apply of its own (`StartUp`, `cmd/main.go` 98-107). `Restart` is a
service that dies and starts again: the shell it had started is another process
and goes on beside the new apply ("orphan"), and handlers end wherever they are.
`Reboot` ends the shells too, and runs whatever the file holds on an empty
kernel. The jump from POSTROUTING to BWLIMIT, the same in every script, is left
out.

* `InSyncWhenIdle` (**proved**) - applies one at a time, through boots at any
  command and a service that dies while no script runs, its file being truncated
  or not yet run: table, script and kernel agree once nothing runs. The kernel
  gives a device of `Shaped` its rate and every other the full line.
* `LoneApplyRepairs` (**proved**) - an apply that completes and beside which
  nothing else ran, no orphan either, leaves everything right, whatever was there
  before.
* Of the promise at bandwidth_limits.go 135-136, that a device keeps its class
  while its row exists, half holds and is **proved**: devices with later MACs do
  not renumber it. A device with an earlier MAC does.

Known: overlapping applies may leave a limit that the table does not have; so
may the start-up apply and the shell that a killed service left behind, whose
commands interleave (with "orphan" added to its environments, `InSyncWhenIdle` is
violated). The comment at bandwidth_limits.go 25-26 takes class 30 to be reserved, but class
numbers are decimal and count from 10, so the 21st device gets it: its `tc class
add` fails, the class being there, and the device is not limited. `Shaped` leaves
it out, the instance makes the second device the one that meets the default
class, and `FewDevicesAllShaped` (**proved**) says that up to 20 limited devices
all get their rate.

### EncryptedDNS

Requests run one at a time here (how they overlap on the file is the subject of
`DnsmasqFiles`): enabling, disabling, and the DNS page's save, which shares
`SetUpstreamServers` with the other two. A request is a walk through labelled
steps (`Follow`, in the order of doh.go 240-309 and dns.go 39-63); each file is
truncated in one step and written in the next; each step may fail and end the
request, a write may leave the first of its lines, and the router may boot
between any two steps. `cfg` is the row with its stash, `conf`/`loaded` what
`dnsmasq.conf` says and what dnsmasq has read, `file`/`running`/`boot` the stubs,
`job` the request. Histories: `plain` is the list the DNS page wrote last,
`behind` whether the restart after it was refused.

* `PlainRestoredAfterFailures`, `StashKept` (**proved**) - if the pages are used
  as meant (`UsedAsMeant`), no failing step and no boot loses the user's servers,
  but what comes between the truncation of `dnsmasq.conf` and its write
  (`WritesComplete`). A restart that is refused after the DNS page wrote the file
  leaves dnsmasq with the old list, and the file with the new one.
* `EncryptedInOrder` (**proved**) - what dnsmasq has loaded when nothing fails:
  stubs first, strict order, plain servers last and only if wanted, stubs running.
* `SomeServerAnswers` (**proved**) - with the fallback: dnsmasq has a server that
  answers at any time, in the middle of a request too, with the same exception.
* `CompletionRepairs` (**proved**) - with the fallback and without any exception:
  a request that runs to its end leaves dnsmasq with a server that answers,
  whatever was cut off before.
* `PlainRestored` is the claim of `web/templates/doh.html` 214 without
  conditions; the run `doh_reapply` refutes it: `toggle` builds its row without
  the stash, so applying twice with the fallback off loses it.

Known: a write that fails, or a boot, right after `dnsmasq.conf` was truncated
leaves it without servers: dnsmasq resolves nothing from its next start on, and
the next enabling finds nothing to stash, so that disabling brings back the
defaults (1.1.1.1, 8.8.8.8) or an old stash, not the user's servers. Applying "off"
while off replaces the servers by an old stash; a configuration without servers
gets the defaults; a stub that runs keeps its old provider; a `dnsmasq.conf` that
cannot be read stashes nothing. The DNS page accepts an empty list and the stubs'
own addresses ("oddList" among the circumstances), which cannot be stashed and
come back as the defaults or not at all. A restart of dnsmasq that `rc-service`
refuses leaves the old one running. A stub whose configuration was cut off counts
as having none, and a line of `dnsmasq.conf` is written whole or not at all.

### DnsmasqSettings and DnsmasqFiles

`DnsmasqSettings` is what the pages promise: every request changes its own
section in one step, and nothing else. `DnsmasqFiles` is what the code does:
read, truncate, write, restart; or check, append, restart. Encrypted DNS changes
two sections in turn: enabling writes the servers, restarts, writes strict order
and restarts again (doh.go 277-283); disabling removes strict order *without* a
restart, then goes on to the servers, restarts, saves its row and restarts once
more (295-308). `op.of` says which part of that a request is at. A file is a set of
lines; the `server=` lines, always replaced together, are one line.
`ImplementsSettings` is the refinement: a file that a request has truncated
still stands for the lines the request has read (`Current`), so that the change
takes effect at the write.

* `ImplementsSettings` (**proved**) in behaviours without overlap and not cut
  short between truncation and write; other steps may fail.
* `NoDuplicates` (**proved**) without overlap, whatever fails and whenever the
  router boots.
* `LoadedWhenIdle` (**proved**) - with overlap, the toggle included: the last
  restart comes after the last write, unless a write or a restart fails, or
  disabling ends after its first change (`LeftUnloaded`: the second cannot read or
  open the file).

Known: an encrypted DNS that was switched off half way leaves a changed file that
is not loaded; with overlap, both of two requests that add the same name may pass the
check, and a page that reads a file between another's truncation and write
writes back a file without the other sections. After overlapping writes, lines
beyond the end of the later write may survive; the model lets any subset do so,
which is more than the file system can.

### PortForwardTable and PortForwards

The table the page promises, and the script that is the table. A file is a
sequence of lines: `# PF:` comments, iptables commands, blank lines.
`DeletePortForwardRule` is the fold of one operator over the lines (`ScanLine`,
firewall.go 230-246), with the blank line before a removed comment removed too.

* `ImplementsTable` - over all sequences of adds, deletes and applies, deleting
  a name removes its rows and their commands only, and Apply puts in force three
  commands for each row.
* `OthersKept` - with rules written in the raw editor, with or without a comment,
  at either end: deleting leaves other names' lines in place, when hand-written
  rules have at least three commands. (With fewer, the missing ones are taken
  from the rule below: `Hands = {{1}}` shows it once the property's condition is
  dropped.)

### CustomRules

Browser windows list rules and delete by place; the place is counted over the
rules the page could parse and, when deleting, over every iptables command. A
window is not reloaded while it waits, and nothing keeps its user from asking
again. A request is cut at each access to the file: a deletion reads it,
truncates it and writes the lines it keeps; an addition looks whether the file is
there, creates it (truncating what another has created meanwhile) and appends.
The answer reads the file again. `got` is what a request has read, `lone`
(history) whether nobody else changed the file since.

* `DeletesRuleAsCounted` (**proved**) - whatever overlapping requests, failures and
  hands have done to the file: a deletion that nobody disturbs between its read and
  its write, from a window that is right about its row, removes that line and no
  other, if no other kind of command stands above.
* `SparesOlderRules` (**proved**) - requests one at a time on the file, each of
  which may fail or be cut short at any access: a stale place may hit a newer rule,
  never an older one.

Known: with overlap, the later of two deletions brings back the rule the first
removed, and drops what was added in between; of two first additions the second
may create the file over the first one's rule. After that a stale place may hit
an older rule, which is why `SparesOlderRules` is about requests one at a time. A
stale place does hit the next rule; a policy or a flush above shifts the count; a
deleted rule leaves its comment; a file that cannot be read is shown as an empty
list. The raw editor is modelled as inserting one command of another kind while
no request works on the file; the line that `O_APPEND` adds is written whole.

### LogStream

Lines are numbers in the order of writing. `run` is `Open` and `ReadLine`;
`Subscribe` replays the history into the new channel with the mutex held, which
blocks for ever if the channel is too small (`locked`); `Receive` is the loop of
`sseStream`. `short` and `since` are history variables. `Rotate` and `Write`
stand for syslogd; `Stop` is never called by the program and is left out.

* `PageIsComplete` (**proved**) - no gap between replay and live lines, for every
  client whose channel has had room.
* `NoLineTwice` (**proved**) - no repetition, nothing unasked for, in order within
  a category, even when lines are dropped.
* `NeverBlocksWithLock` (**proved**) - what is kept of a category always fits.
* `LineReachesReader` - a line in the file that is tailed reaches every client
  that takes what it is sent, whatever a stuck client does.

*Fairness.* The goroutine polls for ever, and a client outside `Stuck` takes
what it is sent. Nothing is assumed of syslogd or of stuck clients.

Known: after a rotation the stream ends in silence, as the old descriptor stays
open (the property speaks of the lines of the file that is tailed); the first
line is discarded even when it is whole. A line read while it is being written,
and the reconnection of the browser, are not modelled.

### Updater

`latest` is what GitHub has; `status`/`fresh` are the cached answer and whether
its five minutes are running; `check` and `job` say where each check and each
install is, and a job goes on as the script the install spawned. `procs` are the
srouter processes: "up", "term" (told to end, still answering), "draining"
(listener closed, in `srv.Shutdown`). `binary` is the file that was installed,
`marked` what OpenRC believes, `page` the tab that polls `/ping`. Releases are
numbered in order; a release without the asset counts as none, and a program
that is not what was released (`None`) does not run. `Exit` and `Crash` end the
install goroutines of their process, and not its scripts; `Forget` is what a new
process knows. The cached status of a process that no longer listens cannot be
used, so `Shutdown` forgets it already.

* `InstallsNoOlder` (**proved**) - checks that overtake each other may put an
  older release back, but never one older than the program that runs. It rests on
  the latest release only growing: the code takes any release that *differs* from
  its own for an update (updater.go 316), so after a release is withdrawn the page
  offers the one before it.
* `RunsWhatIsInstalled` (**proved**) - the program that serves is the one on disk when
  nothing is under way, through failures, crashes and boots.
* `SuccessMeansUpdated` (**proved**) - the page's "Update complete" follows a restart into
  another process, with the release it asked for.
* `ServiceComesBack` - overlapping restart scripts signal, zap and start over
  each other, and yet the service always serves again.

*Fairness.* A script runs on (`kill -0` is a poll), and a process that was told
to end does, within the five seconds of `srv.Shutdown`: weak fairness of both.
Nothing is assumed of checks, downloads, users or GitHub.

Known outside these environments: if the script cannot be spawned, the old
program runs on over the new file until something restarts it; an overlapping
install of an older release may end last; a ping that takes more than a second
makes the page report success while the download still runs; after an install
that fails, or an outage that falls between two pings, the page waits for ever
(no property says that it ends). Without checksums a corrupt download is
installed and the service does not start again. OpenRC is external: `start` does
nothing when the service counts as started, and `zap` makes it count as stopped.
The temporary file and the development mode are left out.

### LivePages

A snapshot (`gatherData`) is eleven goroutines, each reading one source at a
moment of its own. A source is known by how often it has changed (`version`),
and a reading by that number, so that an old row can be told from a new one.
`stage`/`got` say where each gatherer is (the loop of the broadcaster, and each
request) and what it has read; `channel` is the subscriber's channel of the one
page, `page` and `form` what the browser shows, `stream` its EventSource.
`SetRow` stands for the six handlers that change a row (the statement, then the
gathering, then the row in the answer; what blocks and limits do to the kernel
is in `DeviceBlocks` and `BandwidthLimits`), `ShowDashboard` for loading the
page, `CheckInternet` for the button "Check now". `Answer` puts the result on
the page: a row where the row is, *if it still is there* (a device may have left
the ARP table, and then the server answers with nothing).

The probe: `cache` is the answer and whether it is younger than its 60 seconds.
Whoever finds it old starts a ping, without looking whether one is under way;
`pings` counts them by how far they are, as they are all alike.

* `NeverBackInTime` (**proved**) - what the *stream* shows never gets older,
  through reconnections and restarts.
* `PageCatchesUp` - late answers and dropped snapshots may put an old row on the
  page; the stream puts it right.
* `ForcedAnswerIsFresh` (**proved**) - "Check now" answers with a state of the network since
  it was pressed, if no other ping was under way.
* `InternetShownRight` - and in the end the page shows the state of the network,
  though stale pings may overwrite newer ones and the cache starts as connected.

Known: the answer of a request may put the row back to what it was before
another window's change, until the next tick; snapshots are sent as a whole but
gathered source by source, so that one row may mix two moments. The comment at
network.go 202 says that the first call returns false; the cache starts as *ok*
(191), and it returns true. A "Check now" pressed while an older ping is under
way may answer with that one's result. A source whose query fails reads as empty
for one snapshot; that is not modelled.

### TrafficRates

`counter` is the kernel's, `prev` the sampler's last reading, `moved` and `fate`
(histories) what an interface has carried since the last tick and what has
become of it. A reading may fail, and is then empty (bandwidth.go 113-119).

* `RatesAreTraffic` (**proved**) - what the page is sent is what was moved, through counters
  that wrap, failed readings and interfaces that come and go.

Known: an interface that is removed and created again between two ticks keeps
its name and gets an unsigned difference that means nothing, up to 2^64 bytes;
the property leaves it out. A page with more than four interfaces loses samples
at every tick, as the channel holds four (49).

### LoginLimiter

An attempt reads the clock (`Arrives`) before it gets the mutex (`Allow`), up to
`MaxDelay` later: an assumption about the scheduler, not a bound of the code.
`passed` (history) is when each host was let through.

* `AttemptsBounded` (**proved**) - of 2 x limit + 1 attempts that pass, the last
  comes more than a window after the first, up to `MaxDelay`. The comment at
  ratelimit.go 22 says "at most limit per window"; around the end of a fixed
  window that is twice the limit.

### Sessions

Rows with `expires`, a browser with a `cookie`, a wall clock that goes on or is
set. Reading and clean-up compare with `>` and `<`; the browser drops its cookie
by a clock of its own. `issued`, `peak` (the latest the clock has shown since the
login) and `out` are histories.

* `ValidExactly` (**proved**) - a session is let in until TTL after its login,
  not longer and not shorter, unless it was logged out; one whose end the clock
  had passed may have been cleaned up and does not come back when it is set back.

Known: a stream is authorised when it is opened, and outlives logout and expiry.
A request without a session is redirected to the login page, which answers 200:
`fetchReplace` puts it where the row was, `fetchToast` says "Done" (app.js
92-113).

### WebServer

The four modules in one process. `phase` is "serving", "draining" (told to end:
listener closed, in `srv.Shutdown`), "late" (its five seconds are over) or
"down". `Ends` is what the process loses, `Start` what a new one begins with.
Each `Pages(A)`, `Traffic(A)`, `Limiter(A)`, `Browser(A)` is a step of one part;
a login takes the limiter's steps and then one of the sessions'. Pages are
loaded and streams opened only with a session `RequireAuth` finds; a stream that
is refused is "failed", as an EventSource that is sent a page does not retry.
`RequireAuth` refuses for want of a session, and also when the query for it fails
("query"; middleware/auth.go 19), as the database is opened without a busy timeout.

* `PageSurvivesRestarts` (**proved**) - a stream is refused only for want of a
  session or after a query that failed, never because of a restart, a crash or a
  clock that is set by less than the TTL.
* `ShutdownEnds` - the process ends though nothing closes its streams. (The
  comment at main.go 199 says that `i.Shutdown()` does; no service has a
  `Shutdown` method, so an open stream costs the five seconds.)
* `SpecImplementsParts` (**proved**): a behaviour of `WebServer` is one of each
  part; so what is proved of a part holds of the process.

*Fairness.* Goroutines run; a ping ends (`-W 2`); the TTL of the cache and the
deadline of `Shutdown` pass; the browser reads what it is sent, and reconnects.
Nothing is assumed of users, the network, clocks, or the process starting again.

Known: one query for the session that fails while a page reconnects sends its
stream to the login page, and the page stays without live data until it is
loaded again.

## 4. The runs and their bounds

| Run | Instance | Distinct states | What it shows |
|---|---|---|---|
| `reboot` | 2 requests, 2 times, failing query and command | 1 208 | no save is lost; the saved time is armed and fires |
| `reboot_cancel` | 1 request | violation | cancel signals before it deletes |
| `blocks` | 3 requests, 3 devices, 2 rules each, 3 environments | 26 900 | agreement, independence and healing |
| `bandwidth` | 2 applies, 2 devices, the second on the default class, 2 limits, 3 environments | 288 000 | agreement and repair |
| `doh` | 2 providers, one without https; 4 lists, 2 of them odd; both stubs; 5 environments | 2.51 million | servers restored, order, resolution, repair |
| `doh_reapply` | 1 provider, 1 list | violation | the stash is forgotten |
| `dnsmasq` | 2 requests, 2 ranges, 2 MACs, 2 addresses; 4 environments | 1.97 million | refinement, no duplicates, what is loaded |
| `forwards` | 2 names, files up to 15 lines, with and without hand-written rules | 58 000 | refinement and independence |
| `rules` | 2 windows, 2 requests; failing, with 3 rules; overlapping, with 2 and a command by hand | 1.25 million | the right rule goes, and no older one |
| `updater` | 2 installs, 2 checks, 2 releases, 4 processes; 4 environments | 332 000 | no downgrade, what runs, what the page says, recovery |
| `logs` | a reader and a stuck client, 2 categories, channels of 2, 3 lines | 81 000 | completeness, order, no lock, progress |
| `server` | 1 page, 1 row source, 1 request, 2 pings, channel of 1; 2 interfaces; 2 attempts in flight, limit 2, clock of 7 readings; 2 sessions; 7 environments | 598 000 | the properties of `LivePages`, `TrafficRates`, `LoginLimiter`, `Sessions`, `WebServer` |

Why the bounds are enough. The races of this code are between two requests and
one loop: two slots show each pair (three for blocks, so that a third device is
about while two are in flight; two applies, one of them the start-up's, as a
restart needs a slot that no orphan holds). Two times, lists, limits or names make a stale
value differ from a current one; two MACs and two addresses let a reservation
clash on either. Three rules are the fewest in which a stale place may hit the
row above, the row itself or the row below while one deletion waits and another request
changes the file; with overlap, two rules are enough for one deletion to bring
back what another removed. Three port-forward rules fit in a
file, so a deletion has a neighbour on both sides. A channel of two with three
lines can be full, and a history of one line is trimmed at the second. Bounds
that are not in the code: `MaxRules` (DROP rules per device), `MaxAdded` (custom
rules ever added), `MaxLines` (file length; lines ever written),
`MaxVersion` and `MaxStarts` (releases, or changes of a source; processes started), `MaxPings`,
`MaxClock` and `MaxWall`. In `server`, two changes let an answer be older than
the page and a snapshot newer; a channel of one (the
code's holds two) drops the snapshot that comes while one is on its way; two pings and the forced one may store their
results in any order; five attempts with a limit of two and a window of two ticks
need three windows, which open at the readings 0, 3 and 6: the last of the clock's
seven; counters modulo 3 wrap,
and a TTL of one second ends within a wall clock that shows 0 to 2. Four starts are two installs on top
of a boot or a failed attempt. `updater` does not check deadlock: a service that
crashed stays down until the router boots, and the bounds end behaviours; nor
does `server`, whose process may be down for good.

Symmetry is used over requests, devices and windows in runs without liveness
properties.

## 5. Proofs

Checked by TLAPS, for every value of the constants that satisfies the named
assumption of the module:

| Module | Theorem | Argument |
|---|---|---|
| `RebootSchedule_proofs` | `TypeCorrect`, `NoSaveIsLost` | `NoLostSave` is inductive together with the type invariant: a save leaves its handler in "saved" until it has signalled, a signal fills the channel, and only the loop, which then reads again, empties it. |
| `Firewall_proofs` | `RulesAlwaysFollowRows` | Inductive invariant `Followed`: with at most one request per device, a device in "insertRule" has no rule yet, one in "deleteRule" still has one, and every other matches its row. The implication from `may` makes it unconditional. |
| | `ScriptAlwaysHeals` | `Serial`: one request at most is past its row, the list it holds is the table, which nobody changes until it has written it, and the script is empty from its truncation to its write; so a whole write leaves the table, and a part a part of it. |
| | `InSyncAlwaysWhenIdle` | `Calm`: with nothing failing either, the script is the table but for the request under way, and a reload or a boot that falls between two requests brings back the rules the rows ask for. |
| | `RightRuleDeleted` | `Undisturbed`: a request that nobody disturbed since its read finds the file still empty when it writes. Two counts of places agree where no other command stands above: both number the elements of a finite set of lines (`Places`, `NthOf`). |
| | `OlderRulesSpared` | `Ordered`: without overlap one request at most works on the file; what it holds, and what that request has read, are rules in the order in which they were added, and at most as many rules older than a given one are left as stood above it when its place was shown (`NotBehind`), in the windows and in the deletions on their way, also after a write that was cut off. So the rule a place hits has at least as many older ones as the rule that was meant. |
| `BandwidthLimits_proofs` | `ClassIDsDistinct`, `ClassIDStableAgainstLaterDevices`, `InstalledClassesInRange` | From the cardinality of the set of limited devices with an earlier MAC, for any finite table. |
| | `LimitsTypeOK` | The type invariant, with every mark in the range of the classes; that it holds after the orchestrator ran any commands the file may hold is the lemma on `RunAll`. |
| | `KernelFollowsTable`, `ApplyRepairs` | `ScriptForm`: the commands of a script are in an order and leave no device out. `Built`: so the marks, classes and filters after each command are known, whatever the kernel held before. `Tracked`: an apply that nothing overlaps is the only one, its snapshot is the table, the file is empty from its truncation to its write and then its script, and the kernel is `Built` as far as its script has run. |
| | `FewDevicesAllShaped` | A device's place among the limited ones is less than their number. |
| `DnsmasqFiles_proofs` | `TypeCorrect` | Inductive invariant: the type invariant, strengthened with where the lines of a rewrite belong. |
| | `NeverDuplicates` | `SerialInv`: without overlap at most one request is in flight, an append has just been checked, and what a rewrite has read is free of duplicates. |
| | `FilesImplementSettings` | `RewriteInv`: between read and write, nobody else has changed the file, so what was read is still what the file stands for; every step is then one of `DnsmasqSettings` or a stutter. |
| | `AlwaysLoadedWhenIdle` | `LoadedInv`: whoever changes a file stands at its write or its restart until a restart, of any request, reads both files; after the first change of disabling it stands at its second, which without `LeftUnloaded` it reaches. |
| `EncryptedDNS_proofs` | `PlainServersComeBack`, `StashIsTheUsers` | `Meant` follows the request through its steps: the row that is saved, or on its way, holds the user's servers (`KnowsPlain`), which row is stored at which step (`RowFollows`), and what the file, or the text about to be written to it, holds with the row on (`OnIsBuilt`), with the row off (`OffIsPlain`) and while disabling (`GoesBack`). |
| | `StubsAskedFirst` | `Calmly`: every step before the one the request is at has had its effect, and none undoes an earlier one, as a stub is configured before it is started and the last restart comes after the last write. |
| | `NamesKeepResolving`, `CompletedRequestsRepair` | `Answering`: with the fallback the row, and the one on its way, stand for a list with a plain server, as an empty stash stands for the defaults; so the text with new servers has one, and the file from then on to the end of the request (`PastServers`), which is what the last restart loads. If no write is cut off, every list that is kept anywhere has one. |
| `LogStream_proofs` | `LockAlwaysFree` | `HistoryBounded`: trimming keeps at most `HistoryPerCategory` lines of a category, and the capacity formula is at least that. |
| | `PageAlwaysComplete`, `NeverLineTwice` | `Kept`: the history of a category is its latest lines in order, each with as many of the category after it, read so far, as there are behind it in the history. `Shows`: what a client has been sent repeats nothing and is part of what it is due, all of it unless its channel was full; a replay has this by what `Kept` says, whatever order the categories come in, and every later line keeps it. |
| `Updater_proofs` | `UpdaterTypeOK` | The bound on starts is only about the instance: `Room`, an invariant, has a start left for every install under way, so a restart always finds its number. `OneServes`: OpenRC starts a process only when nothing listens. |
| | `NeverInstallsOlder` | Inductive invariant: a process runs a release that was out when it started, nobody knows anything while no process serves, so whatever a check is told, stores or hands to an install is at least as new as the process. |
| | `AlwaysRunsWhatIsInstalled` | `Alone`: one job at most, of the process that serves, and that process is the program on disk unless the job is past its renaming; a job that ends there takes its process along, or starts the new program. |
| | `SuccessAlwaysMeansUpdated` | `PageInv`: whoever serves after an unanswered ping started after the request. `OnlyUpdates`: if only checks fail, the service is away for a script alone, and the release the page asked for is on disk or still on its way there; with `NeverInstallsOlder`, the renaming never replaces it by an older one. |
| `WebServer_proofs` | `AttemptsAlwaysBounded` | `LimiterInv`: an open bucket holds the last `count` attempts of its host, the first of which came at most `MaxDelay` after the reading that set the end of the window, and at most `Limit` of them. The reading that opens the next window is beyond that end, so whatever lies `Limit` places before the opening attempt is more than a window, less the delay, older; an attempt `2 * Limit` places later has an opening one in between. |
| | `SessionsAlwaysExact` | `SessionsInv`: a row that is neither there nor logged out was cleaned up, so the wall clock has been beyond its end. |
| | `PagesNeverGoBack` | `PagesInv`: the type invariant, and for every source shown <= on its way, in order <= read by the broadcaster <= now. |
| | `ForcedAnswersAreFresh` | `Fresh`: a request that was pressed with no ping under way has kept every state of the network since, and what any ping, the cache (once its own result is stored) and its answer say is one of them. |
| | `RatesAlwaysTraffic` | `TrafficInv`: the counter of an interface that stayed is its last reading plus what it has moved, or that less `Modulus`; the queue holds such samples only. Assumes finitely many interfaces. |
| | `SpecImplementsParts`, `ServerKeepsParts` | Every disjunct of `Next` is a step of one part, or of several at once, or leaves them all alone; the specifications of the parts follow, and with them the theorems above for the whole process. |
| | `PagesSurviveRestarts` | Only a refusal ends the stream for good; it comes after a query that failed, or by `SessionsInv` of a session that has been logged out or has run for its TTL. |

Model-checked only: liveness (`SavedIsArmed`, `ScheduledRebootHappens`,
`LineReachesReader`, `ServiceComesBack`, `PageCatchesUp`, `InternetShownRight`,
`ShutdownEnds`), which is out of the prover's reach; and `PortForwards`,
whose scan of the file is a fold and whose table is a `SelectSeq`.

What a loop of the code computes is written in `BandwidthLimits`, `EncryptedDNS`
and `LogStream` as a function of the index (`RunAll`, `PlainOnly`, `Joined`), and
in `CustomRules` by counting places (`Before`, `Nth`), never with `SelectSeq` or a
fold, about which the provers know nothing. Facts on such a function are proved
by induction on the set of indices where they hold (`UpTo`, from the
well-foundedness of the order on the naturals, which needs no operator as a
parameter).

## 6. Plan

What is left, in the order of what it would show.

1. *Compose.* Encrypted DNS over the overlapping rewrites of `DnsmasqFiles`; the
   firewall reload with every script it runs; several pages on one broadcaster.
2. *Prove more.* `OthersKept`, then `ImplementsTable`: with the scan of
   `DeletePortForwardRule` as a function of the line number, and the invariant that
   the three lines after each comment are commands of its rule.
3. *Model more.* Fetches of a page whose session has ended; the reconnection of
   the log page; the read-only pages' requests.

## 7. What is not modelled, and why

Readings of the system are pure I/O; rendering, validation, parsing of log lines
and configuration are pure functions, and the mock of the development mode
returns constants (`system/mock.go`); waking a device is one packet; SQLite and
its migrations are taken as given, and so is PAM. DNS statistics are one more
reader of log lines: they count (a query that is answered from the cache twice,
as its two log lines match), and nothing depends on the counts. The package list
of the dashboard is a cache like that of the probe, whose failed refresh blanks
the list for five minutes; nothing else reads it. In `PROJECT.json` these
components are *not modelled*, or *partly* where a module has a part of them.
