# ai-usage: a TLA+ verification project

`ai-usage` is a daemon (`usaged`, Go) that polls the usage limits of AI providers, serves them over
HTTP to a dashboard, a command line and a mirror, and sets up and feeds a small desk display (a
StickS3, C++ firmware) over Bluetooth LE and Wi-Fi. This directory holds TLA+ modules of the parts
of the system whose correctness depends on the order of events, the TLC runs that check them and
the proofs TLAPS checks.

Contents: 1 the system, 2 modules, 3 correspondence with the code, 4 runs and bounds,
5 disagreements, 6 proofs, 7 what is not modelled, 8 plan.

## 1. The system

| part | state it keeps | operations | talks to |
|---|---|---|---|
| Scheduler (`internal/sched`) | snapshot, cooldowns, last-good blocks (`State`, under `mu`), fetcher list, order, interval, `pollMu` | `PollOnce`, `Refresh`, `SetFetchers`, `SetProviderOrder`, `SetInterval`, `Current`, `LoadState`, `publish`, `scanStats` | fetchers, state file, API handlers, mirror |
| Snapshot (`internal/snapshot`) | state file | `Apply`, `Rev`, `Save`, `Load` | scheduler |
| Fetchers (`internal/providers`) | cached user agent | `Fetch` | providers' HTTP APIs, key stores |
| Ranking (`internal/advise`) | none | `Rank` | scheduler, `/v1/advise` |
| API (`internal/api`) | device tokens, setup run, access log | the routes of `server.go` and `setup.go` | scheduler, provisioner, dashboard |
| Configuration (`internal/config`, `internal/api/server.go`) | `config.yaml`, `Server.cfg`, the scheduler's interval, order and fetchers, the keychain | `Load`, `PUT /v1/config`, `PUT /v1/config/interval`, `POST` and `DELETE /v1/keys`, `rebuildFetchers` | scheduler, keychain, the owner's editor |
| Transcript statistics (`internal/stats`) | index and report, in memory and in files | `Scan`, `SaveIndex`, `SaveReport` | transcripts other programs append to |
| Setup (`internal/api/setup.go`, `cmd/usaged/bleprov.go`, `internal/bleprov`) | one setup run, the radio, the token store | `scan`, `provision`, `stop` | the device over BLE |
| Device, provisioning (`firmware/src/usage/bleprov.cpp`, `hal/sticks3/bleprov.cpp`) | record decoder, phase, NVS record | GATT writes, `bleProvUpdate` | the central, Wi-Fi |
| Device, fetching (`firmware/src/main.cpp`, `usage/freshness.cpp`) | last snapshot, age, poll interval, failures | `doFetch`, `doDeviceRefresh`, sleep and wake | `/v1/usage`, `/v1/refresh` |
| Device, lifecycle (`usage/provision.cpp`, `hal/sticks3/portal.cpp`, `net.cpp`) | join state, back-off, portal | boot, join, portal save, loss of Wi-Fi | Wi-Fi, the owner |
| Discovery (`internal/mdns`, `hal/sticks3/discover.cpp`) | joined interfaces, their sockets and goroutines | `Start`, `announce`, `readLoop`, `Close` | the listeners of each segment |
| Contributed receiver (`contrib/receiver`) | the last snapshot | `PUT`, `GET` | scheduler |

What each part must guarantee:

* **Scheduler.** No reading is shown as current unless the poll that shows it took it; a failed
  fetch never hides the last good reading; a cooldown is honoured by the timer, refreshes and
  restarts; `seq` moves exactly with the revision and never goes back; a poll reads one list of
  providers; a configuration change and a due timer lead to a poll; every poll ends.
* **Statistics.** The incremental report is what a parse of the whole transcripts finds; a file that
  could not be read whole is not remembered as read.
* **Provisioning.** Only a whole, checked record is applied; the central is told the verdict; what
  is joined is what is stored; a device being set up stays reachable and is not taken away from its
  owner; setup ends in a device that joins.
* **Fetching.** The age shown is never less than the age of the data; a refresh or a wake never
  launders an old reading; a device asleep wakes when the daemon said.
* **Lifecycle.** A device with a usable record joins or keeps trying, one without it offers setup;
  a lost network never leads to setup, a wrong password does.
* **Setup in the daemon.** One run owns the radio; a stale goroutine never overwrites a newer run;
  what the dashboard says of the device ("left as it was") is true of it.
* **Configuration.** A save is whole or does not happen, at every step of it; what the owner saved
  is what a restart brings back; the fetchers, the interval and the order are those of the
  configuration and the keychain.
* **Discovery.** An address that is published is one the server answers on; one answer is enough to
  connect; a goodbye makes listeners forget; `Close` returns.

What is hard here: one mutex (`pollMu`) shared by the timer, refreshes and configuration changes,
with fetch goroutines under it; a second one (`mu`) over state that is also on disk; kills between
any two steps; configuration requests that take no lock at all and share one temporary file; answers
that arrive late, or with instants of their own; goroutines that go on while their sockets are closed
under them; a wireless transfer in which
two tasks of the device and a central act on one record; and counters on a device that sleeps.
`PROJECT.json` lists each hazard with its line and the properties that cover it.

## 2. Modules

| module | models | kind |
|---|---|---|
| `Scheduler` | `scheduler.go`, `snapshot/*.go`, what `server.go` and `auth.go` do to the scheduler | specification |
| `ServedUsage` | clients, mirror and providers around `Scheduler` | composition (EXTENDS) |
| `StatsScan` | `stats/scan.go`, `stats/index.go`, `scanStats` and the programs that write transcripts | specification |
| `BleDecoder` | `usage/bleprov.cpp`: the decoder and its contract (`DecSpec`) | operators and abstract specification |
| `BleDevice` | `hal/sticks3/bleprov.cpp`, `creds.cpp`, `net.cpp`, the setup part of `main.cpp` | detailed specification; implements `DecSpec` |
| `DeviceFreshness` | `doFetch`, `doDeviceRefresh`, sleep and wake in `main.cpp`, `usage/freshness.cpp`, `usage/refresh.cpp` | specification |
| `Setup` | `api/setup.go`, `cmd/usaged/bleprov.go`, `bleprov/central.go`, the token store of `api/pairing.go`, and the devices as a central meets them | detailed specification; implements `SetupRun` |
| `SetupRun` | what the dashboard is promised of one setup run | abstract specification |
| `Config` | `config/config.go`, the merge of `serialize.go`, `buildFetchers` of `cmd/usaged/once.go`: a configuration as a value, and the fetchers built from it | operators |
| `ConfigYaml` | `config/serialize.go`, `config/yaml.go`: the file as lines, `SerializeYAML` and `ParseYAML` | operators (EXTENDS `Config`) |
| `ConfigServer` | the configuration routes of `api/server.go`, the file, restarts | specification (EXTENDS `ConfigYaml`) |
| `Mdns` | `mdns/service.go`: records, answers, the goodbye; what a listener makes of a message | operators |
| `Discovery` | `mdns/responder.go` and one listener per segment | specification (EXTENDS `Mdns`) |
| `SchedulerProofs` (of `Scheduler` and `ServedUsage`), `BleProofs`, `DeviceProofs`, `SetupProofs`, `DiscoveryProofs`, `ConfigYamlProofs`, `ConfigProofs`, `StatsScanProofs` | theorems about them | proofs |
| `MCScheduler`, `MCServedUsage`, `MCStatsScan`, `MCBleDevice`, `MCDeviceFreshness`, `MCSetup`, `MCConfig`, `MCDiscovery` | constants for TLC | instances |

No module declares a RECURSIVE operator, so each can be proved about. Operators named after a
defect (`FallbackUnmarked`, `CommitUnverified`, ...) and introduced by "Mutant" are variants of the
definition that follows them, kept to show that a property notices the defect; no action uses them.

## 3. Correspondence with the code

### Scheduler

`mem` and `disk` are `Scheduler.State` and the state file; `config` the interval, the fetchers and
the display order, `saved` the same three as `config.yaml` has them; `pollMu` names the goroutine
that holds the mutex. A poll is `BeginPoll`, one
`SkipFetch` / `AnswerOk` / `AnswerFail` / `AnswerLimited` and one `Age` per provider in any order
(the fetch goroutines), `ApplyAndSave` (the section of `mu` that ends `pollOnce`), `Publish` when
the revision moved and `EndPoll`. The goroutine of `Run` starts one with `RunPoll`; an API handler
with `AskRefresh`, which is dropped when a poll runs. `PUT /v1/config` is `PutSaves` (the file),
`PutApplies` (the interval), `SetFetchers`, `SetProviderOrder` and the background refresh (`KickRuns`,
`KickCoalesces`), five steps between which others may run. `Restart` is a kill and a start from the
state file and `config.yaml`, so that a list which was saved and not yet installed comes into force.

* A block is its kind, its status, one reading and the instant it was taken. Usage stands for the
  headroom `advise.Rank` orders plans by; a revision is what `Rev` hashes, order included.
* The read of cooldown and last good block at the head of a fetch is one step with the answer: both
  are only written by the fetch of the same provider, under `pollMu`.
* `SetInterval` and the staleness rule race on the interval; `Age` reads whichever is there. With
  the fetchers of this repository the rule (`2 * interval`, `scheduler.go:163-168`) never changes a
  block, because a block of the poll is of the poll's instant or already stale.
* `PutIsReflected` follows one list from the write of the file to a snapshot of its providers, over
  polls, refreshes and kills. It asks for nothing once a later PUT wrote another list, or while a
  PUT with another list is on its way too: of two that meet, the one that installs last wins
  (section 5). A PUT installs the list of its own body here; that the code builds it from the shared
  `Server.cfg` is in `ConfigServer`.
* `Persist` is all or nothing (temporary file and rename), or fails. The file is not synced before
  the rename; a power cut of the Mac is not modelled.

### ServedUsage

Adds the parties a kill does not restart: a client that reads (`Read`), the mirror (`Published`,
with a PUT stored, lost, or given up after five seconds while the receiver still serves it, and
`StoredLate`), and providers that refuse requests until an instant they named (`Limited`). The rest
of its variables are history: what was promised, saved, lost.

### StatsScan

A transcript is a sequence of lines; sizes are in half lines so that a writer can be caught in the
middle of one. A scan is `StartScan`, per file `UseCached` or `Open` and `Read` (the walk's stat and
the read are two steps: the file may grow in between when `BusyWriters`), `FinishScan` or
`FailScan`, `SaveIndex`, `SaveReport`. Requests are filed under source and model (`Filings`). A read
that fails, at a line too long for the scanner or because the disk does (`FailingFiles`), leaves its
file out and makes its source partial.

* Each line counts one request; tokens, prices, day windows and the age limit are sums of the same
  counts. With the prices, the other reason for a partial source is left out: a model without a price
  (`scan.go:374-381`, `738-745`).

### BleDecoder and BleDevice

The decoder is a record of the fields of `usage::bleprov::Decoder`; `OnControl`, `OnChunk`,
`MarkApplying`, `MarkApplied`, `MarkFailed`, `Scrub` are its methods, translated guard by guard.
The bytes of a stream are cut into units. The CRC, the lengths and the TLV checks make a buffer
acceptable just when it is one stream, whole and in order (`Parses`): a CRC-32 collision is the only
thing this leaves out. Error codes of one place are merged (`badSize`, `badStream`).

In `BleDevice` the callbacks of the Bluetooth task are one step each (they hold the mutex), and the
loop's pass is cut wherever it releases it: `Advertise`, `PublishDirty`, then by phase `StartApply`,
`Acknowledge`, `CopyRecord`, the keys of the store one by one (`SaveKey`), `Saved` or `NotSaved`;
`Joined`, `StillJoining`, `JoinFailed`; `Dwell`, `Provisioned`; then `Refresh` (what the screen and
`main.cpp` see) and `KeepSetup` or `CloseWindow` (`main.cpp:1009-1043`). `PowerCut` may come between
any two. A boot (`Booted`) applies `complete()` to what the store holds.

* A clock is not modelled: "the time is up" may be true at any visit (`JoinFailed`, `CloseWindow`,
  `Provisioned`), and fairness says that it is eventually.
* A central writes anything. It must be paired, and pairing needs six digits off the screen, so a
  pass of the loop has seen the link before the first write: that is `Paired`, the one timing
  assumption, and `SuccessIsNotEaten` rests on it. A central that has bonded before
  (`ESP_LE_AUTH_REQ_SC_MITM_BOND`, `hal/sticks3/bleprov.cpp:597`) needs no digits; of such a one it is an assumption
  about time alone, that the loop passes once between the connection and the first write.
* Whether a network lets the device in depends on the pair tried (`Networks`).

### DeviceFreshness

`ram` is what `main.cpp` keeps in globals, `rtc` what it keeps in memory that outlives a deep sleep.
A fetch is one of `Read` (200), `ReadGarbled` (200 that does not parse), `NotModified` (304),
`FetchFails` or, at the twelfth failure, `GiveUp`. A refresh is two steps, because the daemon may
poll between them: `AskPolls` (200), `AskCoalesces` (202 twice) or `AskFails`, then the fetch.
`Sleep` saves the age; `Wake`, `WakeWithoutClock` (the RTC began again), `Restart` and `GiveUp` run
`setup`, which applies the sleep or does not; `PowerLoss` loses both memories.

* Seconds and milliseconds are instants of one clock; `SecWrap` stands for 2^32. A request takes no
  time: the age of an answer is that of the instant the daemon built it.
* When the device sleeps, and how long it waits after a failure, are free.
* The daemon is its snapshot (`server`), polled at any instant; a revision may stay the same over a
  poll, and then the answer is 304.
* `truth` is history: the instants at which the daemon took and last confirmed what is shown.

### Setup and SetupRun

`setup` is the struct of that name (phase, generation, last scan, run), `tasks` the goroutines a
handler starts, by the generation they were started with, `radio` the goroutine that holds
`Central.mu`, `store` the token recorded for each device in memory and in `devices.json`. A route is
one step (it holds `setup.mu`): `HandleScan`, `HandleProvision`, `HandleStop`. A goroutine of a scan
waits for the radio (`ScanTakesRadio`), listens (`ScanFinds`) and hands over its list (`ScanEnds`).
One of a run gathers credentials, records a token (`Issue`, `IssueFails`), finds the radio taken
(`Busy`) or takes it, and goes through `Connected`, `Identified`, `Begins`, `Sends`, `Commits`,
`Hears`, `HearsApplied`; a failure before `BEGIN` closes, a later one aborts first. `RunEnds` is
`runProvision` after the provisioner has returned.

* A stopped goroutine goes on until it looks at its context. Where the code looks, the step may fail
  (`FailsEarly`, `FailsLate`); where it does not, `Stop` changes nothing. A deadline is such a
  failure too. A scan that finds its context ended reports an empty list and no error.
* The central keeps the latest status from its subscription on (`statusWatch`): one of what the
  device did before `BEGIN` (`Begins`), one between the chunks, and in the end one it polls (`Hears`).
* A token is named by the generation of the run that minted it; 0 is one of an earlier setup.
  `replaced` and `joined` are history.
* The device is a smaller one than that of `BleDevice`: one transfer, the loop's passes cut where a
  central can tell (`Advertises`, `StartApply`, `Saves`, `Joins`), an outage of the link or power,
  and a device that is flashed anew (`Erased`) while the daemon remembers it.
* A restart forgets run, scan and goroutines, drops links, and reads the file.

### Config, ConfigYaml and ConfigServer

`cfg` is `Server.cfg`, `sched` and `fetchers` what the scheduler was given of it, `keys` the
keychain. Files are inodes: `path` is the one named `config.yaml`, `tmp` the one that has the
temporary name every PUT of a process uses, and a handler keeps the inode it opened (`fd`) whatever
is renamed meanwhile. A PUT is `PutOpens` (truncates), `PutWrites`, `PutRenames`, `PutApplies`
(the scheduler), `PutChangesGeneral`, `PutChangesProviders`, `PutChangesAlerts` (`s.cfg`, under no
lock), then `rebuildFetchers`: `Builds`, `Installs`, `Orders`; each of the first three may fail (`PutFails`). `PUT /v1/config/interval` sets
scheduler and configuration first (`IntervalSets`, `IntervalChangesConfig`) and then edits the file in
place (`PersistReads`, `PersistTruncates`, `PersistWrites`). A key goes to the keychain
(`KeychainDone`) and then through `rebuildFetchers`. `Stops` is a kill or an exit anywhere; `StartsUp`
is `Load` and `New`, which may refuse the file; `OwnerWrites` an edit by hand while the daemon is down.

* A file holds what a PUT wrote (`Doc`), what the owner wrote (`Hand`), or the rest of a write that
  was cut short or of two on top of each other (`Torn`). What a `Doc` reads back as is computed:
  `SerializeYAML` makes its lines, `ParseYAML` is a fold over them with the parser's position as state.
* A text is one value; the sets `RawControl`, `Mangled` and `KeyShaped` say what the serializer and
  the parser make of it. A percentage and an amount are small numbers. Two providers of one id, blank
  fields, an absent probe and an absent `cost_usd` are as in the code.
* `s.cfg` is assigned in three groups of fields, between which another handler may build fetchers of
  new fields beside old ones. A value torn within a group (`server.go:747-777` has no lock) is left
  out: no property speaks of such a moment.
* The keychain fails in both directions. `Builds` and `StartsUp` may lose the key of any provider
  that is asked for (`AskedFor`), which makes an "off" block all the same (`once.go:153`, `166`,
  `179`); `KeychainFails` may have made its change before it fails. `unsure` is history: the
  providers concerned since the last build. The page's own read (`server.go:512`) is taken to
  succeed; when it fails the page shows `not_set`.
* `settled` and `current` are history: whether changes have met another since the start, and whether
  bodies had all the settings the page sends (`Full`).
* Alerts are layered and providers are merged as `Load` does it, then the environment.

### Mdns and Discovery

`conn` has for each interface that `Start` joined its socket, the address read at that moment, and its
two goroutines: `Announces` and `AnnouncerStops` (the select of timer and `done`), `Reads`, `Replies`
and `ReadFails` (the read loop, which gives up after too many errors in a row). `Close` is `Closes`,
`SaysGoodbye` per socket, `ClosesSocket` per socket and `Waits`; the goroutines run on in between.
`Ends` is the end of the process, with or without a `Close`.

* `cache` is what an RFC 6762 listener on the segment holds; it is modelled from what the code sends
  it for and is external, as are `Asks`, `Moves` and `Expires`. Every packet may be lost.
* The sections of a message are sets of records. A packet that cannot be unpacked does what one that
  asks for nothing of ours does: nothing.
* The listen host is one for all starts; `serve.go:155` takes it from the configuration, which may have
  changed in between. No property compares two starts by their host.
* `behind` and `stale` are history: an interface changed since the daemon read its addresses, and a
  listener was told nothing since.

## 4. Runs and bounds

Every run has `CHECK_DEADLOCK FALSE`: clocks, calls, writes and scans are bounded by the guards, so
a behaviour ends where its bound is used up (and a device that left setup is outside of
`BleDevice`).

| run | question | bounds |
|---|---|---|
| `scheduler_live` | does a poll ever mix two lists, is a new configuration shown, does a due timer poll, does every poll end? | two providers that replace each other, two handlers, two calls, a cooldown of the plan, a kill |
| `served_usage` | is an old reading ever shown as current, or a good one lost; do client and mirror only move forward; are cooldowns kept? | one provider, two usages, three instants, one refresh, a failure, a cooldown of two, a kill, a failed save, one late PUT |
| `stats_scan` | does a right index give a right report, whatever was unreadable, torn or failed before? | two transcripts of two lines, one on a disk that fails, two scans, a touch, a kill, torn lines |
| `stats_append` | section 5 | one session of three lines, three scans |
| `ble_device` | only whole records applied, status current, only saved networks joined, no setup eaten, always reachable, a verdict for every apply | streams of two units and of one, six writes (a transfer and a second one in chunks of either size), one connection, one flash error, one power cut; chunk numbers wrap at two |
| `ble_mixed` | section 5 | smallest that shows it |
| `device_age` | is the age right over fetches, refreshes, sleeps, restarts; does the device ask about what it shows? | two revisions, instants 0 to 5, a poll interval and a throttle of one, two failures to a restart, the longest believable sleep of three, one reset or loss of power, one broken clock |
| `setup` | is what the page says of a run true of it, whatever stopped goroutines still do; does every operation end, and give the radio back? | one device, four operations and stops, a restart, a failed save, an outage |
| `setup_applied` | section 5 | the same |
| `config` | is a save atomic, does a restart keep the settings, do the fetchers follow, but for the keys a failing keychain kept? | two handlers, three changes, one stop, three inodes; three providers (one with a plan, one with a key, Groq with key and probe); two bodies of the settings page, a script's, a refused one; two files written by hand |
| `config_saved` | section 5 | the same |
| `discovery` | is what listeners were told true, is an answer enough, does the goodbye work, does `Close` return? | one interface with no address, one, or one behind a link-local one; three kinds of listen host; two announcements, one query out of seven, two read errors in a row to give up and one that happens, two starts, one change of address |

Why they are enough. Providers only interact through the order of a snapshot and the list, for which
two are enough; the properties of blocks are per provider. A cooldown and a poll interval must
overlap in both orders: four instants with cooldowns of one and two. Two handlers and the `Run` loop
are all pairs of contenders for `pollMu`. In the transfer, a wrap of the chunk number needs two
chunks when numbers count modulo two, and mixing needs two streams; each error path of the decoder is reached with
six writes. A stopped run, its successor and the scan between them are three generations; the fourth
stops the successor. One radio serves one device at a time, so a second device adds no contender that
a second run on the first one is not. Two PUTs are all pairs that can meet at one temporary name, and the third change is one that starts
after the others have met; an inode more than handlers lets each write land in a file that no name
leads to any more. The interfaces of the responder only meet in the loops of `Close` and in the choice
`Start` makes, so that one of them has every behaviour of its goroutines. The proofs of section 6 remove
these bounds from the safety properties they name.

Fairness. *Scheduler*: steps of a poll (each fetch has a context of 20 s, the PUT one of 5 s) are
weakly fair; taking `pollMu` is strongly fair, because `sync.Mutex` hands itself to a waiter that
starved for a millisecond, so a blocked `Lock` succeeds although others keep taking it. Clients,
ticks beyond the bound and kills are not fair. *Device*: the loop runs for ever (weak); a join ends
by `kJoinTimeoutMs` and the last dwell by `kAppliedDwellMs`, which the loop visits again and again
(strong, since the enabling place comes and goes with the pass). Nothing is assumed of the central,
the radio or the power. *Setup*: each goroutine is weakly fair, since every call it makes is bounded
(the scan's window, the keychain and BLE timeouts, the wait for the verdict) and it has an action, an
end with an error at the least, wherever it may be; the mutex is only waited for by a scan, and
nothing is assumed of the owner or of the device. *Discovery*: the runtime schedules the goroutines of
an interface, and `Close` runs in the main one (weak fairness of each); a read on a closed socket
returns with an error. Nothing is assumed of the network.

## 5. Disagreements between the code and what it says

Each has a run that finds it, unless said otherwise.

* `stats_append`: after a scan of an appended part, the index holds that part's count alone; the scan
  after it reports nothing of what was before.
* `ble_mixed`: the six keys of a record are written over the old ones, so a power cut leaves a record
  of two; the comment at `creds.cpp:120` says it reads back as incomplete.
* `config_saved`: a body whose alerts are the legacy `quota_warn_pct` alone is saved as an `alerts:`
  block without a line, which `ParseYAML` refuses: the daemon answers ok and does not start again.
  `serialize.go` says it writes the subset that `ParseYAML` accepts.
* `setup_applied`: `markApplied` accepts `Ready`. A device whose link is lost before the pass that
  advertises again and applies is connectable while it joins; a second run that commits then is told
  of the first one's success (or keeps a status it heard before its own `BEGIN`), the page says the device has its token, and its record was dropped.
  `AppliedAloneMeansJoined`, of `setup`, is what does hold.

Not given a run of their own:

* `BleDevice!JoinsAfterSetup`: the boot passes `complete()` (`main.cpp:940`, `creds.cpp:106`) where
  `provision.h:153-157` asks for `joinable()`, so a device that has a network but no host or token offers setup
  although it could join.
* `DeviceFreshness!UnknownStaysRed`: after a sleep of unknown length the age is `kSleepUnknown`; the
  next sleep adds the elapsed time to it in 32 bits (`main.cpp:1132`), and the lamp goes from red to
  green.
* `ServedUsage!RetryAfterHonoured`: a cooldown counts from the start of the poll (`claude.go:127`,
  `codex.go:106`), not from the 429, so the next request may precede the instant the provider named
  by the time the answer took; `README.md:436` says "the scheduler honors `Retry-After`".
* `ServedUsage!ServedKindsValid`: a provider that answers 429 before it ever answered well is served
  without a kind and a severity (`scheduler.go:132`), which `Validate` rejects (`types.go:101`).
* `Setup!StoppedLeavesDevice`: a run stopped while it gathers credentials still records a token, so
  the daemon no longer accepts the one the device has; one stopped after `COMMIT` is still applied.
  `setup.go:825` says "Stopped. The device was left as it was". A failed run retires the recorded
  token as well, since `Issue` precedes the connection (`bleprov.go:222-235`), and so does one that
  finds the radio taken.

* `DeviceFreshness`: a refresh sets the age to zero before the GET that brings the reading
  (`main.cpp:516`, "the data IS fresh at this instant"). When that GET fails, or the POST was
  answered 202 twice, an old reading is shown as new. After a restart the age is that of the last
  sleep, the reading that of the last fetch. `AgeIsBracketed` names these steps as the exceptions.
* Twelve failures restart the device although 304s came between them, since only a 200 clears
  `g_failCount` (`main.cpp:477`; `firmware/README.md:99` says consecutive).
* `StatsScan!NeverOvercounts`: a file that is touched is counted anew and its cached count is added;
  a line that arrives between the walk's stat and the read (`BusyWriters`) is counted by two scans;
  a message repeated on both sides of a resume counts twice. With `TornWrites` a scan that resumes
  in the middle of a line loses it.
* `BleDevice`: an `ABORT` or `BEGIN` between `StartApply` and `CopyRecord` makes the loop save the
  emptied record over the stored one (`record()` is documented as valid in Ready, Applying and
  Applied only).
* `BleDevice`: a second transfer committed while the first one joins is marked applied when the
  first one's network comes up, and its record is scrubbed unread.
* `BleDevice`: a stream that only arms OTA for another network ("refuse", `bleprov.cpp:462`) falls
  through to the full save and empties host and token.
* `ConfigServer`: a `device_token` in `config.yaml` (`config.example.yaml:18` suggests it) is dropped
  by any save (`FileOf`), after which the default listen address makes the next start refuse. A
  probe of Groq that is explicitly off equals its default and is not written, so `USAGED_GROQ_PROBE=1`
  turns it on at the next start, although `GroqProbeEnabled` says the provider's own setting wins.
  `serve.go:51` says to set `device_ota_pass` in the file; `ParseYAML` refuses that key.
* `ConfigServer`: fields a PUT leaves out are gone from the file while memory keeps them (`Full`
  excludes such bodies from `RestartKeepsSettings`). A label with a tab or a raw line break, a plan
  of zeros without `cost_usd` and a `key_env` that looks like a key are saved and not read back; a
  quotation mark comes back garbled. A time zone nobody can load is written and answered ok
  (`server.go:754-758`): memory keeps the zone it had, and the next start takes the default. `Full`
  excludes these texts too.
* `ConfigServer`: two PUTs that meet write through one temporary name (`server.go:1018`): one can
  write into the other's file after its rename, and be answered 500 although its text is there;
  memory and scheduler may then be of different requests. Of two changes that meet, the one that
  built its fetchers first may install them last (`server.go:870-881`), and the list that is polled
  is older than the configuration until the next change. `FetchersFollowConfig` claims nothing then,
  and `PutIsReflected` asks only that one of the lists on their way is shown. `PUT /v1/config/interval` truncates and
  writes in place (`server.go:993`): a kill between leaves an empty file, which loads as the
  defaults; it answers ok even if it could not write at all.
* `ConfigServer`: `buildFetchers` drops the error of a keychain read (`once.go:153`, `166`, `179`). A
  stored key that could not be read once makes its provider "off" while the page says `set`, until the
  next change or start. A request that stores or deletes a key runs `security` under its own context
  (`server.go:921`, `953`): cut off after the change was made, it is answered 500 and nothing is
  rebuilt. `FetchersFollowConfig` confines the effect of both to the providers in `unsure`.
  `keystore.go:14-16` has keys looked up at poll time; they are when fetchers are built.
* `Config!KeySource`: `key_env` only decides what the page shows. `keystore.go:15` says the variable
  it names is where the key comes from; `buildFetchers` asks fixed names.
* `Discovery`: between the goodbye and the end of the process an announcement or a reply can
  still go out, and the listeners hold a dead daemon for two minutes (`service.go:154-156` says they
  drop it the moment it stops); a kill says nothing at all; the PTR that answers the enumeration of
  services is not in the goodbye. `GoodbyeForgets` says what the goodbye itself does.
* `Discovery!Targets`: a listen host that is a name, `localhost` included, is not an IP address and
  counts as any, so that addresses the server does not answer on are published, which
  `responder.go:231-235` calls worse than nothing. The run has no such host.
* `Discovery`: addresses are read at the start and never again, where `responder.go:13-16` has them read
  from the interface a query arrived on: after a change of lease the old one is published
  (`PublishedIsServed` excludes it by `stale`). Two agents of one LAN claim one host name with the
  cache-flush bit, though `service.go:114-116` expects several.

## 6. Proofs

All theorems hold for every value of the constants that meets the named assumptions.

* `SchedulerProofs`: `TypeCorrect`; `OkIsFresh`, `LastGoodAlwaysShown` and `PollsCoverList`. `OkIsFresh`
  and `LastGoodAlwaysShown` are not inductive: a block on its way (`poll.result`) must already be
  fresh or stale, and carry the last good reading of the moment, and the file must be a state that
  was in memory between polls. The invariants say so per stage of a fetch. `PollsCoverList` rests on
  them and on `OnlyListed`: while fetches run, those started are the list in force, because a list is
  only installed with the poll mutex in hand.
  Of `ServedUsage`: `CooldownsHold` (the file's cooldowns are the ones promised when it was
  saved, memory's are the ones promised now), `MirrorSaved`, `HeadsOnlyAdvance` (what was read or PUT is
  at most what is in memory, and memory is at most one unsaved step ahead of the file).
* `BleProofs`:
  `DecoderSane` is the inductive invariant `Sane` of the decoder: types, a whole record in `ready`
  and `applying`, an empty buffer outside of a transfer, and a buffer within the declared size; one
  lemma per method. `DeviceUsesDecoder` shows that every step of the device is a step of `DecSpec` or
  leaves the decoder alone, so `DeviceRecordIsWhole` follows without looking at the device again.
  `DeviceStatusIsCurrent` is inductive as it stands. `DeviceSuccessIsNotEaten` rests on
  `CentralSeen`: a decoder that is not idle, a phase other than serving, and an apply in progress
  each imply that the window is latched or that the loop is just about to latch it.
  `DeviceJoinsOnlySaved` rests on `SaveInProgress`: nothing is tried while the store is written, and
  the first `done` keys hold the record's fields as long as no write failed. `DeviceTypeOK` needs
  `Sane` for the length of the buffer in the status.
* `DeviceProofs`: `DeviceInvariant` strengthens `AsksAboutWhatItShows`: nothing noted lies ahead of
  the clock, and an age is `Unknown` or at most the time the device has lived, so that no sum reaches
  `Unknown` or wraps by counting (the horizon is shorter than `SecWrap`, `TimesAssumption`). With it
  `AgeBracketed` goes action by action: each establishes the bracket, leaves both of its ends and
  the age to grow together, or is one of the exceptions.

* `SetupProofs`: `GoroutinesSane` (types, and for every goroutine its kind, result and token from
  where it is). `ShownIsAlive` and the refinement `RunAsPromised` rest on `CurrentFits`: what is
  shown is what the goroutine of the current generation does, and no goroutine is ahead of it; and on
  `StepsFit`: the step shown follows from where that goroutine is. A goroutine of an older generation
  changes neither. `StoredAccepted` rests on `TokensFit`, the same statement of every token on its way
  into a device. `AppliedAlone` rests on `LoneFit`: as long as a run that began alone is linked, its
  device is where that run's transfer is, so the only join it can hear of is its own; and on
  `ServingFits`: a device that waits for a record does not report the success of an earlier one, so
  what was heard before the transfer cannot pass for its verdict.
* `DiscoveryProofs`: `PublishedServed` and `DiscoveryTypeOK` follow from `DiscoveryInv`: what is typed
  (`Typed`: a goroutine that runs has a socket that was joined, and a question on its way to a reply is
  one that is answered), listeners that have heard of one host only (`CacheFits`), a socket that
  publishes an address its interface has for as long as the interface is as it was read
  (`SocketsFit`), and the property itself (`CachesTrue`). The step that matters is hearing: a message
  that speaks of the socket's address replaces every other one (`HeardSpeech`), and one that does not
  leaves the addresses alone. `GoodbyeHeard` needs nothing of a listener but `CacheFits`.
  `AnswersSuffice` is a case split over the questions: records that lead on are sent along
  (`AnswersLead`), and no two records of a message have one key (`RecordsApart`).
* `ConfigProofs`: `ConfigInv` says of every handler where it may be and what it holds (`Shape`), that
  the temporary name and `config.yaml` never name one file (`FilesFit`), and that a request is alone
  only when it is the only one and has otherwise spoilt `current` (`AloneFits`). What a lone request
  has done to the file (`SavedBy`) and how far the scheduler is behind the configuration (`SyncedBy`)
  is then said step by step, so that only the handler that moves can disturb either (`OwnStep`, one
  lemma per step). `FetchersFollow` further needs that no fetcher depends on the interval (`IntervalAside`), that a
  lost read (`LostReads`) or a change of the keychain (`KeyMoved`) touches the fetcher of its own
  provider alone, and where the page looks for a key (`KeyShown`).

  `SettingsSurvive` has a second invariant beside `ConfigInv`, since `RestartKeepsSettings` only speaks
  of moments without a request: `RestartInv` says at every step of a request that met no other what
  would give a start the running settings (`KeptBy`): the file as it is, the file as its interval will
  be edited once the daemon's own has changed, or the text in the handler's hand once the file is
  truncated; between the three groups of fields, the configuration is one the PUT found, with the
  groups so far changed (`Changed`). Files and bodies on their way are typed (`FilesSound`, `JobsSound`), and nobody sets the
  probe the environment may (`ProbeOff`). The two steps that matter are a PUT that changes the
  configuration (`SavedKeeps`) and an edit of the interval (`EditKeeps`). The first says that the file
  written reads back (below), that what `OverridesOnly` leaves out is what the defaults give again,
  and that laying the rest over the defaults gives the providers of the body (`ProvidersKept`).
  Hypotheses: `BuiltinAssumption` (ids of the program are plain, distinct texts), `BodyAssumption`
  (bodies have the types `json.Unmarshal` gives them), and `EnvironmentAside`, because the environment
  is laid over the file at each start and the page does not write a token.
* `ConfigYamlProofs`: `SavedReadsBack`: what `SerializeYAML` writes of a `CleanFile`, `ParseYAML`
  accepts and gives back, but for the legacy threshold. `Parse` is a recursive function over the
  lines; `LineByLine` is induction over them with the set of good indices in place of a predicate
  (from `WFMin`), and `ParseParts` lets a text be read part by part. `Between` says where the parser is
  when a block is done, `At` when it is inside one; there is a lemma for each line that can be written
  and one for each block (`PlanReads`, `ProviderReads`, `OrderReads`, `ProvidersRead`, `AlertsRead`).
  `EditReads`: no line but its own depends on the interval that was read (`LineAside`), so that a
  change of the interval changes nothing else, whatever the file is and even if it is refused.
* `StatsScanProofs`: `Base` is `ScanTypeOK` and `EntriesNeverCoverHuge` together with what makes them
  inductive: an entry of the index, of the disk or of the scan ends within its file and reaches into
  no line that is too long to read, only a short line is ever half written, and the size in hand is
  one the file had. `ScansRight` needs `Accounted` on top: of a scan of files at rest that set out
  from a right index, what is tallied of a source that is not partial is the number of requests of
  its files done, a source of which one cannot be read is partial, and a file in hand has grown
  since its entry. The step that
  matters is `Read`: the requests one parse files under a model are those of the part the entry
  covers and those of the rest (`TallySplits`), because an offset that ends a line parts the lines
  (`Divided`), no message has copies on both sides (`CountedApart`), and the model of a line of the
  rest is the one its context names or the one carried (`ModelsFirst`, `ModelsSecond`). That the
  index is right is a hypothesis here: `stats_append` shows that a scan does not keep it so.

Only model-checked: every liveness property (`PutIsReflected`, `TimerLeadsToPoll`, `PollEnds`,
`ServesAgain`, `ApplyEnds`, `OperationEnds`, `RadioIsGivenBack`, `CloseEnds`), since liveness under
fairness is out of the prover's reach. Every safety property of a passing run is a theorem.

## 7. What is not modelled

* HTTP parsing, formats, logging, the screen's layout, prices and windows of the statistics.
* Cryptography: pairing over Bluetooth (an authenticated link is assumed), key hashes.
* `usaged stats`, a second process on the same index file.
* A PUT to the mirror that was lost is not repeated until the next change; that is what the code
  does and the model has it, no property says otherwise.
* `recomputeTiers` changes rows shared with the published snapshot without a lock (`Scheduler` keeps
  blocks by value).
* In the daemon's setup: what scans list beyond the address, the credentials themselves, the
  hashes of `pairing.go`, the wire encoding (`wire.go`), which `BleDecoder` has from the device's side.
* In the device's setup: messages on the screen, release of memory, length of the dwell, re-arming
  of OTA.
* In fetching: the time of day, redirects, the look-up of the daemon's host.
* In configuration: the backups a save leaves (`config.yaml.bak.<time>`, never read), comments
  of a hand-written file, the validity of a provider's key.
* In discovery: the DNS wire format (`mdns/wire.go`), and the device's look-up
  (`hal/sticks3/discover.cpp`), which nothing in the firmware calls.
* The access log and the rate limiter of the API (a fixed window: twice the limit may pass around the
  end of one).
* The device's screen, buttons, backlight and battery, and its lifecycle outside of setup (`Machine`
  of `provision.cpp`, the portal): plan, below.
* The arithmetic of `advise.Rank`.

## 8. Plan

1 to 8 are written.

1. `Scheduler`, `ServedUsage` and their proofs.
2. `StatsScan`.
3. `BleDecoder`, `BleDevice`, `BleProofs`.
4. `DeviceFreshness`, `DeviceProofs`.
5. `Setup`, `SetupRun`, `SetupProofs`.
6. `Config`, `ConfigYaml`, `ConfigServer`.
7. `Mdns`, `Discovery`.
8. `DiscoveryProofs`, `ConfigYamlProofs`, `ConfigProofs`, `StatsScanProofs`.
9. `DeviceScreen`: the pass of the loop around the fetch: buttons, backlight, what is painted, and
   when a device on battery sleeps.
10. `DeviceBoot`: `Machine` of `provision.cpp`, join retries, portal, loss of Wi-Fi.
11. `Ranking`: `advise.Rank` against a reference definition.
