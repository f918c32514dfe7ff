------------------------------- MODULE Setup --------------------------------
(***************************************************************************)
(* One-click setup in the daemon: the routes and their state machine       *)
(* (internal/api/setup.go), the provisioner (cmd/usaged/bleprov.go), the   *)
(* radio (internal/bleprov/central.go), the store of device tokens         *)
(* (internal/api/pairing.go), and the devices as a central meets them.     *)
(*                                                                         *)
(* A handler starts a goroutine and answers at once.  The goroutine is     *)
(* known by the generation of its operation; "Stop" moves the generation   *)
(* on and cancels the goroutine's context, which the goroutine notices     *)
(* only where it looks.                                                    *)
(***************************************************************************)
EXTENDS Integers, FiniteSets

CONSTANTS
    Devices,
    NoDevice,
    MaxGen,             \* bound: operations and stops
    MaxCrashes,         \* bound: restarts of the daemon
    MaxSaveFailures,    \* bound: failed writes of devices.json
    MaxOutages          \* bound: lost links and power cuts of devices

ASSUME DevicesAssumption == NoDevice \notin Devices
ASSUME BoundsAssumption == {MaxGen, MaxCrashes, MaxSaveFailures, MaxOutages} \subseteq Nat

VARIABLES
    setup,      \* setup.phase, gen, scan, run
    tasks,      \* the goroutines runScan and runProvision, by generation
    radio,      \* Central.mu: the goroutine that holds it
    store,      \* the token recorded for each device, in memory and in devices.json
    devices,    \* the devices, as far as a central can tell
    used        \* crashes, failed saves and outages so far

vars == <<setup, tasks, radio, store, devices, used>>
-----------------------------------------------------------------------------
Gens == 1..MaxGen
Free == 0

\* A token is the generation of the run that minted it; 0 is one of an earlier setup.
NoToken == -1
Tokens == 0..MaxGen

StepConnecting == 1
StepReadingInfo == 2
StepPairing == 3
StepSending == 4
StepApplying == 5

NewSetup(gen) ==
    [phase |-> "idle", gen |-> gen, scan |-> [found |-> {}, fresh |-> FALSE],
     run |-> [dev |-> NoDevice, state |-> "none", step |-> 0]]

\* Mutant: a watch that begins with a state no device reports.
TaskHeardZero(kind, at, dev) ==
    [kind |-> kind, at |-> at, dev |-> dev, token |-> NoToken, stopped |-> FALSE,
     heard |-> "none", result |-> "none", found |-> {}, alone |-> TRUE]

Task(kind, at, dev) ==
    [kind |-> kind, at |-> at, dev |-> dev, token |-> NoToken, stopped |-> FALSE,
     heard |-> "nothing", result |-> "none", found |-> {}, alone |-> TRUE]

\* A device without a complete record, the only one that advertises: new, or erased.
Blank(joined) ==
    [phase |-> "serving", link |-> Free, adv |-> TRUE, dec |-> "idle", held |-> NoToken,
     stored |-> NoToken, joined |-> joined]

Init ==
    /\ setup = NewSetup(0)
    /\ tasks = [g \in Gens |-> Task("none", "ended", NoDevice)]
    /\ radio = Free
    /\ devices = [d \in Devices |-> Blank({})]
    /\ \E known \in [Devices -> {NoToken, 0}] :
          store = [mem |-> known, file |-> known, replaced |-> [d \in Devices |-> {}]]
    /\ used = [crashes |-> 0, saves |-> 0, outages |-> 0]
-----------------------------------------------------------------------------
(* The routes *)

Idle == setup.phase = "idle" /\ setup.gen < MaxGen

Turns(g, task) == tasks' = [tasks EXCEPT ![g] = task]

HandleScan ==
    /\ Idle
    /\ setup' = [setup EXCEPT !.phase = "scanning", !.gen = @ + 1]
    /\ tasks' = [tasks EXCEPT ![setup.gen + 1] = Task("scan", "waiting", NoDevice)]
    /\ UNCHANGED <<radio, store, devices, used>>

\* Only a device of a recent scan.
HandleProvision(d) ==
    /\ Idle
    /\ setup.scan.fresh /\ d \in setup.scan.found
    /\ setup' = [setup EXCEPT !.phase = "provisioning", !.gen = @ + 1,
                              !.run = [dev |-> d, state |-> "running", step |-> 0]]
    /\ tasks' = [tasks EXCEPT ![setup.gen + 1] = Task("run", "gathering", d)]
    /\ UNCHANGED <<radio, store, devices, used>>

HandleStop ==
    /\ setup.phase # "idle"
    /\ setup.gen < MaxGen
    /\ Turns(setup.gen, [tasks[setup.gen] EXCEPT !.stopped = TRUE])
    /\ setup' = [setup EXCEPT !.phase = "idle", !.gen = @ + 1,
                              !.run.state = IF @ = "running" THEN "cancelled" ELSE @]
    /\ UNCHANGED <<radio, store, devices, used>>

\* setupScanTTL: a scan is no longer recent.
ScanAges ==
    /\ setup.scan.fresh
    /\ setup' = [setup EXCEPT !.scan.fresh = FALSE]
    /\ UNCHANGED <<tasks, radio, store, devices, used>>
-----------------------------------------------------------------------------
(* Goroutines: where they are, what they report, how they end *)

At(g, place) == tasks[g].at = place

Gone(g) == tasks' = [tasks EXCEPT ![g] = Task("none", "ended", NoDevice)]
GoTo(g, place) == Turns(g, [tasks[g] EXCEPT !.at = place])
FailAt(g, place) ==
    Turns(g, [tasks[g] EXCEPT !.at = place, !.heard = "nothing", !.result = "failed"])

\* Mutant: any run's report is honoured.
ReportAny(g, step) ==
    setup' = [setup EXCEPT !.run.step = IF setup.run.state = "running" THEN step ELSE @]

Report(g, step) ==
    setup' = [setup EXCEPT !.run.step =
                  IF setup.gen = g /\ setup.run.state = "running" THEN step ELSE @]

\* Mutant: only a success makes the page idle again.
OutcomeLeavesPhase(g) ==
    setup' = IF setup.gen = g
             THEN [setup EXCEPT !.phase = IF tasks[g].result = "applied" THEN "idle" ELSE @,
                                !.run.state = tasks[g].result]
             ELSE setup

Outcome(g) ==
    setup' = IF setup.gen = g
             THEN [setup EXCEPT !.phase = "idle", !.run.state = tasks[g].result]
             ELSE setup

RunEnds(g) ==
    /\ At(g, "done") /\ tasks[g].kind = "run"
    /\ Outcome(g)
    /\ Gone(g)
    /\ UNCHANGED <<radio, store, devices, used>>

\* Mutant: a scan ends without a look at the generation.
ScanEndsAnyway(g) ==
    /\ At(g, "done") /\ tasks[g].kind = "scan"
    /\ setup' = [setup EXCEPT !.phase = "idle",
                              !.scan = [found |-> tasks[g].found, fresh |-> TRUE]]
    /\ Gone(g)
    /\ UNCHANGED <<radio, store, devices, used>>

ScanEnds(g) ==
    /\ At(g, "done") /\ tasks[g].kind = "scan"
    /\ setup' = IF setup.gen = g
                THEN [setup EXCEPT !.phase = "idle",
                                   !.scan = [found |-> tasks[g].found, fresh |-> TRUE]]
                ELSE setup
    /\ Gone(g)
    /\ UNCHANGED <<radio, store, devices, used>>
-----------------------------------------------------------------------------
(* runScan: Central.Scan *)

TakeRadio(g) == radio = Free /\ radio' = g

\* Mutant: the mutex is not unlocked after a failure.
LeaveRadioOnSuccess(g) == radio' = IF tasks[g].result = "failed" THEN radio ELSE Free

LeaveRadio(g) == radio' = Free

Advertising == {d \in Devices : devices[d].adv}

ScanTakesRadio(g) ==
    /\ At(g, "waiting")
    /\ TakeRadio(g)
    /\ GoTo(g, "scanning")
    /\ UNCHANGED <<setup, store, devices, used>>

\* With a context that has ended nothing is listened for, which is not an error; an
\* adapter that is off finds nothing either.
ScanFinds(g) ==
    /\ At(g, "scanning")
    /\ \E found \in SUBSET (IF tasks[g].stopped THEN {} ELSE Advertising) :
          Turns(g, [tasks[g] EXCEPT !.at = "done", !.found = found])
    /\ LeaveRadio(g)
    /\ UNCHANGED <<setup, store, devices, used>>
-----------------------------------------------------------------------------
(* ProvisionProgress: credentials, then a token *)

\* No network, no address.  A context that ends during the keychain's dialog is a
\* warning, not a failure.
GatherFails(g) ==
    /\ At(g, "gathering")
    /\ FailAt(g, "done")
    /\ UNCHANGED <<setup, radio, store, devices, used>>

Gathered(g) ==
    /\ At(g, "gathering")
    /\ GoTo(g, "issuing")
    /\ UNCHANGED <<setup, radio, store, devices, used>>

\* issueDeviceToken: recorded, then returned.
Issue(g) ==
    LET d == tasks[g].dev
    IN  /\ At(g, "issuing")
        /\ store' = [mem |-> [store.mem EXCEPT ![d] = g],
                     file |-> [store.file EXCEPT ![d] = g],
                     replaced |-> [store.replaced EXCEPT ![d] = @ \union {store.file[d]}]]
        /\ Turns(g, [tasks[g] EXCEPT !.at = "calling", !.token = g])
        /\ UNCHANGED <<setup, radio, devices, used>>

\* Mutant: a token that could not be saved is sent.
IssueFailsSilently(g) ==
    /\ At(g, "issuing")
    /\ used.saves < MaxSaveFailures
    /\ used' = [used EXCEPT !.saves = @ + 1]
    /\ store' = [store EXCEPT !.mem[tasks[g].dev] = g]
    /\ Turns(g, [tasks[g] EXCEPT !.at = "calling", !.token = g])
    /\ UNCHANGED <<setup, radio, devices>>

\* devices.json cannot be written: the old token is put back.
IssueFails(g) ==
    /\ At(g, "issuing")
    /\ used.saves < MaxSaveFailures
    /\ used' = [used EXCEPT !.saves = @ + 1]
    /\ FailAt(g, "done")
    /\ UNCHANGED <<setup, radio, store, devices>>
-----------------------------------------------------------------------------
(* Central.Provision *)

Busy(g) ==
    /\ At(g, "calling")
    /\ radio # Free
    /\ FailAt(g, "done")
    /\ UNCHANGED <<setup, radio, store, devices, used>>

RunTakesRadio(g) ==
    /\ At(g, "calling")
    /\ TakeRadio(g)
    /\ Report(g, StepConnecting)
    /\ GoTo(g, "connecting")
    /\ UNCHANGED <<store, devices, used>>

Device(g) == devices[tasks[g].dev]
Linked(g) == Device(g).link = g
Leaves(g, device) == devices' = [devices EXCEPT ![tasks[g].dev] = device]

Connected(g) ==
    /\ At(g, "connecting")
    /\ tasks[g].dev \in Advertising
    /\ Leaves(g, [Device(g) EXCEPT !.link = g, !.adv = FALSE])
    /\ Report(g, StepReadingInfo)
    /\ GoTo(g, "identifying")
    /\ UNCHANGED <<radio, store, used>>

Identified(g) ==
    /\ At(g, "identifying")
    /\ Linked(g)
    /\ Report(g, StepPairing)
    /\ GoTo(g, "pairing")
    /\ UNCHANGED <<radio, store, devices, used>>

\* Up to here a failure leaves nothing to abort: no device, a lost bond, another
\* version, no passkey, a context that has ended.
FailsEarly(g) ==
    /\ tasks[g].at \in {"connecting", "identifying", "pairing"}
    /\ FailAt(g, "closing")
    /\ UNCHANGED <<setup, radio, store, devices, used>>

\* The owner has typed the six digits, the subscription succeeds whatever became of
\* the context meanwhile, and BEGIN is written.  A status that is notified in between,
\* of what the device did before, is kept like any other.
Begins(g) ==
    /\ At(g, "pairing")
    /\ Linked(g)
    /\ Leaves(g, [Device(g) EXCEPT !.dec = "receiving", !.held = NoToken])
    /\ \E heard \in {"nothing", Device(g).dec} :
          Turns(g, [tasks[g] EXCEPT !.at = "sending", !.heard = heard,
                                    !.alone = (Device(g).phase = "serving")])
    /\ UNCHANGED <<setup, radio, store, used>>

\* The chunks, each after a look at the context.
Sends(g) ==
    /\ At(g, "sending")
    /\ ~tasks[g].stopped
    /\ Linked(g)
    /\ Leaves(g, [Device(g) EXCEPT !.held = tasks[g].token])
    /\ Report(g, StepSending)
    /\ GoTo(g, "sent")
    /\ UNCHANGED <<radio, store, used>>

Commits(g) ==
    /\ At(g, "sent")
    /\ Linked(g)
    /\ \E verdict \in {"ready", "failed"} :
          Leaves(g, [Device(g) EXCEPT !.dec = IF @ = "receiving" THEN verdict ELSE @])
    /\ Report(g, StepApplying)
    /\ GoTo(g, "awaiting")
    /\ UNCHANGED <<radio, store, used>>

\* Mutant: a record that is whole counts as applied.
SuccessWhenReady == {"ready", "applied"}

Success == {"applied"}

\* A notification, or in the end a poll of the status: the watch keeps the latest.
Hears(g) ==
    /\ tasks[g].at \in {"sending", "sent", "awaiting"}
    /\ Linked(g)
    /\ tasks[g].heard # Device(g).dec
    /\ Turns(g, [tasks[g] EXCEPT !.heard = Device(g).dec])
    /\ UNCHANGED <<setup, radio, store, devices, used>>

HearsApplied(g) ==
    /\ At(g, "awaiting")
    /\ tasks[g].heard \in Success
    /\ Turns(g, [tasks[g] EXCEPT !.at = "closing", !.heard = "nothing",
                                 !.result = "applied"])
    /\ UNCHANGED <<setup, radio, store, devices, used>>

\* A write fails, the context has ended, the device refuses or stays silent.
FailsLate(g) ==
    /\ tasks[g].at \in {"sending", "sent", "awaiting"}
    /\ FailAt(g, "aborting")
    /\ UNCHANGED <<setup, radio, store, devices, used>>

\* ABORT, if there is still a link for it.
Aborts(g) ==
    /\ At(g, "aborting")
    /\ IF Linked(g)
       THEN Leaves(g, [Device(g) EXCEPT !.dec = "idle", !.held = NoToken])
       ELSE UNCHANGED devices
    /\ GoTo(g, "closing")
    /\ UNCHANGED <<setup, radio, store, used>>

Closes(g) ==
    /\ At(g, "closing")
    /\ IF Linked(g) THEN Leaves(g, [Device(g) EXCEPT !.link = Free]) ELSE UNCHANGED devices
    /\ LeaveRadio(g)
    /\ GoTo(g, "done")
    /\ UNCHANGED <<setup, store, used>>
-----------------------------------------------------------------------------
(* The device's side: firmware/src/hal/sticks3/bleprov.cpp *)

DeviceStep(d, before, after) ==
    /\ devices[d].phase = before
    /\ devices' = [devices EXCEPT ![d] = after]
    /\ UNCHANGED <<setup, tasks, radio, store, used>>

StartApply(d) ==
    /\ devices[d].dec = "ready"
    /\ DeviceStep(d, "serving", [devices[d] EXCEPT !.phase = "saving", !.dec = "applying"])

\* A lost link leaves the device silent; it advertises again only from here, and then
\* until a central comes, whatever it does meanwhile.
Advertises(d) ==
    /\ devices[d].link = Free /\ ~devices[d].adv
    /\ DeviceStep(d, "serving", [devices[d] EXCEPT !.adv = TRUE])

\* What is held when it is copied, an ABORT later included.
Saves(d) ==
    DeviceStep(d, "saving", [devices[d] EXCEPT !.phase = "joining", !.stored = devices[d].held])

SaveFails(d) ==
    DeviceStep(d, "saving", [devices[d] EXCEPT !.phase = "serving", !.dec = "failed",
                                               !.held = NoToken])

Joins(d) ==
    /\ devices[d].stored # NoToken
    /\ DeviceStep(d, "joining",
          [devices[d] EXCEPT !.phase = "applied", !.held = NoToken,
                             !.joined = @ \union {devices[d].stored},
                             !.dec = IF @ \in {"ready", "applying"} THEN "applied" ELSE @])

JoinFails(d) ==
    DeviceStep(d, "joining", [devices[d] EXCEPT !.phase = "serving", !.dec = "failed",
                                                !.held = NoToken])

\* The dwell is over: Bluetooth is taken down.
Dwells(d) ==
    DeviceStep(d, "applied", [devices[d] EXCEPT !.phase = "off", !.dec = "idle", !.link = Free,
                                                !.adv = FALSE])

Outage(d, after) ==
    /\ used.outages < MaxOutages
    /\ used' = [used EXCEPT !.outages = @ + 1]
    /\ devices' = [devices EXCEPT ![d] = after]
    /\ UNCHANGED <<setup, tasks, radio, store>>

LinkLost(d) == devices[d].link # Free /\ Outage(d, [devices[d] EXCEPT !.link = Free])

\* A boot offers setup only to a device without a record.
PowerCut(d) ==
    Outage(d, IF devices[d].stored = NoToken THEN Blank(devices[d].joined)
              ELSE [devices[d] EXCEPT !.link = Free, !.adv = FALSE, !.dec = "idle",
                                      !.held = NoToken, !.phase = "off"])

\* Flashed anew: the daemon still knows the device.
Erased(d) == Outage(d, Blank(devices[d].joined))

\* The daemon is killed and started again.
Restart ==
    /\ used.crashes < MaxCrashes
    /\ used' = [used EXCEPT !.crashes = @ + 1]
    /\ setup' = NewSetup(setup.gen)   \* so that tokens stay apart
    /\ tasks' = [g \in Gens |-> Task("none", "ended", NoDevice)]
    /\ radio' = Free
    /\ store' = [store EXCEPT !.mem = store.file]
    /\ devices' = [d \in Devices |-> [devices[d] EXCEPT !.link = Free]]
-----------------------------------------------------------------------------
GoroutineStep(g) ==
    \/ RunEnds(g) \/ ScanEnds(g)
    \/ ScanTakesRadio(g) \/ ScanFinds(g)
    \/ GatherFails(g) \/ Gathered(g) \/ Issue(g) \/ IssueFails(g)
    \/ Busy(g) \/ RunTakesRadio(g) \/ Connected(g) \/ Identified(g)
    \/ FailsEarly(g) \/ Begins(g) \/ Sends(g) \/ Commits(g)
    \/ Hears(g) \/ HearsApplied(g) \/ FailsLate(g) \/ Aborts(g) \/ Closes(g)

Route == HandleScan \/ HandleStop \/ ScanAges \/ \E d \in Devices : HandleProvision(d)

DeviceMoves(d) ==
    \/ Advertises(d) \/ StartApply(d) \/ Saves(d) \/ SaveFails(d) \/ Joins(d) \/ JoinFails(d) \/ Dwells(d)
    \/ LinkLost(d) \/ PowerCut(d) \/ Erased(d)

Next ==
    \/ Route
    \/ \E g \in Gens : GoroutineStep(g)
    \/ \E d \in Devices : DeviceMoves(d)
    \/ Restart

Spec == Init /\ [][Next]_vars

\* Every call the goroutines make returns: commands, keychain, connection,
\* subscription and the wait for the verdict are bounded by timeouts of their own.
FairSpec == Spec /\ \A g \in Gens : WF_vars(GoroutineStep(g))
-----------------------------------------------------------------------------
(* Properties *)

Places == {"waiting", "scanning", "gathering", "issuing", "calling", "connecting",
           "identifying", "pairing", "sending", "sent", "awaiting",
           "aborting", "closing", "done", "ended"}
OnTheRadio == {"scanning", "connecting", "identifying", "pairing", "sending",
               "sent", "awaiting", "aborting", "closing"}
Verdicts == {"idle", "receiving", "ready", "applying", "applied", "failed"}
Ends == {"applied", "failed"}

SetupRecords ==
    [phase : {"idle", "scanning", "provisioning"}, gen : 0..MaxGen,
     scan : [found : SUBSET Devices, fresh : BOOLEAN],
     run : [dev : Devices \union {NoDevice}, step : 0..StepApplying,
            state : {"none", "running", "cancelled"} \union Ends]]

TaskRecords ==
    [kind : {"none", "scan", "run"}, at : Places, dev : Devices \union {NoDevice},
     token : Tokens \union {NoToken}, stopped : BOOLEAN, heard : Verdicts \union {"nothing"},
     result : Ends \union {"none"}, found : SUBSET Devices, alone : BOOLEAN]

StoreRecords ==
    [mem : [Devices -> Tokens \union {NoToken}], file : [Devices -> Tokens \union {NoToken}],
     replaced : [Devices -> SUBSET (Tokens \union {NoToken})]]

DeviceRecords ==
    [phase : {"off", "serving", "saving", "joining", "applied"}, link : Gens \union {Free},
     adv : BOOLEAN, dec : Verdicts, held : Tokens \union {NoToken},
     stored : Tokens \union {NoToken}, joined : SUBSET Tokens]

\* Every variable stays in its domain.
TypeOK ==
    /\ setup \in SetupRecords
    /\ tasks \in [Gens -> TaskRecords]
    /\ radio \in Gens \union {Free}
    /\ store \in StoreRecords
    /\ devices \in [Devices -> DeviceRecords]
    /\ used \in [crashes : 0..MaxCrashes, saves : 0..MaxSaveFailures, outages : 0..MaxOutages]

\* setup.go:338-341: what the page shows as going on is going on: the goroutine of the
\* current generation is alive and of that kind, and only a run that is being made is
\* shown as running.
ShownIsAlive ==
    /\ setup.phase # "idle"
        => /\ setup.gen \in Gens
           /\ tasks[setup.gen].at # "ended"
           /\ tasks[setup.gen].kind = (IF setup.phase = "scanning" THEN "scan" ELSE "run")
    /\ setup.run.state = "running" <=> setup.phase = "provisioning"

RunSucceeds == setup.run.state = "running" /\ setup'.run.state = "applied"

\* setup.go:97-99 and 818-820, "Done": a run is shown as applied only when its device
\* has joined with the token this very run recorded.
AppliedMeansJoined ==
    [][RunSucceeds => setup.gen \in devices[setup.run.dev].joined]_vars

\* The same, of a run whose transfer began when the device was not applying another.
AppliedAloneMeansJoined ==
    [][RunSucceeds /\ tasks[setup.gen].alone
          => setup.gen \in devices[setup.run.dev].joined]_vars

\* pairing.go:228-231, "a token this agent has not persisted is a credential nothing
\* accepts": over failed saves and restarts, the token in a device is the one on file,
\* unless a later run replaced it.
StoredIsAccepted ==
    \A d \in Devices :
        devices[d].stored # NoToken /\ store.file[d] # devices[d].stored
            => devices[d].stored \in store.replaced[d]

\* What the page is promised of a run, step by step.
Shown == INSTANCE SetupRun WITH LastStep <- StepApplying,
                                state <- setup.run.state, step <- setup.run.step

\* setup.go:334-336: whatever goroutines of earlier runs still do, the run that is shown
\* goes through its steps in order, and once over stays as it ended.
RunIsAsPromised == Shown!Spec

\* setup.go:436-468 and 551-570: every scan and every run ends, and is not shown for ever.
OperationEnds == setup.phase # "idle" ~> setup.phase = "idle"

\* central.go:346: a run that was stopped gives the radio back.
RadioIsGivenBack == radio # Free ~> radio = Free

\* setup.go:825, "Stopped. The device was left as it was": once a run is shown as
\* stopped, neither the device's record nor the token the daemon accepts from it changes.
StoppedLeavesDevice ==
    [][\A d \in Devices :
          setup.run.state = "cancelled" /\ setup.run.dev = d /\ UNCHANGED setup
            => /\ devices'[d].stored = devices[d].stored
               /\ store'.file[d] = store.file[d]]_vars
=============================================================================
