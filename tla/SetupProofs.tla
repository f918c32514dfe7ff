---------------------------- MODULE SetupProofs -----------------------------
(***************************************************************************)
(* Proofs about Setup, for any number of devices, operations, restarts,    *)
(* failed saves and outages.                                               *)
(***************************************************************************)
EXTENDS Setup, TLAPS

USE DevicesAssumption, BoundsAssumption
-----------------------------------------------------------------------------
(* Types *)

LEMMA Numbers ==
    /\ MaxGen \in Nat /\ MaxCrashes \in Nat /\ MaxSaveFailures \in Nat /\ MaxOutages \in Nat
    /\ Gens \subseteq Tokens
BY DEF Gens, Tokens

LEMMA NewTask ==
    ASSUME NEW k \in {"none", "scan", "run"}, NEW a \in Places,
           NEW d \in Devices \union {NoDevice}
    PROVE  Task(k, a, d) \in TaskRecords
BY DEF Task, TaskRecords, Places, Verdicts, Ends, NoToken

LEMMA NewSetupType == \A g \in 0..MaxGen : NewSetup(g) \in SetupRecords
BY DEF NewSetup, SetupRecords, StepApplying

LEMMA BlankType == \A joined \in SUBSET Tokens : Blank(joined) \in DeviceRecords
BY DEF Blank, DeviceRecords, Verdicts, NoToken, Free

LEMMA InitType == Init => TypeOK
<1> SUFFICES ASSUME Init PROVE TypeOK
  OBVIOUS
<1>1. setup \in SetupRecords
  BY NewSetupType, Numbers DEF Init
<1>2. tasks \in [Gens -> TaskRecords]
  BY NewTask DEF Init, Places
<1>3. devices \in [Devices -> DeviceRecords]
  BY BlankType DEF Init
<1>4. store \in StoreRecords
  BY Numbers DEF Init, StoreRecords, Tokens, NoToken
<1>5. QED
  BY <1>1, <1>2, <1>3, <1>4, Numbers DEF Init, TypeOK, Free

\* What the forms every goroutine uses do to the types of tasks and devices.
LEMMA TurnsType ==
    ASSUME tasks \in [Gens -> TaskRecords], NEW g, NEW task,
           g \in Gens => task \in TaskRecords, Turns(g, task)
    PROVE  tasks' \in [Gens -> TaskRecords]
BY DEF Turns

LEMMA LeavesType ==
    ASSUME devices \in [Devices -> DeviceRecords], NEW g, NEW device,
           tasks[g].dev \in Devices => device \in DeviceRecords, Leaves(g, device)
    PROVE  devices' \in [Devices -> DeviceRecords]
<1> DEFINE d == tasks[g].dev
<1>1. devices' = [devices EXCEPT ![d] = device]
  BY DEF Leaves
<1>2. d \in Devices => device \in DeviceRecords
  OBVIOUS
<1> HIDE DEF d
<1>3. QED
  BY <1>1, <1>2

\* The fields of a goroutine, and of a device, that steps change.
LEMMA TaskEdits ==
    ASSUME NEW t \in TaskRecords, NEW place \in Places
    PROVE  /\ [t EXCEPT !.at = place] \in TaskRecords
           /\ [t EXCEPT !.stopped = TRUE] \in TaskRecords
           /\ \A found \in SUBSET Devices :
                 [t EXCEPT !.at = place, !.found = found] \in TaskRecords
           /\ \A token \in Tokens : [t EXCEPT !.at = place, !.token = token] \in TaskRecords
           /\ \A heard \in Verdicts \union {"nothing"}, alone \in BOOLEAN :
                 [t EXCEPT !.at = place, !.heard = heard, !.alone = alone] \in TaskRecords
           /\ \A dec \in Verdicts : [t EXCEPT !.heard = dec] \in TaskRecords
           /\ \A end \in Ends :
                 [t EXCEPT !.at = place, !.heard = "nothing", !.result = end] \in TaskRecords
BY DEF TaskRecords

LEMMA DeviceEdits ==
    ASSUME NEW d \in DeviceRecords, NEW dec \in Verdicts, NEW held \in Tokens \union {NoToken},
           NEW link \in Gens \union {Free}, NEW adv \in BOOLEAN
    PROVE  /\ [d EXCEPT !.link = link] \in DeviceRecords
           /\ [d EXCEPT !.link = link, !.adv = adv] \in DeviceRecords
           /\ [d EXCEPT !.dec = dec] \in DeviceRecords
           /\ [d EXCEPT !.held = held] \in DeviceRecords
           /\ [d EXCEPT !.dec = dec, !.held = held] \in DeviceRecords
BY DEF DeviceRecords

LEMMA TaskForms ==
    ASSUME tasks \in [Gens -> TaskRecords], NEW g \in Gens, NEW place \in Places
    PROVE  /\ Gone(g) => tasks' \in [Gens -> TaskRecords]
           /\ GoTo(g, place) => tasks' \in [Gens -> TaskRecords]
           /\ FailAt(g, place) => tasks' \in [Gens -> TaskRecords]
<1>1. Gone(g) => tasks' \in [Gens -> TaskRecords]
  BY NewTask DEF Gone, Places
<1>2. [tasks[g] EXCEPT !.at = place] \in TaskRecords
  BY TaskEdits
<1>3. [tasks[g] EXCEPT !.at = place, !.heard = "nothing", !.result = "failed"] \in TaskRecords
  BY TaskEdits DEF Ends
<1>4. QED
  BY <1>1, <1>2, <1>3, TurnsType DEF GoTo, FailAt

LEMMA ReportType ==
    ASSUME setup \in SetupRecords, NEW g, NEW n \in 0..StepApplying, Report(g, n)
    PROVE  /\ setup' \in SetupRecords
           /\ setup'.phase = setup.phase /\ setup'.gen = setup.gen
           /\ setup'.scan = setup.scan /\ setup'.run.dev = setup.run.dev
           /\ setup'.run.state = setup.run.state
           /\ setup'.run.step = IF setup.gen = g /\ setup.run.state = "running"
                                THEN n ELSE setup.run.step
BY DEF Report, SetupRecords

LEMMA StepRange ==
    {StepConnecting, StepReadingInfo, StepPairing, StepSending, StepApplying} \subseteq 0..StepApplying
BY DEF StepConnecting, StepReadingInfo, StepPairing, StepSending, StepApplying

\* The routes and the daemon's restart.
LEMMA RouteType == TypeOK /\ (Route \/ Restart) => TypeOK'
<1> SUFFICES ASSUME TypeOK, Route \/ Restart PROVE TypeOK'
  OBVIOUS
<1> USE DEF TypeOK
<1>1. CASE HandleScan
  <2> setup.gen + 1 \in 0..MaxGen
    BY <1>1, Numbers DEF HandleScan, Idle, SetupRecords
  <2>1. setup' \in SetupRecords
    BY <1>1 DEF HandleScan, SetupRecords
  <2>2. tasks' \in [Gens -> TaskRecords]
    BY <1>1, NewTask DEF HandleScan, Places
  <2>3. QED
    BY <1>1, <2>1, <2>2 DEF HandleScan
<1>2. ASSUME NEW d \in Devices, HandleProvision(d) PROVE TypeOK'
  <2> setup.gen + 1 \in 0..MaxGen
    BY <1>2, Numbers DEF HandleProvision, Idle, SetupRecords
  <2> DEFINE run == [dev |-> d, state |-> "running", step |-> 0]
  <2> run \in [dev : Devices \union {NoDevice}, step : 0..StepApplying,
               state : {"none", "running", "cancelled"} \union Ends]
    BY DEF StepApplying
  <2>1. setup' \in SetupRecords
    <3> HIDE DEF run
    <3>1. setup' = [setup EXCEPT !.phase = "provisioning", !.gen = @ + 1, !.run = run]
      BY <1>2 DEF HandleProvision, run
    <3>2. QED
      BY <3>1 DEF SetupRecords
  <2>2. tasks' \in [Gens -> TaskRecords]
    BY <1>2, NewTask DEF HandleProvision, Places
  <2>3. QED
    BY <1>2, <2>1, <2>2 DEF HandleProvision
<1>3. CASE HandleStop
  <2> setup.gen + 1 \in 0..MaxGen
    BY <1>3, Numbers DEF HandleStop, SetupRecords
  <2>1. setup' \in SetupRecords
    BY <1>3 DEF HandleStop, SetupRecords
  <2>2. tasks' \in [Gens -> TaskRecords]
    <3>1. setup.gen \in Gens => [tasks[setup.gen] EXCEPT !.stopped = TRUE] \in TaskRecords
      BY TaskEdits, "ended" \in Places DEF Places
    <3>2. QED
      BY <1>3, <3>1, TurnsType DEF HandleStop
  <2>3. QED
    BY <1>3, <2>1, <2>2 DEF HandleStop
<1>4. CASE ScanAges
  BY <1>4 DEF ScanAges, SetupRecords
<1>5. CASE Restart
  <2>1. setup' \in SetupRecords
    BY <1>5, NewSetupType DEF Restart, SetupRecords
  <2>2. tasks' \in [Gens -> TaskRecords]
    BY <1>5, NewTask DEF Restart, Places
  <2>3. devices' \in [Devices -> DeviceRecords]
    <3>1. ASSUME NEW d \in Devices PROVE [devices[d] EXCEPT !.link = Free] \in DeviceRecords
      <4>1. devices[d] \in DeviceRecords
        OBVIOUS
      <4>2. QED
        BY <4>1 DEF DeviceRecords
    <3>2. QED
      BY <1>5, <3>1 DEF Restart
  <2>4. store' \in StoreRecords
    BY <1>5 DEF Restart, StoreRecords
  <2>5. used' \in [crashes : 0..MaxCrashes, saves : 0..MaxSaveFailures, outages : 0..MaxOutages]
    BY <1>5, Numbers DEF Restart
  <2>6. QED
    BY <1>5, <2>1, <2>2, <2>3, <2>4, <2>5 DEF Restart
<1>6. QED
  BY <1>1, <1>2, <1>3, <1>4, <1>5 DEF Route

\* Goroutines, up to where they call Central.Provision.
LEMMA EarlyType ==
    ASSUME TypeOK, NEW g \in Gens,
           \/ RunEnds(g) \/ ScanEnds(g) \/ ScanTakesRadio(g) \/ ScanFinds(g)
           \/ GatherFails(g) \/ Gathered(g) \/ Issue(g) \/ IssueFails(g) \/ Busy(g)
    PROVE  TypeOK'
<1> USE DEF TypeOK
<1>1. CASE RunEnds(g)
  <2>1. setup' \in SetupRecords
    BY <1>1 DEF RunEnds, Outcome, SetupRecords, TaskRecords
  <2>2. QED
    BY <1>1, <2>1, TaskForms DEF RunEnds, Places
<1>2. CASE ScanEnds(g)
  <2>1. setup' \in SetupRecords
    BY <1>2 DEF ScanEnds, SetupRecords, TaskRecords
  <2>2. QED
    BY <1>2, <2>1, TaskForms DEF ScanEnds, Places
<1>3. CASE ScanTakesRadio(g)
  BY <1>3, TaskForms DEF ScanTakesRadio, TakeRadio, Places
<1>4. CASE ScanFinds(g)
  <2>1. PICK found \in SUBSET Devices : Turns(g, [tasks[g] EXCEPT !.at = "done", !.found = found])
    BY <1>4 DEF ScanFinds, Advertising
  <2>2. tasks' \in [Gens -> TaskRecords]
    <3>1. [tasks[g] EXCEPT !.at = "done", !.found = found] \in TaskRecords
      BY TaskEdits, "done" \in Places DEF Places
    <3>2. QED
      BY <2>1, <3>1, TurnsType
  <2>3. QED
    BY <1>4, <2>2 DEF ScanFinds, LeaveRadio
<1>5. CASE GatherFails(g)
  BY <1>5, TaskForms DEF GatherFails, Places
<1>6. CASE Gathered(g)
  BY <1>6, TaskForms DEF Gathered, Places
<1>7. CASE Issue(g)
  <2>1. g \in Tokens \union {NoToken}
    BY Numbers
  <2> DEFINE d == tasks[g].dev
  <2>2. /\ store.mem \in [Devices -> Tokens \union {NoToken}]
        /\ store.file \in [Devices -> Tokens \union {NoToken}]
        /\ store.replaced \in [Devices -> SUBSET (Tokens \union {NoToken})]
        /\ d \in Devices => store.file[d] \in Tokens \union {NoToken}
    BY DEF StoreRecords
  <2>3. store' = [mem |-> [store.mem EXCEPT ![d] = g], file |-> [store.file EXCEPT ![d] = g],
                  replaced |-> [store.replaced EXCEPT ![d] = @ \union {store.file[d]}]]
    BY <1>7 DEF Issue
  <2>4. store' \in StoreRecords
    <3> HIDE DEF d
    <3>1. [store.mem EXCEPT ![d] = g] \in [Devices -> Tokens \union {NoToken}]
      BY <2>1, <2>2
    <3>2. [store.file EXCEPT ![d] = g] \in [Devices -> Tokens \union {NoToken}]
      BY <2>1, <2>2
    <3>3. [store.replaced EXCEPT ![d] = @ \union {store.file[d]}]
              \in [Devices -> SUBSET (Tokens \union {NoToken})]
      BY <2>2
    <3>4. QED
      BY <2>3, <3>1, <3>2, <3>3 DEF StoreRecords
  <2>5. tasks' \in [Gens -> TaskRecords]
    <3>1. [tasks[g] EXCEPT !.at = "calling", !.token = g] \in TaskRecords
      BY Numbers, TaskEdits, "calling" \in Places DEF Places
    <3>2. QED
      BY <1>7, <3>1, TurnsType DEF Issue
  <2>6. QED
    BY <1>7, <2>4, <2>5 DEF Issue
<1>8. CASE IssueFails(g)
  BY <1>8, TaskForms, Numbers DEF IssueFails, Places
<1>9. CASE Busy(g)
  BY <1>9, TaskForms DEF Busy, Places
<1>10. QED
  BY <1>1, <1>2, <1>3, <1>4, <1>5, <1>6, <1>7, <1>8, <1>9

\* Where a scan and a run may be.
ScanPlaces == {"waiting", "scanning"}
RunPlaces == {"gathering", "issuing", "calling", "connecting", "identifying", "pairing",
              "sending", "sent", "awaiting", "aborting", "closing"}

LEMMA ProvisionType ==
    ASSUME TypeOK, NEW g \in Gens,
           \/ RunTakesRadio(g) \/ Connected(g) \/ Identified(g) \/ FailsEarly(g)
           \/ Begins(g) \/ Sends(g) \/ Commits(g) \/ Hears(g) \/ HearsApplied(g)
           \/ FailsLate(g) \/ Aborts(g) \/ Closes(g),
           tasks[g].at \in RunPlaces => tasks[g].dev \in Devices
    PROVE  TypeOK'
<1> USE DEF TypeOK
<1>1. CASE RunTakesRadio(g)
  BY <1>1, TaskForms, ReportType, StepRange DEF RunTakesRadio, TakeRadio, Places
<1>2. CASE Connected(g)
  <2>1. devices' \in [Devices -> DeviceRecords]
    <3>1. tasks[g].dev \in Devices => [Device(g) EXCEPT !.link = g, !.adv = FALSE] \in DeviceRecords
      BY DeviceEdits DEF Device, Verdicts
    <3>2. QED
      BY <1>2, <3>1, LeavesType DEF Connected
  <2>2. QED
    BY <1>2, <2>1, TaskForms, ReportType, StepRange DEF Connected, Places
<1>3. CASE Identified(g)
  BY <1>3, TaskForms, ReportType, StepRange DEF Identified, Places
<1>4. CASE FailsEarly(g)
  BY <1>4, TaskForms DEF FailsEarly, Places
<1>5. CASE Begins(g)
  <2>1. devices' \in [Devices -> DeviceRecords]
    <3>1. tasks[g].dev \in Devices
             => [Device(g) EXCEPT !.dec = "receiving", !.held = NoToken] \in DeviceRecords
      BY DeviceEdits DEF Device, Verdicts
    <3>2. QED
      BY <1>5, <3>1, LeavesType DEF Begins
  <2>2. tasks' \in [Gens -> TaskRecords]
    <3>1. PICK heard \in {"nothing", Device(g).dec} :
             Turns(g, [tasks[g] EXCEPT !.at = "sending", !.heard = heard,
                                       !.alone = (Device(g).phase = "serving")])
      BY <1>5 DEF Begins
    <3>2. heard \in Verdicts \union {"nothing"}
      BY <1>5 DEF Begins, At, RunPlaces, Device, DeviceRecords
    <3>3. [tasks[g] EXCEPT !.at = "sending", !.heard = heard,
                           !.alone = (Device(g).phase = "serving")] \in TaskRecords
      BY <3>2, TaskEdits, "sending" \in Places DEF Places
    <3>4. QED
      BY <3>1, <3>3, TurnsType
  <2>3. QED
    BY <1>5, <2>1, <2>2 DEF Begins
<1>6. CASE Sends(g)
  <2>1. tasks[g].token \in Tokens \union {NoToken}
    BY DEF TaskRecords
  <2>2. devices' \in [Devices -> DeviceRecords]
    BY <1>6, <2>1, LeavesType DEF Sends, Device, DeviceRecords
  <2>3. QED
    BY <1>6, <2>2, TaskForms, ReportType, StepRange DEF Sends, Places
<1>7. CASE Commits(g)
  <2>1. devices' \in [Devices -> DeviceRecords]
    BY <1>7, LeavesType DEF Commits, Device, DeviceRecords, Verdicts
  <2>2. QED
    BY <1>7, <2>1, TaskForms, ReportType, StepRange DEF Commits, Places
<1>8. CASE Hears(g)
  <2>1. Device(g).dec \in Verdicts
    BY <1>8 DEF Hears, RunPlaces, Device, DeviceRecords
  <2>2. [tasks[g] EXCEPT !.heard = Device(g).dec] \in TaskRecords
    BY <2>1, TaskEdits, "ended" \in Places DEF Places
  <2>3. QED
    BY <1>8, <2>2, TurnsType DEF Hears
<1>9. CASE HearsApplied(g)
  <2>1. [tasks[g] EXCEPT !.at = "closing", !.heard = "nothing", !.result = "applied"]
            \in TaskRecords
    BY TaskEdits DEF Places, Ends
  <2>2. QED
    BY <1>9, <2>1, TurnsType DEF HearsApplied
<1>10. CASE FailsLate(g)
  BY <1>10, TaskForms DEF FailsLate, Places
<1>11. CASE Aborts(g)
  <2>1. devices' \in [Devices -> DeviceRecords]
    <3>1. tasks[g].dev \in Devices
             => [Device(g) EXCEPT !.dec = "idle", !.held = NoToken] \in DeviceRecords
      BY DeviceEdits DEF Device, Verdicts
    <3>2. QED
      BY <1>11, <3>1, LeavesType DEF Aborts
  <2>2. QED
    BY <1>11, <2>1, TaskForms DEF Aborts, Places
<1>12. CASE Closes(g)
  <2>1. devices' \in [Devices -> DeviceRecords]
    BY <1>12, LeavesType DEF Closes, Device, DeviceRecords
  <2>2. QED
    BY <1>12, <2>1, TaskForms DEF Closes, LeaveRadio, Places
<1>13. QED
  BY <1>1, <1>2, <1>3, <1>4, <1>5, <1>6, <1>7, <1>8, <1>9, <1>10, <1>11, <1>12

LEMMA DeviceType ==
    ASSUME TypeOK, NEW d \in Devices, DeviceMoves(d)
    PROVE  TypeOK'
<1> USE DEF TypeOK
<1>1. devices[d] \in DeviceRecords /\ devices[d].joined \in SUBSET Tokens
  BY DEF DeviceRecords
<1>2. Blank(devices[d].joined) \in DeviceRecords
  BY <1>1, BlankType
<1>3. ASSUME NEW before, NEW after, after \in DeviceRecords, DeviceStep(d, before, after)
      PROVE  TypeOK'
  BY <1>3 DEF DeviceStep
<1>4. ASSUME NEW after, after \in DeviceRecords, Outage(d, after) PROVE TypeOK'
  BY <1>4, Numbers DEF Outage
<1>5. CASE Advertises(d)
  <2>1. [devices[d] EXCEPT !.adv = TRUE] \in DeviceRecords
    BY <1>1 DEF DeviceRecords
  <2>2. QED
    BY <1>5, <2>1, <1>3 DEF Advertises
<1>6. CASE StartApply(d)
  <2>1. [devices[d] EXCEPT !.phase = "saving", !.dec = "applying"] \in DeviceRecords
    BY <1>1 DEF DeviceRecords, Verdicts
  <2>2. QED
    BY <1>6, <2>1, <1>3 DEF StartApply
<1>7. CASE Saves(d)
  <2>1. [devices[d] EXCEPT !.phase = "joining", !.stored = devices[d].held] \in DeviceRecords
    BY <1>1 DEF DeviceRecords
  <2>2. QED
    BY <1>7, <2>1, <1>3 DEF Saves
<1>8. CASE SaveFails(d) \/ JoinFails(d)
  <2>1. [devices[d] EXCEPT !.phase = "serving", !.dec = "failed", !.held = NoToken]
            \in DeviceRecords
    BY <1>1 DEF DeviceRecords, Verdicts
  <2>2. QED
    BY <1>8, <2>1, <1>3 DEF SaveFails, JoinFails
<1>9. CASE Joins(d)
  <2> DEFINE after == [devices[d] EXCEPT !.phase = "applied", !.held = NoToken,
                             !.joined = @ \union {devices[d].stored},
                             !.dec = IF @ \in {"ready", "applying"} THEN "applied" ELSE @]
  <2>1. devices[d].stored \in Tokens
    BY <1>9, <1>1 DEF Joins, DeviceRecords
  <2>2. after \in DeviceRecords
    BY <2>1, <1>1 DEF DeviceRecords, Verdicts
  <2>3. QED
    BY <1>9, <2>2, <1>3 DEF Joins
<1>10. CASE Dwells(d)
  <2>1. [devices[d] EXCEPT !.phase = "off", !.dec = "idle", !.link = Free, !.adv = FALSE]
            \in DeviceRecords
    BY <1>1 DEF DeviceRecords, Verdicts
  <2>2. QED
    BY <1>10, <2>1, <1>3 DEF Dwells
<1>11. CASE LinkLost(d)
  <2>1. [devices[d] EXCEPT !.link = Free] \in DeviceRecords
    BY <1>1 DEF DeviceRecords
  <2>2. QED
    BY <1>11, <2>1, <1>4 DEF LinkLost
<1>12. CASE PowerCut(d)
  <2>1. [devices[d] EXCEPT !.link = Free, !.adv = FALSE, !.dec = "idle",
                           !.held = NoToken, !.phase = "off"] \in DeviceRecords
    BY <1>1 DEF DeviceRecords, Verdicts
  <2>2. QED
    BY <1>12, <2>1, <1>2, <1>4 DEF PowerCut
<1>13. CASE Erased(d)
  BY <1>13, <1>2, <1>4 DEF Erased
<1>14. QED
  BY <1>5, <1>6, <1>7, <1>8, <1>9, <1>10, <1>11, <1>12, <1>13 DEF DeviceMoves
-----------------------------------------------------------------------------
(* Goroutines *)

WithToken == {"calling", "connecting", "identifying", "pairing", "sending", "sent", "awaiting"}

\* What a goroutine is, from where it is.
Fits(g, task) ==
    /\ task.at \in ScanPlaces => task.kind = "scan" /\ task.result = "none"
    /\ task.at \in RunPlaces => task.kind = "run"
    /\ task.at = "ended" <=> task.kind = "none"
    /\ task.kind = "run" => task.dev \in Devices
    /\ task.at = "aborting" => task.result = "failed"
    /\ task.kind = "run" /\ task.at \in {"closing", "done"} => task.result \in Ends
    /\ task.at \in WithToken => task.token = g

TasksFit == \A g \in Gens : Fits(g, tasks[g])

LEMMA InitFits == Init => TasksFit
BY DEF Init, TasksFit, Fits, Task, ScanPlaces, RunPlaces, WithToken

\* A step of one goroutine leaves the others alone.
LEMMA OneFits ==
    ASSUME TypeOK, TasksFit, NEW g \in Gens, NEW task, Turns(g, task), Fits(g, task)
    PROVE  TasksFit'
BY DEF TypeOK, TasksFit, Turns

LEMMA GoneFits ==
    ASSUME TypeOK, TasksFit, NEW g \in Gens, Gone(g)
    PROVE  TasksFit'
<1>1. Fits(g, Task("none", "ended", NoDevice))
  BY DEF Fits, Task, ScanPlaces, RunPlaces, WithToken
<1>2. QED
  BY <1>1, OneFits DEF Gone, Turns

LEMMA OthersFit == ASSUME TasksFit, UNCHANGED tasks PROVE TasksFit'
BY DEF TasksFit

LEMMA RouteFits == TypeOK /\ TasksFit /\ (Route \/ Restart) => TasksFit'
<1> SUFFICES ASSUME TypeOK, TasksFit, Route \/ Restart PROVE TasksFit'
  OBVIOUS
<1> DEFINE g == setup.gen
<1>1. CASE HandleScan
  <2>1. g + 1 \in Gens /\ Turns(g + 1, Task("scan", "waiting", NoDevice))
    BY <1>1, Numbers DEF HandleScan, Idle, TypeOK, SetupRecords, Gens, Turns
  <2>2. Fits(g + 1, Task("scan", "waiting", NoDevice))
    BY DEF Fits, Task, ScanPlaces, RunPlaces, WithToken
  <2>3. QED
    BY <2>1, <2>2, OneFits
<1>2. ASSUME NEW d \in Devices, HandleProvision(d) PROVE TasksFit'
  <2>1. g + 1 \in Gens /\ Turns(g + 1, Task("run", "gathering", d))
    BY <1>2, Numbers DEF HandleProvision, Idle, TypeOK, SetupRecords, Gens, Turns
  <2>2. Fits(g + 1, Task("run", "gathering", d))
    BY DEF Fits, Task, ScanPlaces, RunPlaces, WithToken
  <2>3. QED
    BY <2>1, <2>2, OneFits
<1>3. CASE HandleStop
  <2>1. CASE g \in Gens
    <3>1. tasks[g] \in TaskRecords /\ Fits(g, tasks[g])
      BY <2>1 DEF TypeOK, TasksFit
    <3>2. Fits(g, [tasks[g] EXCEPT !.stopped = TRUE])
      BY <3>1 DEF TaskRecords, Fits
    <3>3. QED
      BY <1>3, <2>1, <3>2, OneFits DEF HandleStop
  <2>2. CASE g \notin Gens
    BY <1>3, <2>2 DEF HandleStop, Turns, TasksFit, TypeOK
  <2>3. QED
    BY <2>1, <2>2
<1>4. CASE ScanAges
  BY <1>4, OthersFit DEF ScanAges
<1>5. CASE Restart
  BY <1>5 DEF Restart, TasksFit, Fits, Task, ScanPlaces, RunPlaces, WithToken
<1>6. QED
  BY <1>1, <1>2, <1>3, <1>4, <1>5 DEF Route

\* What the moves between places preserve.
LEMMA Moves ==
    ASSUME NEW g \in Gens, NEW t \in TaskRecords, Fits(g, t), NEW place \in Places
    PROVE  /\ t.at \in ScanPlaces /\ place \in {"scanning"}
                => Fits(g, [t EXCEPT !.at = place])
           /\ t.at = "gathering" /\ place = "issuing" => Fits(g, [t EXCEPT !.at = place])
           /\ t.at \in WithToken /\ place \in WithToken
                => Fits(g, [t EXCEPT !.at = place])
           /\ t.at = "aborting" /\ place = "closing" => Fits(g, [t EXCEPT !.at = place])
           /\ t.at = "closing" /\ place = "done" => Fits(g, [t EXCEPT !.at = place])
           /\ t.at \in RunPlaces /\ place \in {"aborting", "closing", "done"}
                => Fits(g, [t EXCEPT !.at = place, !.heard = "nothing", !.result = "failed"])
BY DEF TaskRecords, Fits, ScanPlaces, RunPlaces, WithToken, Ends

LEMMA GoroutineFits ==
    ASSUME TypeOK, TasksFit, NEW g \in Gens, GoroutineStep(g)
    PROVE  TasksFit'
<1> DEFINE t == tasks[g]
<1>0. t \in TaskRecords /\ Fits(g, t)
  BY DEF TypeOK, TasksFit
<1>1. CASE RunEnds(g) \/ ScanEnds(g)
  BY <1>1, GoneFits DEF RunEnds, ScanEnds
<1>2. CASE ScanTakesRadio(g)
  BY <1>0, <1>2, Moves, OneFits DEF ScanTakesRadio, GoTo, At, ScanPlaces, Places
<1>3. CASE ScanFinds(g)
  <2>1. PICK found \in SUBSET Devices : Turns(g, [t EXCEPT !.at = "done", !.found = found])
    BY <1>3 DEF ScanFinds, Advertising
  <2>2. Fits(g, [t EXCEPT !.at = "done", !.found = found])
    BY <1>0, <1>3 DEF ScanFinds, At, Fits, TaskRecords, ScanPlaces, RunPlaces, WithToken
  <2>3. QED
    BY <2>1, <2>2, OneFits
<1>4. CASE GatherFails(g) \/ IssueFails(g) \/ Busy(g) \/ FailsEarly(g) \/ FailsLate(g)
  <2>1. t.at \in RunPlaces
    BY <1>4 DEF GatherFails, IssueFails, Busy, FailsEarly, FailsLate, At, RunPlaces
  <2>2. QED
    BY <1>0, <1>4, <2>1, Moves, OneFits
    DEF GatherFails, IssueFails, Busy, FailsEarly, FailsLate, FailAt, Places
<1>5. CASE Gathered(g)
  BY <1>0, <1>5, Moves, OneFits DEF Gathered, GoTo, At, Places
<1>6. CASE Issue(g)
  <2>1. Fits(g, [t EXCEPT !.at = "calling", !.token = g])
    BY <1>0, <1>6 DEF Issue, At, Fits, TaskRecords, ScanPlaces, RunPlaces, WithToken
  <2>2. QED
    BY <1>6, <2>1, OneFits DEF Issue
<1>7. CASE RunTakesRadio(g) \/ Connected(g) \/ Identified(g) \/ Sends(g) \/ Commits(g)
  BY <1>0, <1>7, Moves, OneFits
  DEF RunTakesRadio, Connected, Identified, Sends, Commits, GoTo, At, WithToken, Places
<1>8. CASE Begins(g)
  <2>1. PICK heard \in {"nothing", Device(g).dec} :
           Turns(g, [t EXCEPT !.at = "sending", !.heard = heard,
                              !.alone = (Device(g).phase = "serving")])
    BY <1>8 DEF Begins
  <2>2. Fits(g, [t EXCEPT !.at = "sending", !.heard = heard,
                          !.alone = (Device(g).phase = "serving")])
    BY <1>0, <1>8 DEF Begins, At, Fits, TaskRecords, ScanPlaces, RunPlaces, WithToken
  <2>3. QED
    BY <2>1, <2>2, OneFits
<1>9. CASE Hears(g)
  <2>1. Fits(g, [t EXCEPT !.heard = Device(g).dec])
    BY <1>0, <1>9 DEF Hears, Fits, TaskRecords
  <2>2. QED
    BY <1>9, <2>1, OneFits DEF Hears
<1>10. CASE HearsApplied(g)
  <2>1. Fits(g, [t EXCEPT !.at = "closing", !.heard = "nothing", !.result = "applied"])
    BY <1>0, <1>10 DEF HearsApplied, At, Fits, TaskRecords, ScanPlaces, RunPlaces, WithToken, Ends
  <2>2. QED
    BY <1>10, <2>1, OneFits DEF HearsApplied
<1>11. CASE Aborts(g) \/ Closes(g)
  BY <1>0, <1>11, Moves, OneFits DEF Aborts, Closes, GoTo, At, Places
<1>12. QED
  BY <1>1, <1>2, <1>3, <1>4, <1>5, <1>6, <1>7, <1>8, <1>9, <1>10, <1>11 DEF GoroutineStep

LEMMA DeviceFits ==
    ASSUME TasksFit, NEW d \in Devices, DeviceMoves(d) PROVE TasksFit'
BY OthersFit DEF DeviceMoves, Advertises, StartApply, Saves, SaveFails, Joins, JoinFails, Dwells,
   LinkLost, PowerCut, Erased, DeviceStep, Outage

GoroutinesOK == TypeOK /\ TasksFit

LEMMA GoroutinesStep == GoroutinesOK /\ [Next]_vars => GoroutinesOK'
<1> SUFFICES ASSUME GoroutinesOK, [Next]_vars PROVE GoroutinesOK'
  OBVIOUS
<1> USE DEF GoroutinesOK
<1>1. CASE Route \/ Restart
  BY <1>1, RouteType, RouteFits
<1>2. ASSUME NEW g \in Gens, GoroutineStep(g) PROVE GoroutinesOK'
  <2>1. tasks[g].at \in RunPlaces => tasks[g].dev \in Devices
    BY DEF TasksFit, Fits, RunPlaces
  <2>2. TypeOK'
    BY <1>2, <2>1, EarlyType, ProvisionType DEF GoroutineStep
  <2>3. QED
    BY <1>2, <2>2, GoroutineFits
<1>3. ASSUME NEW d \in Devices, DeviceMoves(d) PROVE GoroutinesOK'
  BY <1>3, DeviceType, DeviceFits
<1>4. CASE UNCHANGED vars
  BY <1>4, OthersFit DEF vars, TypeOK
<1>5. QED
  BY <1>1, <1>2, <1>3, <1>4 DEF Next

\* setup.go, bleprov.go, central.go: every reachable state is well typed, and every
\* goroutine is of the kind its place says, with the result and the token it should have.
THEOREM GoroutinesSane == Spec => []GoroutinesOK
<1>1. Init => GoroutinesOK
  BY InitType, InitFits DEF GoroutinesOK
<1>2. QED
  BY <1>1, GoroutinesStep, PTL DEF Spec

\* Every variable of the setup stays in its domain.
THEOREM SetupTypeOK == Spec => []TypeOK
BY GoroutinesSane, PTL DEF GoroutinesOK
-----------------------------------------------------------------------------
(* The operation that is shown *)

\* What is shown is what the goroutine of the current generation does.
CurrentFits ==
    /\ \A g \in Gens : setup.gen < g => tasks[g].at = "ended"
    /\ setup.phase = "scanning" <=> setup.gen \in Gens /\ tasks[setup.gen].kind = "scan"
    /\ setup.phase = "provisioning" <=> setup.gen \in Gens /\ tasks[setup.gen].kind = "run"
    /\ setup.run.state = "running" <=> setup.phase = "provisioning"
    /\ setup.phase = "provisioning" => setup.run.dev = tasks[setup.gen].dev

\* The step shown of a run, from where its goroutine is.
StepFits(task, step) ==
    /\ task.at \in {"gathering", "issuing", "calling"} => step = 0
    /\ task.at = "connecting" => step = StepConnecting
    /\ task.at = "identifying" => step = StepReadingInfo
    /\ task.at \in {"pairing", "sending"} => step = StepPairing
    /\ task.at = "sent" => step = StepSending
    /\ task.at = "awaiting" => step = StepApplying
    /\ task.at \in {"closing", "done"} /\ task.result = "applied" => step = StepApplying

StepsFit ==
    setup.phase = "provisioning" => StepFits(tasks[setup.gen], setup.run.step)

ShownOK == CurrentFits /\ StepsFit

LEMMA InitShown == Init => ShownOK
BY DEF Init, ShownOK, CurrentFits, StepsFit, NewSetup, Gens, Task

LEMMA RouteShown == GoroutinesOK /\ ShownOK /\ (Route \/ Restart) => ShownOK'
<1> SUFFICES ASSUME GoroutinesOK, ShownOK, Route \/ Restart PROVE ShownOK'
  OBVIOUS
<1> USE DEF GoroutinesOK, ShownOK, CurrentFits, StepsFit
<1>0. /\ setup.gen \in 0..MaxGen /\ MaxGen \in Nat
      /\ \A g \in Gens : tasks[g].at = "ended" <=> tasks[g].kind = "none"
  BY Numbers DEF TypeOK, SetupRecords, TasksFit, Fits
<1>1. CASE HandleScan
  <2> DEFINE new == Task("scan", "waiting", NoDevice)
  <2>1. setup.gen + 1 \in Gens
    BY <1>0, <1>1 DEF HandleScan, Idle, Gens
  <2>2. /\ setup'.phase = "scanning" /\ setup'.gen = setup.gen + 1 /\ setup'.run = setup.run
        /\ setup.phase = "idle"
    BY <1>1 DEF HandleScan, Idle, TypeOK, SetupRecords
  <2>3. tasks'[setup.gen + 1].kind = "scan"
    BY <1>1, <2>1 DEF HandleScan, TypeOK, Task
  <2>4. \A g \in Gens : setup.gen + 1 < g => tasks'[g] = tasks[g]
    BY <1>0, <1>1 DEF HandleScan, TypeOK, Gens
  <2>5. \A g \in Gens : setup.gen + 1 < g => setup.gen < g
    BY <1>0 DEF Gens
  <2>6. QED
    BY <2>1, <2>2, <2>3, <2>4, <2>5
<1>2. ASSUME NEW d \in Devices, HandleProvision(d) PROVE ShownOK'
  <2>1. setup.gen + 1 \in Gens
    BY <1>0, <1>2 DEF HandleProvision, Idle, Gens
  <2>2. /\ setup'.phase = "provisioning" /\ setup'.gen = setup.gen + 1
        /\ setup'.run = [dev |-> d, state |-> "running", step |-> 0]
    BY <1>2 DEF HandleProvision, TypeOK, SetupRecords
  <2>3. tasks'[setup.gen + 1] = Task("run", "gathering", d)
    BY <1>2, <2>1 DEF HandleProvision, TypeOK
  <2>4. \A g \in Gens : setup.gen + 1 < g => tasks'[g] = tasks[g]
    BY <1>0, <1>2 DEF HandleProvision, TypeOK, Gens
  <2>5. \A g \in Gens : setup.gen + 1 < g => setup.gen < g
    BY <1>0 DEF Gens
  <2>6. QED
    BY <2>1, <2>2, <2>3, <2>4, <2>5 DEF Task, StepFits
<1>3. CASE HandleStop
  <2>1. setup.gen \in Gens /\ setup.gen + 1 \in Gens
    BY <1>0, <1>3 DEF HandleStop, TypeOK, SetupRecords, Gens
  <2>2. /\ setup'.phase = "idle" /\ setup'.gen = setup.gen + 1
        /\ setup'.run.state # "running"
    BY <1>3 DEF HandleStop, TypeOK, SetupRecords
  <2>3. \A g \in Gens : setup.gen < g => tasks'[g] = tasks[g]
    BY <1>0, <1>3 DEF HandleStop, Turns, TypeOK, Gens
  <2>4. \A g \in Gens : setup.gen + 1 < g => setup.gen < g
    BY <1>0 DEF Gens
  <2>5. tasks[setup.gen + 1].kind = "none"
    BY <1>0, <2>1 DEF Gens
  <2>6. QED
    BY <2>1, <2>2, <2>3, <2>4, <2>5, <1>0
<1>4. CASE ScanAges
  BY <1>4 DEF ScanAges, TypeOK, SetupRecords
<1>5. CASE Restart
  <2>1. /\ setup'.phase = "idle" /\ setup'.run.state = "none"
        /\ \A g \in Gens : tasks'[g].kind = "none" /\ tasks'[g].at = "ended"
    BY <1>5 DEF Restart, NewSetup, Task
  <2>2. QED
    BY <2>1
<1>6. QED
  BY <1>1, <1>2, <1>3, <1>4, <1>5 DEF Route

LEMMA Acting ==
    ASSUME NEW g \in Gens, GoroutineStep(g) PROVE tasks[g].at # "ended"
BY DEF GoroutineStep, RunEnds, ScanEnds, ScanTakesRadio, ScanFinds, GatherFails, Gathered, Issue,
   IssueFails, Busy, RunTakesRadio, Connected, Identified, FailsEarly, Begins, Sends, Commits,
   Hears, HearsApplied, FailsLate, Aborts, Closes, At

\* The steps between the first and the last of a goroutine.
Inside(g) == GoroutineStep(g) /\ ~RunEnds(g) /\ ~ScanEnds(g)

\* Each turns the goroutine's own record, and most of it only where an action says so.
Keeps(g, task) ==
    /\ task.kind = tasks[g].kind /\ task.dev = tasks[g].dev
    /\ Issue(g) \/ task.token = tasks[g].token
    /\ Begins(g) \/ task.alone = tasks[g].alone

LEMMA InsideTurns ==
    ASSUME GoroutinesOK, NEW g \in Gens, Inside(g)
    PROVE  Keeps(g, tasks'[g]) /\ \A h \in Gens \ {g} : tasks'[h] = tasks[h]
<1> DEFINE t == tasks[g]
<1>0. t \in TaskRecords /\ tasks \in [Gens -> TaskRecords]
  BY DEF GoroutinesOK, TypeOK
<1>1. ASSUME NEW u, Turns(g, u), Keeps(g, u)
      PROVE  Keeps(g, tasks'[g]) /\ \A h \in Gens \ {g} : tasks'[h] = tasks[h]
  BY <1>0, <1>1 DEF Turns
<1> USE DEF Keeps
<1>2. CASE \E place \in Places : GoTo(g, place)
  BY <1>0, <1>1, <1>2 DEF GoTo, TaskRecords
<1>3. CASE \E place \in Places : FailAt(g, place)
  BY <1>0, <1>1, <1>3 DEF FailAt, TaskRecords
<1>4. CASE ScanTakesRadio(g) \/ Gathered(g) \/ RunTakesRadio(g) \/ Connected(g) \/ Identified(g)
           \/ Sends(g) \/ Commits(g) \/ Aborts(g) \/ Closes(g)
  BY <1>2, <1>4 DEF ScanTakesRadio, Gathered, RunTakesRadio, Connected, Identified, Sends, Commits,
     Aborts, Closes, Places
<1>5. CASE GatherFails(g) \/ IssueFails(g) \/ Busy(g) \/ FailsEarly(g) \/ FailsLate(g)
  BY <1>3, <1>5 DEF GatherFails, IssueFails, Busy, FailsEarly, FailsLate, Places
<1>6. CASE ScanFinds(g)
  <2>1. PICK found \in SUBSET Devices : Turns(g, [t EXCEPT !.at = "done", !.found = found])
    BY <1>6 DEF ScanFinds, Advertising
  <2>2. QED
    BY <1>0, <1>1, <2>1 DEF TaskRecords
<1>7. CASE Issue(g)
  BY <1>0, <1>1, <1>7 DEF Issue, TaskRecords
<1>8. CASE Begins(g)
  BY <1>0, <1>1, <1>8 DEF Begins, TaskRecords
<1>9. CASE Hears(g)
  BY <1>0, <1>1, <1>9 DEF Hears, TaskRecords
<1>10. CASE HearsApplied(g)
  BY <1>0, <1>1, <1>10 DEF HearsApplied, TaskRecords
<1>11. QED
  BY <1>4, <1>5, <1>6, <1>7, <1>8, <1>9, <1>10 DEF Inside, GoroutineStep

\* Each reports the next step of the run, or none.
Reports(g) ==
    /\ setup'.phase = setup.phase /\ setup'.gen = setup.gen
    /\ setup'.run.dev = setup.run.dev /\ setup'.run.state = setup.run.state
    /\ setup.gen # g \/ setup.run.state # "running" => setup'.run.step = setup.run.step
    /\ setup.gen = g /\ setup.run.state = "running" /\ StepFits(tasks[g], setup.run.step)
         => /\ StepFits(tasks'[g], setup'.run.step)
            /\ \/ setup'.run.step = setup.run.step
               \/ setup.run.step < StepApplying /\ setup'.run.step = setup.run.step + 1

LEMMA InsideReports ==
    ASSUME GoroutinesOK, NEW g \in Gens, Inside(g)
    PROVE  Reports(g)
<1> DEFINE t == tasks[g]
<1>0. /\ t \in TaskRecords /\ tasks \in [Gens -> TaskRecords] /\ setup \in SetupRecords
      /\ setup.run.step \in 0..StepApplying
  BY DEF GoroutinesOK, TypeOK, SetupRecords
<1>1. ASSUME NEW n \in 1..StepApplying, NEW place \in Places, Report(g, n), GoTo(g, place),
             StepFits(t, setup.run.step) => setup.run.step = n - 1,
             StepFits([t EXCEPT !.at = place], n)
      PROVE  Reports(g)
  <2>1. n \in 0..StepApplying /\ n - 1 < StepApplying /\ n = (n - 1) + 1
    BY DEF StepApplying
  <2>2. tasks'[g] = [t EXCEPT !.at = place]
    BY <1>0, <1>1 DEF GoTo, Turns
  <2>3. QED
    BY <1>0, <1>1, <2>1, <2>2, ReportType DEF Reports
<1>2. ASSUME UNCHANGED setup, StepFits(t, setup.run.step) => StepFits(tasks'[g], setup.run.step)
      PROVE  Reports(g)
  BY <1>2 DEF Reports
<1> USE DEF StepConnecting, StepReadingInfo, StepPairing, StepSending, StepApplying
<1>3. CASE RunTakesRadio(g)
  <2>1. /\ StepFits(t, setup.run.step) => setup.run.step = 0
        /\ StepFits([t EXCEPT !.at = "connecting"], 1)
    BY <1>0, <1>3 DEF RunTakesRadio, At, StepFits, TaskRecords
  <2>2. Report(g, 1) /\ GoTo(g, "connecting")
    BY <1>3 DEF RunTakesRadio
  <2>3. 1 \in 1..StepApplying /\ "connecting" \in Places /\ 0 = 1 - 1
    BY DEF Places
  <2>4. QED
    BY <1>1, <2>1, <2>2, <2>3
<1>4. CASE Connected(g)
  <2>1. /\ StepFits(t, setup.run.step) => setup.run.step = 1
        /\ StepFits([t EXCEPT !.at = "identifying"], 2)
    BY <1>0, <1>4 DEF Connected, At, StepFits, TaskRecords
  <2>2. Report(g, 2) /\ GoTo(g, "identifying")
    BY <1>4 DEF Connected
  <2>3. 2 \in 1..StepApplying /\ "identifying" \in Places /\ 1 = 2 - 1
    BY DEF Places
  <2>4. QED
    BY <1>1, <2>1, <2>2, <2>3
<1>5. CASE Identified(g)
  <2>1. /\ StepFits(t, setup.run.step) => setup.run.step = 2
        /\ StepFits([t EXCEPT !.at = "pairing"], 3)
    BY <1>0, <1>5 DEF Identified, At, StepFits, TaskRecords
  <2>2. Report(g, 3) /\ GoTo(g, "pairing")
    BY <1>5 DEF Identified
  <2>3. 3 \in 1..StepApplying /\ "pairing" \in Places /\ 2 = 3 - 1
    BY DEF Places
  <2>4. QED
    BY <1>1, <2>1, <2>2, <2>3
<1>6. CASE Sends(g)
  <2>1. /\ StepFits(t, setup.run.step) => setup.run.step = 3
        /\ StepFits([t EXCEPT !.at = "sent"], 4)
    BY <1>0, <1>6 DEF Sends, At, StepFits, TaskRecords
  <2>2. Report(g, 4) /\ GoTo(g, "sent")
    BY <1>6 DEF Sends
  <2>3. 4 \in 1..StepApplying /\ "sent" \in Places /\ 3 = 4 - 1
    BY DEF Places
  <2>4. QED
    BY <1>1, <2>1, <2>2, <2>3
<1>7. CASE Commits(g)
  <2>1. /\ StepFits(t, setup.run.step) => setup.run.step = 4
        /\ StepFits([t EXCEPT !.at = "awaiting"], 5)
    BY <1>0, <1>7 DEF Commits, At, StepFits, TaskRecords
  <2>2. Report(g, 5) /\ GoTo(g, "awaiting")
    BY <1>7 DEF Commits
  <2>3. 5 \in 1..StepApplying /\ "awaiting" \in Places /\ 4 = 5 - 1
    BY DEF Places
  <2>4. QED
    BY <1>1, <2>1, <2>2, <2>3
<1>8. CASE GatherFails(g) \/ IssueFails(g) \/ Busy(g) \/ FailsEarly(g) \/ FailsLate(g)
  <2>1. PICK place \in {"done", "closing", "aborting"} : FailAt(g, place)
    BY <1>8 DEF GatherFails, IssueFails, Busy, FailsEarly, FailsLate
  <2>2. tasks'[g] = [t EXCEPT !.at = place, !.heard = "nothing", !.result = "failed"]
    BY <1>0, <2>1 DEF FailAt, Turns
  <2>3. StepFits(tasks'[g], setup.run.step)
    BY <1>0, <2>2 DEF StepFits, TaskRecords
  <2>4. UNCHANGED setup
    BY <1>8 DEF GatherFails, IssueFails, Busy, FailsEarly, FailsLate
  <2>5. QED
    BY <1>2, <2>3, <2>4
<1>9. CASE ScanTakesRadio(g)
  BY <1>0, <1>2, <1>9 DEF ScanTakesRadio, GoTo, Turns, At, StepFits, TaskRecords
<1>10. CASE ScanFinds(g)
  <2>1. PICK found \in SUBSET Devices : Turns(g, [t EXCEPT !.at = "done", !.found = found])
    BY <1>10 DEF ScanFinds, Advertising
  <2>2. t.result = "none"
    BY <1>10 DEF GoroutinesOK, TasksFit, Fits, ScanFinds, At, ScanPlaces
  <2>3. QED
    BY <1>0, <1>2, <1>10, <2>1, <2>2 DEF ScanFinds, Turns, At, StepFits, TaskRecords
<1>11. CASE Gathered(g)
  BY <1>0, <1>2, <1>11 DEF Gathered, GoTo, Turns, At, StepFits, TaskRecords
<1>12. CASE Issue(g)
  BY <1>0, <1>2, <1>12 DEF Issue, Turns, At, StepFits, TaskRecords
<1>13. CASE Begins(g)
  BY <1>0, <1>2, <1>13 DEF Begins, Turns, At, StepFits, TaskRecords
<1>14. CASE Hears(g)
  BY <1>0, <1>2, <1>14 DEF Hears, Turns, At, StepFits, TaskRecords
<1>15. CASE HearsApplied(g)
  BY <1>0, <1>2, <1>15 DEF HearsApplied, Turns, At, StepFits, TaskRecords
<1>16. CASE Aborts(g)
  <2>1. t.result = "failed"
    BY <1>16 DEF GoroutinesOK, TasksFit, Fits, Aborts, At
  <2>2. QED
    BY <1>0, <1>2, <1>16, <2>1 DEF Aborts, GoTo, Turns, At, StepFits, TaskRecords
<1>17. CASE Closes(g)
  BY <1>0, <1>2, <1>17 DEF Closes, GoTo, Turns, At, StepFits, TaskRecords
<1>18. QED
  BY <1>3, <1>4, <1>5, <1>6, <1>7, <1>8, <1>9, <1>10, <1>11, <1>12, <1>13, <1>14, <1>15, <1>16, <1>17
  DEF Inside, GoroutineStep

\* A goroutine's end: that of the operation shown, or of one that is not shown any more.
LEMMA EndShown ==
    ASSUME GoroutinesOK, ShownOK, NEW g \in Gens, RunEnds(g) \/ ScanEnds(g)
    PROVE  /\ ShownOK'
           /\ RunEnds(g) /\ setup.gen = g
                => /\ setup.run.state = "running" /\ setup'.run.state = tasks[g].result
                   /\ tasks[g].result \in Ends
                   /\ tasks[g].result = "applied" => setup.run.step = StepApplying
                   /\ setup'.run.step = setup.run.step
           /\ ~(RunEnds(g) /\ setup.gen = g) => setup'.run = setup.run
<1> USE DEF GoroutinesOK, ShownOK, CurrentFits, StepsFit
<1>0. /\ setup \in SetupRecords /\ tasks \in [Gens -> TaskRecords] /\ Fits(g, tasks[g])
      /\ \A h \in Gens : tasks[h].at = "ended" <=> tasks[h].kind = "none"
  BY DEF TypeOK, TasksFit, Fits
<1>1. /\ tasks[g].at = "done"
      /\ tasks'[g].at = "ended" /\ tasks'[g].kind = "none"
      /\ \A h \in Gens \ {g} : tasks'[h] = tasks[h]
  BY <1>0 DEF RunEnds, ScanEnds, At, Gone, Task
<1>2. CASE setup.gen # g
  <2>1. setup' = setup
    BY <1>2 DEF RunEnds, ScanEnds, Outcome
  <2>2. QED
    BY <1>1, <1>2, <2>1
<1>3. CASE setup.gen = g
  <2>1. setup'.gen = g /\ setup'.phase = "idle"
    <3>1. CASE RunEnds(g)
      BY <1>0, <1>3, <3>1 DEF RunEnds, Outcome, SetupRecords
    <3>2. CASE ScanEnds(g)
      BY <1>0, <1>3, <3>2 DEF ScanEnds, SetupRecords
    <3>3. QED
      BY <3>1, <3>2
  <2>2. CASE RunEnds(g)
    <3>1. /\ setup.run.state = "running" /\ tasks[g].result \in Ends
          /\ tasks[g].result = "applied" => setup.run.step = StepApplying
      BY <1>0, <1>1, <1>3, <2>2 DEF RunEnds, Fits, StepFits
    <3>2. setup'.run.state = tasks[g].result /\ setup'.run.step = setup.run.step
      BY <1>0, <1>3, <2>2 DEF RunEnds, Outcome, SetupRecords
    <3>3. QED
      BY <1>1, <1>3, <2>1, <2>2, <3>1, <3>2 DEF Ends
  <2>3. CASE ScanEnds(g)
    <3>1. setup'.run = setup.run /\ setup.run.state # "running"
      BY <1>0, <1>3, <2>3 DEF ScanEnds, SetupRecords
    <3>2. ~RunEnds(g)
      BY <2>3 DEF ScanEnds, RunEnds
    <3>3. QED
      BY <1>1, <1>3, <2>1, <3>1, <3>2
  <2>4. QED
    BY <2>2, <2>3
<1>4. QED
  BY <1>2, <1>3

LEMMA InsideShown ==
    ASSUME GoroutinesOK, ShownOK, NEW g \in Gens, Inside(g)
    PROVE  ShownOK'
<1> USE DEF ShownOK, CurrentFits, StepsFit
<1>1. Reports(g)
  BY InsideReports
<1>2. /\ tasks'[g].kind = tasks[g].kind /\ tasks'[g].dev = tasks[g].dev
      /\ \A h \in Gens \ {g} : tasks'[h] = tasks[h]
  BY InsideTurns DEF Keeps
<1>3. tasks[g].at # "ended"
  BY Acting DEF Inside
<1>4. QED
  BY <1>1, <1>2, <1>3 DEF Reports

LEMMA ShownStep == GoroutinesOK /\ ShownOK /\ [Next]_vars => ShownOK'
<1> SUFFICES ASSUME GoroutinesOK, ShownOK, [Next]_vars PROVE ShownOK'
  OBVIOUS
<1>1. CASE Route \/ Restart
  BY <1>1, RouteShown
<1>2. ASSUME NEW g \in Gens, GoroutineStep(g) PROVE ShownOK'
  BY <1>2, InsideShown, EndShown DEF Inside
<1>3. ASSUME NEW d \in Devices, DeviceMoves(d) PROVE UNCHANGED <<setup, tasks>>
  BY <1>3 DEF DeviceMoves, Advertises, StartApply, Saves, SaveFails, Joins, JoinFails, Dwells,
     LinkLost, PowerCut, Erased, DeviceStep, Outage
<1>4. CASE UNCHANGED <<setup, tasks>>
  BY <1>4 DEF ShownOK, CurrentFits, StepsFit
<1>5. CASE UNCHANGED vars
  BY <1>4, <1>5 DEF vars
<1>6. QED
  BY <1>1, <1>2, <1>3, <1>4, <1>5 DEF Next

LEMMA ShownInvariant == Spec => [](GoroutinesOK /\ ShownOK)
<1>1. Init => ShownOK
  BY InitShown
<1>2. QED
  BY <1>1, ShownStep, GoroutinesSane, PTL DEF Spec

\* setup.go:338-341: whatever is shown as going on has a goroutine of its kind.
THEOREM ShownAlive == Spec => []ShownIsAlive
<1>1. GoroutinesOK /\ ShownOK => ShownIsAlive
  BY DEF GoroutinesOK, TasksFit, Fits, TypeOK, SetupRecords, ShownOK, CurrentFits, ShownIsAlive
<1>2. QED
  BY <1>1, ShownInvariant, PTL
-----------------------------------------------------------------------------
(* The setup implements the promise of SetupRun *)

\* setup.go:334-336, the initial states.
LEMMA InitAsPromised == Init => Shown!Init
BY DEF Init, Shown!Init, NewSetup

LEMMA StepAsPromised ==
    GoroutinesOK /\ ShownOK /\ [Next]_vars => [Shown!Next]_(Shown!runVars)
<1> SUFFICES ASSUME GoroutinesOK, ShownOK, [Next]_vars PROVE [Shown!Next]_(Shown!runVars)
  OBVIOUS
<1> USE DEF Shown!Next, Shown!runVars
<1>0. setup \in SetupRecords
  BY DEF GoroutinesOK, TypeOK
<1>1. CASE HandleScan \/ ScanAges
  BY <1>0, <1>1 DEF HandleScan, ScanAges, SetupRecords
<1>2. ASSUME NEW d \in Devices, HandleProvision(d) PROVE Shown!Begin
  BY <1>0, <1>2 DEF HandleProvision, Idle, ShownOK, CurrentFits, SetupRecords, Shown!Begin
<1>3. CASE HandleStop
  <2>1. CASE setup.run.state = "running"
    BY <1>0, <1>3, <2>1 DEF HandleStop, SetupRecords, Shown!End, Shown!Over
  <2>2. CASE setup.run.state # "running"
    BY <1>0, <1>3, <2>2 DEF HandleStop, SetupRecords
  <2>3. QED
    BY <2>1, <2>2
<1>4. CASE Restart
  BY <1>4 DEF Restart, NewSetup, Shown!Forget
<1>5. ASSUME NEW g \in Gens, Inside(g) PROVE [Shown!Next]_(Shown!runVars)
  <2>1. Reports(g)
    BY <1>5, InsideReports
  <2>2. CASE setup'.run.step = setup.run.step
    BY <2>1, <2>2 DEF Reports
  <2>3. CASE setup'.run.step # setup.run.step
    <3>1. /\ setup.gen = g /\ setup.run.state = "running" /\ setup.phase = "provisioning"
          /\ StepFits(tasks[g], setup.run.step)
      BY <2>1, <2>3 DEF Reports, ShownOK, CurrentFits, StepsFit
    <3>2. QED
      BY <2>1, <2>3, <3>1 DEF Reports, Shown!Advance
  <2>4. QED
    BY <2>2, <2>3
<1>6. ASSUME NEW g \in Gens, RunEnds(g) \/ ScanEnds(g) PROVE [Shown!Next]_(Shown!runVars)
  <2>1. CASE RunEnds(g) /\ setup.gen = g
    BY <1>6, <2>1, EndShown DEF Shown!End, Shown!Over, Ends
  <2>2. CASE ~(RunEnds(g) /\ setup.gen = g)
    BY <1>6, <2>2, EndShown
  <2>3. QED
    BY <2>1, <2>2
<1>7. ASSUME NEW d \in Devices, DeviceMoves(d) PROVE UNCHANGED setup
  BY <1>7 DEF DeviceMoves, Advertises, StartApply, Saves, SaveFails, Joins, JoinFails, Dwells,
     LinkLost, PowerCut, Erased, DeviceStep, Outage
<1>8. CASE UNCHANGED setup
  BY <1>8
<1>9. CASE UNCHANGED vars
  BY <1>8, <1>9 DEF vars
<1>10. QED
  BY <1>1, <1>2, <1>3, <1>4, <1>5, <1>6, <1>7, <1>8, <1>9 DEF Next, Route, Inside

\* setup.go:334-336: the run that is shown goes through its steps in order and stays as it
\* ended, whatever goroutines of earlier runs still do.
THEOREM RunAsPromised == Spec => RunIsAsPromised
<1>1. QED
  BY InitAsPromised, StepAsPromised, ShownInvariant, PTL DEF Spec, RunIsAsPromised, Shown!Spec
-----------------------------------------------------------------------------
(* Tokens *)

\* The daemon accepts the token from the device, or has replaced it.
Accepted(d, token) ==
    token # NoToken => token = store.file[d] \/ token \in store.replaced[d]

\* So it is with every token on its way into a device, and in it.
TokensFit ==
    /\ \A g \in Gens : tasks[g].dev \in Devices => Accepted(tasks[g].dev, tasks[g].token)
    /\ \A d \in Devices : Accepted(d, devices[d].held) /\ Accepted(d, devices[d].stored)

LEMMA InitTokens == Init => TokensFit
BY DEF Init, TokensFit, Accepted, Task, Blank

\* The store only ever replaces a token by recording the old one.
LEMMA StillAccepted ==
    ASSUME \/ UNCHANGED store
           \/ store'.file = store.file /\ store'.replaced = store.replaced
           \/ \E g \in Gens : TypeOK /\ Issue(g),
           NEW d \in Devices, NEW token, Accepted(d, token)
    PROVE  Accepted(d, token)'
<1>1. CASE UNCHANGED store \/ (store'.file = store.file /\ store'.replaced = store.replaced)
  BY <1>1 DEF Accepted
<1>2. ASSUME NEW g \in Gens, TypeOK, Issue(g) PROVE Accepted(d, token)'
  <2> DEFINE e == tasks[g].dev
  <2>1. /\ store'.file = [store.file EXCEPT ![e] = g]
        /\ store'.replaced = [store.replaced EXCEPT ![e] = @ \union {store.file[e]}]
    BY <1>2 DEF Issue
  <2>2. store.file \in [Devices -> Tokens \union {NoToken}] /\ DOMAIN store.replaced = Devices
    BY <1>2 DEF TypeOK, StoreRecords
  <2> HIDE DEF e
  <2>3. QED
    BY <2>1, <2>2 DEF Accepted
<1>3. QED
  BY <1>1, <1>2

LEMMA TokensStep == GoroutinesOK /\ TokensFit /\ [Next]_vars => TokensFit'
<1> SUFFICES ASSUME GoroutinesOK, TokensFit, [Next]_vars PROVE TokensFit'
  OBVIOUS
<1>0. /\ tasks \in [Gens -> TaskRecords] /\ devices \in [Devices -> DeviceRecords]
      /\ store \in StoreRecords
  BY DEF GoroutinesOK, TypeOK
<1>1. CASE Route
  <2>1. UNCHANGED <<store, devices>>
    BY <1>1 DEF Route, HandleScan, HandleStop, ScanAges, HandleProvision
  <2>2. ASSUME NEW g \in Gens
        PROVE  \/ tasks'[g].token = NoToken
               \/ tasks'[g].token = tasks[g].token /\ tasks'[g].dev = tasks[g].dev
    <3>1. CASE HandleScan
      BY <1>0, <3>1 DEF HandleScan, Task
    <3>2. CASE HandleStop
      <4>1. tasks[setup.gen] \in TaskRecords \/ g # setup.gen
        BY <1>0
      <4>2. QED
        BY <1>0, <3>2, <4>1 DEF HandleStop, Turns, TaskRecords
    <3>3. CASE ScanAges
      BY <3>3 DEF ScanAges
    <3>4. CASE \E d \in Devices : HandleProvision(d)
      BY <1>0, <3>4 DEF HandleProvision, Task
    <3>5. QED
      BY <1>1, <3>1, <3>2, <3>3, <3>4 DEF Route
  <2>3. QED
    BY <2>1, <2>2 DEF TokensFit, Accepted
<1>2. CASE Restart
  <2>1. /\ store'.file = store.file /\ store'.replaced = store.replaced
        /\ \A g \in Gens : tasks'[g].token = NoToken
        /\ \A d \in Devices : /\ devices'[d].held = devices[d].held
                              /\ devices'[d].stored = devices[d].stored
    BY <1>0, <1>2 DEF Restart, Task, StoreRecords, DeviceRecords
  <2>2. QED
    BY <2>1 DEF TokensFit, Accepted
<1>3. ASSUME NEW g \in Gens, GoroutineStep(g) PROVE TokensFit'
  <2> DEFINE d == tasks[g].dev
  <2>0. tasks[g] \in TaskRecords /\ Fits(g, tasks[g])
    BY <1>0 DEF GoroutinesOK, TasksFit
  \* A step that leaves tokens, or forgets them.
  <2>1. ASSUME UNCHANGED <<store, devices>>,
               \A h \in Gens : \/ tasks'[h].token = NoToken
                               \/ tasks'[h].token = tasks[h].token /\ tasks'[h].dev = tasks[h].dev
        PROVE  TokensFit'
    BY <2>1 DEF TokensFit, Accepted
  <2>2. CASE RunEnds(g) \/ ScanEnds(g)
    BY <1>0, <2>1, <2>2 DEF RunEnds, ScanEnds, Gone, Task
  <2>3. Inside(g) => Keeps(g, tasks'[g]) /\ \A h \in Gens \ {g} : tasks'[h] = tasks[h]
    BY InsideTurns
  <2>4. CASE /\ ~Issue(g) /\ ~RunEnds(g) /\ ~ScanEnds(g)
             /\ \/ ScanTakesRadio(g) \/ Gathered(g) \/ RunTakesRadio(g) \/ Identified(g)
                \/ ScanFinds(g) \/ GatherFails(g) \/ IssueFails(g) \/ Busy(g) \/ FailsEarly(g)
                \/ Hears(g) \/ HearsApplied(g) \/ FailsLate(g)
    <3>1. UNCHANGED <<store, devices>>
      BY <2>4 DEF ScanTakesRadio, Gathered, RunTakesRadio, Identified, ScanFinds, GatherFails, Busy,
         FailsEarly, Hears, HearsApplied, FailsLate, IssueFails
    <3>2. QED
      BY <1>3, <2>1, <2>3, <2>4, <3>1 DEF Inside, Keeps
  <2>6. CASE Issue(g)
    <3>1. d \in Devices
      BY <2>0, <2>6 DEF Issue, At, Fits, RunPlaces
    <3>2. store'.file[d] = g
      BY <1>0, <2>6, <3>1 DEF Issue, StoreRecords
    <3>3. /\ tasks'[g].token = g /\ tasks'[g].dev = d
          /\ \A h \in Gens \ {g} : tasks'[h] = tasks[h]
      BY <1>0, <2>6 DEF Issue, Turns, TaskRecords
    <3>4. UNCHANGED devices
      BY <2>6 DEF Issue
    <3>5. \A e \in Devices : \A token : Accepted(e, token) => Accepted(e, token)'
      BY <2>6, StillAccepted DEF GoroutinesOK
    <3>6. QED
      BY <3>1, <3>2, <3>3, <3>4, <3>5 DEF TokensFit, Accepted
  \* A step that hands a token over, or leaves those of the device.
  <2>7. ASSUME NEW device, Leaves(g, device), UNCHANGED store, d \in Devices,
               device.stored = devices[d].stored,
               device.held \in {NoToken, devices[d].held, tasks[g].token},
               \A h \in Gens : tasks'[h].token = tasks[h].token /\ tasks'[h].dev = tasks[h].dev
        PROVE  TokensFit'
    <3>1. devices'[d] = device /\ \A e \in Devices \ {d} : devices'[e] = devices[e]
      BY <1>0, <2>7 DEF Leaves
    <3>2. QED
      BY <2>7, <3>1 DEF TokensFit, Accepted
  <2>8. CASE /\ ~Issue(g) /\ ~RunEnds(g) /\ ~ScanEnds(g)
             /\ \/ Connected(g) \/ Sends(g) \/ Commits(g)
                \/ Aborts(g) \/ Closes(g) \/ Begins(g)
    <3>1. d \in Devices /\ Device(g) \in DeviceRecords
      BY <1>0, <2>0, <2>8
      DEF Connected, Sends, Commits, Aborts, Closes, Begins, At, Fits, RunPlaces, Device
    <3>2. \A h \in Gens : tasks'[h].token = tasks[h].token /\ tasks'[h].dev = tasks[h].dev
      BY <1>3, <2>3, <2>8 DEF Inside, Keeps
    <3>3. UNCHANGED store
      BY <2>8 DEF Connected, Sends, Commits, Aborts, Closes, Begins
    <3>4. CASE UNCHANGED devices
      BY <2>1, <3>2, <3>3, <3>4
    <3>5. ASSUME NEW device, Leaves(g, device), device.stored = Device(g).stored,
                 device.held \in {NoToken, Device(g).held, tasks[g].token}
          PROVE  TokensFit'
      BY <2>7, <3>1, <3>2, <3>3, <3>5 DEF Device
    <3>6. CASE Connected(g)
      BY <3>1, <3>5, <3>6 DEF Connected, DeviceRecords
    <3>7. CASE Sends(g)
      BY <3>1, <3>5, <3>7 DEF Sends, DeviceRecords
    <3>8. CASE Commits(g)
      BY <3>1, <3>5, <3>8 DEF Commits, DeviceRecords
    <3>9. CASE Aborts(g)
      BY <3>1, <3>4, <3>5, <3>9 DEF Aborts, DeviceRecords
    <3>10. CASE Closes(g)
      BY <3>1, <3>4, <3>5, <3>10 DEF Closes, DeviceRecords
    <3>11. CASE Begins(g)
      BY <3>1, <3>5, <3>11 DEF Begins, DeviceRecords
    <3>12. QED
      BY <2>8, <3>6, <3>7, <3>8, <3>9, <3>10, <3>11
  <2>9. QED
    BY <1>3, <2>2, <2>4, <2>6, <2>8 DEF GoroutineStep
<1>4. ASSUME NEW d \in Devices, DeviceMoves(d) PROVE TokensFit'
  <2>1. UNCHANGED <<store, tasks>>
    BY <1>4 DEF DeviceMoves, Advertises, StartApply, Saves, SaveFails, Joins, JoinFails, Dwells,
       LinkLost, PowerCut, Erased, DeviceStep, Outage
  <2>2. ASSUME NEW after, devices' = [devices EXCEPT ![d] = after],
               after.held \in {NoToken, devices[d].held},
               after.stored \in {NoToken, devices[d].held, devices[d].stored}
        PROVE  TokensFit'
    <3>1. devices'[d] = after /\ \A e \in Devices \ {d} : devices'[e] = devices[e]
      BY <1>0, <2>2
    <3>2. QED
      BY <2>1, <2>2, <3>1 DEF TokensFit, Accepted
  <2>3. devices[d] \in DeviceRecords
    BY <1>0
  <2>4. CASE Advertises(d) \/ StartApply(d) \/ Dwells(d) \/ LinkLost(d)
    BY <2>2, <2>3, <2>4
    DEF Advertises, StartApply, Dwells, LinkLost, DeviceStep, Outage, DeviceRecords
  <2>5. CASE Saves(d) \/ SaveFails(d) \/ JoinFails(d)
    BY <2>2, <2>3, <2>5 DEF Saves, SaveFails, JoinFails, DeviceStep, DeviceRecords
  <2>6. CASE Joins(d)
    BY <2>2, <2>3, <2>6 DEF Joins, DeviceStep, DeviceRecords
  <2>7. CASE PowerCut(d) \/ Erased(d)
    BY <2>2, <2>3, <2>7 DEF PowerCut, Erased, Outage, Blank, DeviceRecords
  <2>8. QED
    BY <1>4, <2>4, <2>5, <2>6, <2>7 DEF DeviceMoves
<1>5. CASE UNCHANGED vars
  BY <1>5 DEF vars, TokensFit, Accepted
<1>6. QED
  BY <1>1, <1>2, <1>3, <1>4, <1>5 DEF Next, Route

\* pairing.go:228-231: the token in a device is one the daemon accepts, after failed saves
\* and restarts too, unless a later run replaced it.
THEOREM StoredAccepted == Spec => []StoredIsAccepted
<1>1. TokensFit => StoredIsAccepted
  BY DEF TokensFit, Accepted, StoredIsAccepted
<1>2. QED
  BY <1>1, InitTokens, TokensStep, GoroutinesSane, PTL DEF Spec
-----------------------------------------------------------------------------
(* A transfer that has the device for itself *)

\* How far the device is with the transfer of goroutine g, from where g is.
Transfer(g, at, d) ==
    \/ at = "sending" /\ d.phase = "serving" /\ d.dec = "receiving"
    \/ at = "sent" /\ d.phase = "serving" /\ d.dec = "receiving" /\ d.held = g
    \/ /\ at = "awaiting"
       /\ \/ d.phase = "serving" /\ d.dec = "ready" /\ d.held = g
          \/ d.phase = "serving" /\ d.dec = "failed"
          \/ d.phase = "saving" /\ d.dec = "applying" /\ d.held = g
          \/ d.phase = "joining" /\ d.dec = "applying" /\ d.stored = g
          \/ d.phase = "applied" /\ g \in d.joined

\* A run that began alone is in step with its device as long as they are linked, and
\* hears and reports a join only of its own token.
Lone(g, task, d) ==
    task.kind = "run" /\ task.alone =>
        /\ task.at \in {"sending", "sent", "awaiting"} /\ d.link = g => Transfer(g, task.at, d)
        /\ task.heard = "applied" => g \in d.joined
        /\ task.at \in {"closing", "done"} /\ task.result = "applied" => g \in d.joined

LoneFit == \A g \in Gens : Lone(g, tasks[g], devices[tasks[g].dev])

LEMMA InitLone == Init => LoneFit
BY DEF Init, LoneFit, Lone, Task

\* A device that waits for a record reports no success of an earlier one: what a run
\* hears before its transfer began cannot pass for its own verdict.
ServingFits ==
    \A d \in Devices : devices[d].phase = "serving" => devices[d].dec # "applied"

LEMMA InitServing == Init => ServingFits
BY DEF Init, ServingFits, Blank

LEMMA ServingStep == GoroutinesOK /\ ServingFits /\ [Next]_vars => ServingFits'
<1> SUFFICES ASSUME GoroutinesOK, ServingFits, [Next]_vars PROVE ServingFits'
  OBVIOUS
<1>0. devices \in [Devices -> DeviceRecords]
  BY DEF GoroutinesOK, TypeOK
<1>1. CASE UNCHANGED devices
  BY <1>1 DEF ServingFits
<1>2. ASSUME NEW d \in Devices, NEW after, devices' = [devices EXCEPT ![d] = after],
             \/ after.phase = devices[d].phase /\ after.dec \in Verdicts \ {"applied"}
             \/ after.phase = devices[d].phase /\ after.dec = devices[d].dec
             \/ after.phase # "serving"
             \/ after.dec \in {"failed", "idle"}
      PROVE  ServingFits'
  BY <1>0, <1>2 DEF ServingFits
<1>3. CASE Restart
  BY <1>0, <1>3 DEF Restart, ServingFits, DeviceRecords
<1>4. CASE Route
  BY <1>1, <1>4 DEF Route, HandleScan, HandleProvision, HandleStop, ScanAges
<1>5. ASSUME NEW g \in Gens, GoroutineStep(g) PROVE ServingFits'
  <2> DEFINE d == tasks[g].dev
             old == devices[d]
  <2>1. ASSUME Connected(g) \/ Begins(g) \/ Sends(g) \/ Commits(g) \/ Aborts(g) \/ Closes(g)
        PROVE  d \in Devices /\ Device(g) = old /\ old \in DeviceRecords
    BY <1>0, <2>1 DEF Connected, Begins, Sends, Commits, Aborts, Closes, At, GoroutinesOK, TypeOK,
       TasksFit, Fits, RunPlaces, Device
  <2>2. CASE Connected(g)
    BY <1>2, <2>1, <2>2 DEF Connected, Leaves, DeviceRecords
  <2>3. CASE Begins(g)
    BY <1>2, <2>1, <2>3 DEF Begins, Leaves, DeviceRecords, Verdicts
  <2>4. CASE Sends(g)
    BY <1>2, <2>1, <2>4 DEF Sends, Leaves, DeviceRecords
  <2>5. CASE Commits(g)
    <3>1. PICK verdict \in {"ready", "failed"} :
             Leaves(g, [old EXCEPT !.dec = IF @ = "receiving" THEN verdict ELSE @])
      BY <2>1, <2>5 DEF Commits
    <3>2. QED
      BY <1>2, <2>1, <2>5, <3>1 DEF Leaves, DeviceRecords, Verdicts
  <2>6. CASE Aborts(g)
    BY <1>1, <1>2, <2>1, <2>6 DEF Aborts, Leaves, DeviceRecords
  <2>7. CASE Closes(g)
    BY <1>1, <1>2, <2>1, <2>7 DEF Closes, Leaves, DeviceRecords
  <2>8. QED
    BY <1>1, <1>5, <2>2, <2>3, <2>4, <2>5, <2>6, <2>7
    DEF GoroutineStep, RunEnds, ScanEnds, ScanTakesRadio, ScanFinds, GatherFails, Gathered, Issue,
        IssueFails, Busy, RunTakesRadio, Identified, FailsEarly, Hears, HearsApplied, FailsLate
<1>6. ASSUME NEW d \in Devices, DeviceMoves(d) PROVE ServingFits'
  <2>0. devices[d] \in DeviceRecords
    BY <1>0
  <2>1. CASE Advertises(d) \/ LinkLost(d)
    BY <1>2, <2>0, <2>1 DEF Advertises, LinkLost, DeviceStep, Outage, DeviceRecords
  <2>2. CASE StartApply(d) \/ Saves(d) \/ Joins(d) \/ Dwells(d)
    BY <1>2, <2>0, <2>2 DEF StartApply, Saves, Joins, Dwells, DeviceStep, DeviceRecords
  <2>3. CASE SaveFails(d) \/ JoinFails(d)
    BY <1>2, <2>0, <2>3 DEF SaveFails, JoinFails, DeviceStep, DeviceRecords
  <2>4. CASE PowerCut(d) \/ Erased(d)
    BY <1>2, <2>0, <2>4 DEF PowerCut, Erased, Outage, Blank, DeviceRecords
  <2>5. QED
    BY <1>6, <2>1, <2>2, <2>3, <2>4 DEF DeviceMoves
<1>7. QED
  BY <1>1, <1>3, <1>4, <1>5, <1>6 DEF Next, vars

\* What a step of another goroutine, or nothing at all, does to a run.
LEMMA OtherLone ==
    ASSUME NEW g \in Gens, NEW task, NEW d, NEW e, Lone(g, task, d),
           d.joined \subseteq e.joined, e.link # g \/ e = d
    PROVE  Lone(g, task, e)
BY DEF Lone

LEMMA RouteLone == GoroutinesOK /\ LoneFit /\ (Route \/ Restart) => LoneFit'
<1> SUFFICES ASSUME GoroutinesOK, LoneFit, Route \/ Restart, NEW g \in Gens
             PROVE  Lone(g, tasks[g], devices[tasks[g].dev])'
  BY DEF LoneFit
<1>0. /\ tasks \in [Gens -> TaskRecords] /\ tasks[g] \in TaskRecords
      /\ Lone(g, tasks[g], devices[tasks[g].dev])
  BY DEF GoroutinesOK, TypeOK, LoneFit
<1>1. CASE Restart
  BY <1>1 DEF Restart, Task, Lone
<1>2. CASE Route
  <2>1. UNCHANGED devices
    BY <1>2 DEF Route, HandleScan, HandleProvision, HandleStop, ScanAges
  <2>2. ASSUME tasks'[g] = tasks[g] PROVE Lone(g, tasks[g], devices[tasks[g].dev])'
    BY <1>0, <2>1, <2>2
  <2>3. CASE HandleScan
    BY <1>0, <2>2, <2>3 DEF HandleScan, Task, Lone
  <2>4. CASE \E d \in Devices : HandleProvision(d)
    BY <1>0, <2>2, <2>4 DEF HandleProvision, Task, Lone
  <2>5. CASE HandleStop
    <3>1. CASE g = setup.gen
      <4>1. tasks'[g] = [tasks[g] EXCEPT !.stopped = TRUE]
        BY <1>0, <2>5, <3>1 DEF HandleStop, Turns
      <4>2. QED
        BY <1>0, <2>1, <4>1 DEF Lone, TaskRecords
    <3>2. CASE g # setup.gen
      BY <1>0, <2>2, <2>5, <3>2 DEF HandleStop, Turns
    <3>3. QED
      BY <3>1, <3>2
  <2>6. CASE ScanAges
    BY <2>2, <2>6 DEF ScanAges
  <2>7. QED
    BY <1>2, <2>3, <2>4, <2>5, <2>6 DEF Route
<1>3. QED
  BY <1>1, <1>2

\* A goroutine changes the device it is linked with, and no other goroutine's link.
LEMMA LinksApart ==
    ASSUME GoroutinesOK, NEW g \in Gens, GoroutineStep(g)
    PROVE  \A d \in Devices : /\ devices'[d].joined = devices[d].joined
                              /\ devices'[d] = devices[d] \/ devices'[d].link \in {g, Free}
<1>0. devices \in [Devices -> DeviceRecords]
  BY DEF GoroutinesOK, TypeOK
<1>1. CASE UNCHANGED devices
  BY <1>1
<1>2. ASSUME NEW device, Leaves(g, device), tasks[g].dev \in Devices =>
             device.joined = Device(g).joined /\ device.link \in {g, Free}
      PROVE  \A d \in Devices : /\ devices'[d].joined = devices[d].joined
                                /\ devices'[d] = devices[d] \/ devices'[d].link \in {g, Free}
  BY <1>0, <1>2 DEF Leaves, Device
<1>3. tasks[g].dev \in Devices => Device(g) \in DeviceRecords
  BY <1>0 DEF Device
<1>4. CASE Connected(g)
  BY <1>2, <1>3, <1>4 DEF Connected, DeviceRecords
<1>5. CASE Begins(g)
  BY <1>2, <1>3, <1>5 DEF Begins, Linked, DeviceRecords
<1>6. CASE Sends(g)
  BY <1>2, <1>3, <1>6 DEF Sends, Linked, DeviceRecords
<1>7. CASE Commits(g)
  BY <1>2, <1>3, <1>7 DEF Commits, Linked, DeviceRecords
<1>8. CASE Aborts(g)
  BY <1>1, <1>2, <1>3, <1>8 DEF Aborts, Linked, DeviceRecords
<1>9. CASE Closes(g)
  BY <1>1, <1>2, <1>3, <1>9 DEF Closes, Linked, DeviceRecords
<1>10. QED
  BY <1>1, <1>4, <1>5, <1>6, <1>7, <1>8, <1>9
  DEF GoroutineStep, RunEnds, ScanEnds, ScanTakesRadio, ScanFinds, GatherFails, Gathered, Issue,
      IssueFails, Busy, RunTakesRadio, Identified, FailsEarly, Hears, HearsApplied, FailsLate

LEMMA GoroutineLone ==
    ASSUME GoroutinesOK, ServingFits, LoneFit, NEW g \in Gens, GoroutineStep(g)
    PROVE  LoneFit'
<1> DEFINE t == tasks[g]
           d == t.dev
<1>0. /\ tasks \in [Gens -> TaskRecords] /\ t \in TaskRecords /\ Fits(g, t)
      /\ devices \in [Devices -> DeviceRecords]
      /\ Lone(g, t, devices[d])
  BY DEF GoroutinesOK, TypeOK, TasksFit, LoneFit
<1>1. \A h \in Gens \ {g} : tasks'[h] = tasks[h]
  <2>1. CASE Inside(g)
    BY <2>1, InsideTurns
  <2>2. CASE RunEnds(g) \/ ScanEnds(g)
    BY <1>0, <2>2 DEF RunEnds, ScanEnds, Gone
  <2>3. QED
    BY <2>1, <2>2 DEF Inside
<1>2. ASSUME NEW h \in Gens \ {g} PROVE Lone(h, tasks[h], devices[tasks[h].dev])'
  <2> DEFINE e == tasks[h].dev
  <2>1. Lone(h, tasks[h], devices[e]) /\ Fits(h, tasks[h]) /\ h # Free
    BY DEF LoneFit, GoroutinesOK, TasksFit, Gens, Free
  <2>2. CASE e \in Devices
    <3>1. /\ devices'[e].joined = devices[e].joined
          /\ devices'[e] = devices[e] \/ devices'[e].link \in {g, Free}
      BY <2>2, LinksApart
    <3>2. QED
      BY <1>1, <2>1, <3>1, OtherLone
  <2>3. CASE e \notin Devices
    BY <1>1, <2>1, <2>3 DEF Lone, Fits
  <2>4. QED
    BY <2>2, <2>3
<1>3. ASSUME Lone(g, tasks[g], devices[tasks[g].dev])' PROVE LoneFit'
  BY <1>2, <1>3 DEF LoneFit
\* A move after which nothing is claimed but what was claimed before.
<1>4. ASSUME NEW u, u.kind = t.kind, u.dev = d, u.alone = t.alone, u.heard \in {"nothing", t.heard},
             u.at \notin {"sending", "sent", "awaiting"},
             u.at \in {"closing", "done"} /\ u.result = "applied" =>
                t.at \in {"closing", "done"} /\ t.result = "applied",
             tasks'[g] = u
      PROVE  LoneFit'
  <2>1. CASE d \in Devices
    <3>1. devices'[d].joined = devices[d].joined
      BY <2>1, LinksApart
    <3>2. QED
      BY <1>0, <1>3, <1>4, <3>1 DEF Lone
  <2>2. CASE d \notin Devices
    BY <1>0, <1>3, <1>4, <2>2 DEF Lone, Fits
  <2>3. QED
    BY <2>1, <2>2
<1>5. CASE RunEnds(g) \/ ScanEnds(g)
  BY <1>0, <1>3, <1>5 DEF RunEnds, ScanEnds, Gone, Task, Lone
<1>6. CASE ScanTakesRadio(g) \/ Gathered(g) \/ RunTakesRadio(g) \/ Connected(g) \/ Identified(g)
  <2>1. PICK place \in {"scanning", "issuing", "connecting", "identifying", "pairing"} :
           tasks'[g] = [t EXCEPT !.at = place]
    BY <1>0, <1>6
    DEF ScanTakesRadio, Gathered, RunTakesRadio, Connected, Identified, GoTo, Turns
  <2>2. QED
    BY <1>0, <1>4, <2>1 DEF TaskRecords
<1>7. CASE GatherFails(g) \/ IssueFails(g) \/ Busy(g) \/ FailsEarly(g) \/ FailsLate(g)
  <2>1. PICK place \in {"done", "closing", "aborting"} :
           tasks'[g] = [t EXCEPT !.at = place, !.heard = "nothing", !.result = "failed"]
    BY <1>0, <1>7
    DEF GatherFails, IssueFails, Busy, FailsEarly, FailsLate, FailAt, Turns
  <2> DEFINE u == [t EXCEPT !.at = place, !.heard = "nothing", !.result = "failed"]
  <2>2. /\ u.kind = t.kind /\ u.dev = d /\ u.alone = t.alone /\ u.heard = "nothing"
        /\ u.at = place /\ u.result = "failed"
    BY <1>0 DEF TaskRecords
  <2> HIDE DEF u
  <2>3. QED
    BY <1>4, <2>1, <2>2 DEF u
<1>8. CASE ScanFinds(g)
  <2>1. PICK found \in SUBSET Devices : Turns(g, [t EXCEPT !.at = "done", !.found = found])
    BY <1>8 DEF ScanFinds, Advertising
  <2>2. t.result = "none"
    BY <1>0, <1>8 DEF Fits, ScanFinds, At, ScanPlaces
  <2>3. tasks'[g] = [t EXCEPT !.at = "done", !.found = found]
    BY <1>0, <2>1 DEF Turns
  <2>4. QED
    BY <1>0, <1>4, <2>2, <2>3 DEF TaskRecords
<1>9. CASE Issue(g)
  <2>1. tasks'[g] = [t EXCEPT !.at = "calling", !.token = g]
    BY <1>0, <1>9 DEF Issue, Turns
  <2>2. QED
    BY <1>0, <1>4, <2>1 DEF TaskRecords
<1>10. CASE Aborts(g) \/ Closes(g)
  <2>1. /\ t.at = "closing" \/ t.result = "failed"
        /\ \E place \in {"closing", "done"} : tasks'[g] = [t EXCEPT !.at = place]
    BY <1>0, <1>10 DEF Aborts, Closes, At, Fits, GoTo, Turns
  <2>2. QED
    BY <1>0, <1>4, <2>1 DEF TaskRecords
<1>11. CASE HearsApplied(g)
  <2>1. /\ tasks'[g] = [t EXCEPT !.at = "closing", !.heard = "nothing", !.result = "applied"]
        /\ UNCHANGED devices
    BY <1>0, <1>11 DEF HearsApplied, Turns
  <2>2. t.heard = "applied"
    BY <1>11 DEF HearsApplied, Success
  <2>3. QED
    BY <1>0, <1>3, <2>1, <2>2 DEF TaskRecords, Lone
<1>12. CASE Hears(g)
  <2>1. /\ tasks'[g] = [t EXCEPT !.heard = Device(g).dec] /\ UNCHANGED devices
        /\ t.at \in {"sending", "sent", "awaiting"} /\ Device(g).link = g
    BY <1>0, <1>12 DEF Hears, Linked, Turns
  <2>2. QED
    BY <1>0, <1>3, <2>1 DEF TaskRecords, Lone, Transfer, Device
<1>13. CASE Begins(g) \/ Sends(g) \/ Commits(g)
  <2>1. /\ d \in Devices /\ devices[d] \in DeviceRecords /\ Device(g) = devices[d]
        /\ devices[d].link = g
    BY <1>0, <1>13 DEF Begins, Sends, Commits, At, Fits, RunPlaces, Linked, Device
  <2>2. CASE Begins(g)
    <3>0. PICK heard \in {"nothing", devices[d].dec} :
             Turns(g, [t EXCEPT !.at = "sending", !.heard = heard,
                                !.alone = (devices[d].phase = "serving")])
      BY <2>1, <2>2 DEF Begins
    <3>1. /\ tasks'[g] = [t EXCEPT !.at = "sending", !.heard = heard,
                                   !.alone = (devices[d].phase = "serving")]
          /\ devices'[d] = [devices[d] EXCEPT !.dec = "receiving", !.held = NoToken]
      BY <1>0, <2>1, <2>2, <3>0 DEF Begins, Turns, Leaves
    <3>2. devices[d].phase = "serving" => devices[d].dec # "applied"
      BY <2>1 DEF ServingFits
    <3>3. /\ tasks'[g].at = "sending" /\ tasks'[g].heard \in {"nothing", devices[d].dec}
          /\ tasks'[g].dev = d
          /\ tasks'[g].alone => devices[d].phase = "serving"
      BY <1>0, <3>1 DEF TaskRecords
    <3>4. devices'[d].phase = devices[d].phase /\ devices'[d].dec = "receiving"
      BY <2>1, <3>1 DEF DeviceRecords
    <3>5. QED
      BY <1>3, <3>2, <3>3, <3>4 DEF Lone, Transfer
  <2>3. CASE Sends(g)
    <3>1. /\ tasks'[g] = [t EXCEPT !.at = "sent"] /\ t.at = "sending"
          /\ devices'[d] = [devices[d] EXCEPT !.held = t.token]
          /\ t.token = g
      BY <1>0, <2>1, <2>3 DEF Sends, At, GoTo, Turns, Leaves, Fits, WithToken
    <3>2. QED
      BY <1>0, <1>3, <2>1, <3>1 DEF TaskRecords, DeviceRecords, Lone, Transfer
  <2>4. CASE Commits(g)
    <3>1. PICK verdict \in {"ready", "failed"} :
             Leaves(g, [Device(g) EXCEPT !.dec = IF @ = "receiving" THEN verdict ELSE @])
      BY <2>4 DEF Commits
    <3>2. /\ tasks'[g] = [t EXCEPT !.at = "awaiting"] /\ t.at = "sent"
          /\ devices'[d] = [devices[d] EXCEPT !.dec =
                                IF devices[d].dec = "receiving" THEN verdict ELSE devices[d].dec]
      BY <1>0, <2>1, <2>4, <3>1 DEF Commits, At, GoTo, Turns, Leaves
    <3>3. /\ devices'[d].joined = devices[d].joined
          /\ devices'[d].phase = devices[d].phase /\ devices'[d].held = devices[d].held
          /\ devices[d].dec = "receiving" => devices'[d].dec \in {"ready", "failed"}
      BY <2>1, <3>2 DEF DeviceRecords
    <3>4. /\ tasks'[g].at = "awaiting" /\ tasks'[g].dev = d /\ tasks'[g].kind = t.kind
          /\ tasks'[g].alone => t.alone
          /\ tasks'[g].heard = t.heard
      BY <1>0, <3>2 DEF TaskRecords
    <3>5. tasks'[g].kind = "run" /\ tasks'[g].alone
             => /\ t.heard = "applied" => g \in devices[d].joined
                /\ Transfer(g, t.at, devices[d])
      BY <1>0, <2>1, <3>2, <3>4 DEF Lone
    <3>6. Transfer(g, "sent", devices[d]) => Transfer(g, "awaiting", devices'[d])
      BY <3>3 DEF Transfer
    <3>7. QED
      BY <1>3, <3>2, <3>3, <3>4, <3>5, <3>6 DEF Lone
  <2>5. QED
    BY <1>13, <2>2, <2>3, <2>4
<1>14. QED
  BY <1>5, <1>6, <1>7, <1>8, <1>9, <1>10, <1>11, <1>12, <1>13 DEF GoroutineStep

\* What a step of the device does to the run it is linked with.
LEMMA DeviceLone ==
    ASSUME GoroutinesOK, LoneFit, NEW d \in Devices, DeviceMoves(d)
    PROVE  LoneFit'
<1> SUFFICES ASSUME NEW g \in Gens PROVE Lone(g, tasks[g], devices[tasks[g].dev])'
  BY DEF LoneFit
<1> DEFINE t == tasks[g]
           old == devices[d]
<1>0. /\ old \in DeviceRecords /\ devices \in [Devices -> DeviceRecords]
      /\ Lone(g, t, devices[t.dev]) /\ g # Free
  BY DEF GoroutinesOK, TypeOK, LoneFit, Gens, Free
<1>1. UNCHANGED tasks /\ \E after : devices' = [devices EXCEPT ![d] = after]
  BY DEF DeviceMoves, Advertises, StartApply, Saves, SaveFails, Joins, JoinFails, Dwells,
     LinkLost, PowerCut, Erased, DeviceStep, Outage
<1>2. CASE t.dev # d
  BY <1>0, <1>1, <1>2
<1>3. CASE t.dev = d
  <2>1. ASSUME NEW after, devices' = [devices EXCEPT ![d] = after],
               old.joined \subseteq after.joined,
               after.link = Free \/ (\A at : Transfer(g, at, old) => Transfer(g, at, after)),
               after.link \in {old.link, Free}
        PROVE  Lone(g, tasks[g], devices[tasks[g].dev])'
    <3>1. devices'[d] = after
      BY <1>0, <2>1
    <3>2. QED
      BY <1>0, <1>1, <1>3, <2>1, <3>1 DEF Lone
  <2>2. CASE Advertises(d)
    <3>1. devices' = [devices EXCEPT ![d] = [old EXCEPT !.adv = TRUE]]
      BY <2>2 DEF Advertises, DeviceStep
    <3>2. QED
      BY <1>0, <2>1, <2>2, <3>1 DEF Advertises, DeviceRecords
  <2>3. CASE StartApply(d)
    <3> DEFINE after == [old EXCEPT !.phase = "saving", !.dec = "applying"]
    <3>1. devices' = [devices EXCEPT ![d] = after] /\ old.dec = "ready" /\ old.phase = "serving"
      BY <2>3 DEF StartApply, DeviceStep
    <3>2. /\ after.joined = old.joined /\ after.link = old.link
          /\ after.phase = "saving" /\ after.dec = "applying" /\ after.held = old.held
      BY <1>0 DEF DeviceRecords
    <3> HIDE DEF after
    <3>3. \A at : Transfer(g, at, old) => Transfer(g, at, after)
      BY <3>1, <3>2 DEF Transfer
    <3>4. QED
      BY <2>1, <3>1, <3>2, <3>3
  <2>4. CASE Saves(d)
    <3> DEFINE after == [old EXCEPT !.phase = "joining", !.stored = old.held]
    <3>1. devices' = [devices EXCEPT ![d] = after] /\ old.phase = "saving"
      BY <2>4 DEF Saves, DeviceStep
    <3>2. /\ after.joined = old.joined /\ after.link = old.link
          /\ after.phase = "joining" /\ after.dec = old.dec /\ after.stored = old.held
      BY <1>0 DEF DeviceRecords
    <3> HIDE DEF after
    <3>3. \A at : Transfer(g, at, old) => Transfer(g, at, after)
      BY <3>1, <3>2 DEF Transfer
    <3>4. QED
      BY <2>1, <3>1, <3>2, <3>3
  <2>5. CASE SaveFails(d) \/ JoinFails(d)
    <3> DEFINE after == [old EXCEPT !.phase = "serving", !.dec = "failed", !.held = NoToken]
    <3>1. devices' = [devices EXCEPT ![d] = after] /\ old.phase \in {"saving", "joining"}
      BY <2>5 DEF SaveFails, JoinFails, DeviceStep
    <3>2. /\ after.joined = old.joined /\ after.link = old.link
          /\ after.phase = "serving" /\ after.dec = "failed"
      BY <1>0 DEF DeviceRecords
    <3> HIDE DEF after
    <3>3. \A at : Transfer(g, at, old) => Transfer(g, at, after)
      BY <3>1, <3>2 DEF Transfer
    <3>4. QED
      BY <2>1, <3>1, <3>2, <3>3
  <2>6. CASE Joins(d)
    <3> DEFINE after == [old EXCEPT !.phase = "applied", !.held = NoToken,
                             !.joined = @ \union {old.stored},
                             !.dec = IF @ \in {"ready", "applying"} THEN "applied" ELSE @]
    <3>1. devices' = [devices EXCEPT ![d] = after] /\ old.phase = "joining"
      BY <2>6 DEF Joins, DeviceStep
    <3>2. /\ after.joined = old.joined \union {old.stored} /\ after.link = old.link
          /\ after.phase = "applied"
      BY <1>0 DEF DeviceRecords
    <3> HIDE DEF after
    <3>3. \A at : Transfer(g, at, old) => Transfer(g, at, after)
      BY <3>1, <3>2 DEF Transfer
    <3>4. QED
      BY <2>1, <3>1, <3>2, <3>3
  <2>7. CASE Dwells(d) \/ LinkLost(d) \/ PowerCut(d) \/ Erased(d)
    <3>1. ASSUME NEW after, devices' = [devices EXCEPT ![d] = after],
                 after.link = Free, after.joined = old.joined
          PROVE  Lone(g, tasks[g], devices[tasks[g].dev])'
      BY <2>1, <3>1
    <3> DEFINE down == [old EXCEPT !.phase = "off", !.dec = "idle", !.link = Free, !.adv = FALSE]
               silent == [old EXCEPT !.link = Free]
               reset == [old EXCEPT !.link = Free, !.adv = FALSE, !.dec = "idle",
                                    !.held = NoToken, !.phase = "off"]
               blank == Blank(old.joined)
    <3>2. PICK after \in {down, silent, reset, blank} : devices' = [devices EXCEPT ![d] = after]
      BY <2>7 DEF Dwells, LinkLost, PowerCut, Erased, DeviceStep, Outage
    <3>3. /\ down.link = Free /\ down.joined = old.joined
          /\ silent.link = Free /\ silent.joined = old.joined
          /\ reset.link = Free /\ reset.joined = old.joined
      BY <1>0 DEF DeviceRecords
    <3>4. blank.link = Free /\ blank.joined = old.joined
      BY DEF Blank
    <3> HIDE DEF down, silent, reset, blank
    <3>5. QED
      BY <3>1, <3>2, <3>3, <3>4
  <2>8. QED
    BY <2>2, <2>3, <2>4, <2>5, <2>6, <2>7 DEF DeviceMoves
<1>4. QED
  BY <1>2, <1>3

LEMMA LoneStep == GoroutinesOK /\ ServingFits /\ LoneFit /\ [Next]_vars => LoneFit'
<1> SUFFICES ASSUME GoroutinesOK, ServingFits, LoneFit, [Next]_vars PROVE LoneFit'
  OBVIOUS
<1>1. CASE UNCHANGED vars
  BY <1>1 DEF vars, LoneFit
<1>2. QED
  BY <1>1, RouteLone, GoroutineLone, DeviceLone DEF Next

\* Only the end of the run that is shown shows it as applied.
LEMMA AppliedStep ==
    GoroutinesOK /\ ShownOK /\ LoneFit /\ [Next]_vars
        => (RunSucceeds /\ tasks[setup.gen].alone
               => setup.gen \in devices[setup.run.dev].joined)
<1> SUFFICES ASSUME GoroutinesOK, ShownOK, LoneFit, [Next]_vars, RunSucceeds,
                    tasks[setup.gen].alone
             PROVE  setup.gen \in devices[setup.run.dev].joined
  OBVIOUS
<1> DEFINE g == setup.gen
<1>0. setup \in SetupRecords /\ setup.run.state = "running" /\ setup'.run.state = "applied"
  BY DEF GoroutinesOK, TypeOK, RunSucceeds
<1>1. ~Route /\ ~Restart
  <2>1. ~HandleScan /\ ~ScanAges
    BY <1>0 DEF HandleScan, ScanAges, SetupRecords
  <2>2. ASSUME HandleStop PROVE FALSE
    <3>1. setup'.run.state = "cancelled"
      BY <1>0, <2>2 DEF HandleStop, SetupRecords
    <3>2. QED
      BY <1>0, <3>1
  <2>3. ASSUME NEW d \in Devices, HandleProvision(d) PROVE FALSE
    <3>1. setup'.run.state = "running"
      BY <1>0, <2>3 DEF HandleProvision, SetupRecords
    <3>2. QED
      BY <1>0, <3>1
  <2>4. ~Restart
    BY <1>0 DEF Restart, NewSetup
  <2>5. QED
    BY <2>1, <2>2, <2>3, <2>4 DEF Route
<1>2. \A d \in Devices : ~DeviceMoves(d)
  BY <1>0 DEF DeviceMoves, Advertises, StartApply, Saves, SaveFails, Joins, JoinFails, Dwells,
     LinkLost, PowerCut, Erased, DeviceStep, Outage
<1>3. PICK h \in Gens : GoroutineStep(h)
  BY <1>0, <1>1, <1>2 DEF Next, vars
<1>4. ~Inside(h)
  BY <1>0, InsideReports DEF Reports
<1>5. RunEnds(h) /\ h = g /\ tasks[g].result = "applied"
  BY <1>0, <1>3, <1>4, EndShown DEF Inside
<1>6. /\ g \in Gens /\ tasks[g].kind = "run" /\ tasks[g].at = "done"
      /\ setup.run.dev = tasks[g].dev
  BY <1>0, <1>5 DEF RunEnds, At, ShownOK, CurrentFits
<1>7. QED
  BY <1>5, <1>6 DEF LoneFit, Lone

\* setup.go:818-820: a run whose transfer began while the device was applying no other is
\* shown as done only after the device has joined with the token this run recorded.
THEOREM AppliedAlone == Spec => AppliedAloneMeansJoined
<1>1. Spec => [](GoroutinesOK /\ ShownOK /\ LoneFit)
  BY InitServing, ServingStep, InitLone, LoneStep, ShownInvariant, PTL DEF Spec
<1>2. QED
  BY <1>1, AppliedStep, PTL DEF Spec, AppliedAloneMeansJoined
=============================================================================
