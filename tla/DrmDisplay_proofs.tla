------------------------- MODULE DrmDisplay_proofs -------------------------
(***************************************************************************)
(* Type correctness of the display drivers, that no update uses a shadow   *)
(* buffer that remove has freed, and that the handlers find what they use, *)
(* for any set of clients.                                                 *)
(***************************************************************************)
EXTENDS DrmDisplay, TLAPS

(* Where in remove the handler of the detect pin is stopped, and where     *)
(* drm_dev_unplug is called.                                               *)
DisarmAt == IF driver.hotplug = "irq" THEN 4 ELSE 2
UnplugAt == IF driver.hotplug = "irq" THEN 7 ELSE IF driver.hotplug = "poll" THEN 6 ELSE 4

(* The steps by their numbers.                                             *)
Numbered ==
  /\ driver.hotplug \in {"none", "irq", "poll"}
  /\ DisarmAt \in Nat /\ UnplugAt \in Nat
  /\ driver.hotplug # "none" => 1 <= DisarmAt /\ DisarmAt + 1 < UnplugAt
  /\ phase = "probe" =>
       /\ Len(Steps) = IF driver.hotplug = "none" THEN 5 ELSE 6
       /\ Steps[step] = "pins" <=> step = 1
       /\ Steps[step] = "buffer" <=> step = 2
       /\ Steps[step] = "register" <=> step = 3
       /\ Steps[step] = "drvdata" <=> step = 4
       /\ Steps[step] = "arm" <=> step = 6
       /\ Steps[step] \notin {"wait", "kfree"}
  /\ phase # "probe" =>
       /\ Len(Steps) = UnplugAt + 2
       /\ Steps[step] = "disarm" <=> driver.hotplug # "none" /\ step = DisarmAt
       /\ Steps[step] = "join" <=> driver.hotplug # "none" /\ step = DisarmAt + 1
       /\ Steps[step] = "detect" => driver.hotplug = "irq" /\ step > DisarmAt + 1
       /\ Steps[step] = "unplug" <=> step = UnplugAt
       /\ Steps[step] = "wait" <=> step = UnplugAt + 1
       /\ Steps[step] = "kfree" <=> step = UnplugAt + 2

(* The driver's table of steps, whichever of the eight drivers it is.      *)
LEMMA StepsAreNumbered == TypeOK => Numbered
<1> SUFFICES ASSUME TypeOK PROVE Numbered
  OBVIOUS
<1>1. driver.hotplug \in {"none", "irq", "poll"}
  <2>1. driver \in AllDrivers
    BY DrmDisplayAssumption DEF TypeOK
  <2>2. \/ driver = SimpleDisplay \/ driver = HotplugInterrupt \/ driver = HotplugPoll
        \/ driver = St7789New \/ driver = Ili9488New \/ driver = St7789Old
        \/ driver = WalnutpiIli9488 \/ driver = WalnutpiSt7796
    BY <2>1 DEF AllDrivers
  <2> QED
    BY <2>2 DEF SimpleDisplay, HotplugInterrupt, HotplugPoll, St7789New, Ili9488New, St7789Old,
       WalnutpiIli9488, WalnutpiSt7796
<1>2. /\ DisarmAt \in Nat /\ UnplugAt \in Nat
      /\ driver.hotplug # "none" => 1 <= DisarmAt /\ DisarmAt + 1 < UnplugAt
  BY <1>1 DEF DisarmAt, UnplugAt
<1>3. CASE phase = "probe"
  BY <1>1, <1>2, <1>3 DEF TypeOK, Numbered, Steps, ProbeSteps
<1>4. CASE phase # "probe" /\ driver.hotplug = "irq"
  BY <1>1, <1>2, <1>4 DEF TypeOK, Numbered, Steps, RemoveSteps, DisarmAt, UnplugAt
<1>5. CASE phase # "probe" /\ driver.hotplug = "poll"
  BY <1>1, <1>2, <1>5 DEF TypeOK, Numbered, Steps, RemoveSteps, DisarmAt, UnplugAt
<1>6. CASE phase # "probe" /\ driver.hotplug = "none"
  BY <1>1, <1>2, <1>6 DEF TypeOK, Numbered, Steps, RemoveSteps, DisarmAt, UnplugAt
<1> QED
  BY <1>1, <1>3, <1>4, <1>5, <1>6

(* probe and remove go from step to step, and on to the next phase.        *)
LEMMA AdvanceKeepsType ==
  ASSUME TypeOK, Advance, phase \in {"probe", "remove"}, driver' = driver
  PROVE  /\ phase' \in {"probe", "bound", "remove", "gone"}
         /\ step' \in 1..Len(Steps')
<1>1. Len(Steps) \in Nat /\ Len(RemoveSteps(driver)) \in Nat \ {0}
  BY DEF Steps, ProbeSteps, RemoveSteps
<1>2. CASE step < Len(Steps)
  BY <1>1, <1>2 DEF TypeOK, Advance, Steps
<1>3. CASE ~(step < Len(Steps))
  BY <1>1, <1>3 DEF TypeOK, Advance, Steps
<1> QED
  BY <1>2, <1>3

(* What an update does between drm_dev_enter and drm_dev_exit.             *)
Section == {"begin", "vmap", "copy", "send"}

(* A client that is in a commit has the turn, and the read sections are    *)
(* those of the updates that are inside.                                   *)
TurnInv ==
  \A c \in Clients :
    /\ pc[c] \notin {"idle", "probe"} => crtc = c
    /\ c \in inside <=> pc[c] \in Section
    /\ pc[c] # "idle" => registered

(* The buffer is there from the second step of probe to the end of remove. *)
BufferInv ==
  /\ registered => buffer # "none"
  /\ phase = "probe" /\ step > 2 => buffer = "alive"
  /\ phase \in {"probe", "bound", "remove"} => buffer # "freed"

(* The handler of the detect pin runs only while the driver is bound, and  *)
(* until remove has waited for it.                                         *)
StoppedInv ==
  /\ armed =>
       /\ driver.hotplug # "none" /\ phase \in {"bound", "remove"}
       /\ phase = "remove" => step <= DisarmAt
  /\ worker \notin {"idle", "oops"} =>
       /\ driver.hotplug # "none" /\ phase \in {"bound", "remove"}
       /\ phase = "remove" => step <= DisarmAt + 1

(* Unless a client revived the device, unplugged is set for good, and who  *)
(* was inside then is waited for.                                          *)
UnplugInv ==
  ~revived =>
    /\ UnplugHasBegun => unplugged
    /\ At("remove", "wait") => inside \cap Clients \subseteq grace
    /\ At("remove", "kfree") \/ buffer = "freed" => inside \cap Clients = {}

(* The pins and the driver data are there when clients and the handler can *)
(* come to want them.                                                      *)
FoundInv ==
  /\ phase = "bound" \/ (phase = "probe" /\ step > 1) =>
       {"dc", "reset"} \subseteq held /\ (driver.hotplug # "none" => "detect" \in held)
  /\ phase = "remove" /\ driver.hotplug # "none" /\ step <= DisarmAt + 1 => "detect" \in held
  /\ phase = "bound" \/ (phase = "probe" /\ step > 4) => drvdata
  /\ phase = "probe" /\ registered => step > 3
  /\ worker \in {"start", "first", "oops"} => driver.hotplug = "irq"
  /\ worker = "oops" => phase \in {"remove", "gone"}
  /\ \A c \in Clients : pc[c] = "probe" => driver.hotplug # "none"

IInv == TypeOK /\ TurnInv /\ BufferInv /\ StoppedInv /\ UnplugInv /\ FoundInv

DriverStep == Probe \/ ProbeFails \/ ArmFails \/ Remove \/ RemoveStep
HandlerStep == Toggle \/ WorkerStart \/ WorkerStep

(* TypeOK in three parts: most actions touch one of them only.             *)
DeviceTyped ==
  /\ driver \in Drivers
  /\ phase \in {"probe", "bound", "remove", "gone", "orphan"}
  /\ step \in 1..Len(Steps)
  /\ held \subseteq Pins
  /\ buffer \in {"none", "alive", "freed"}
  /\ registered \in BOOLEAN /\ drvdata \in BOOLEAN

DetectionTyped ==
  /\ armed \in BOOLEAN /\ edge \in BOOLEAN /\ line \in BOOLEAN
  /\ worker \in {"idle", "start", "first", "detect", "oops"}
  /\ unplugged \in BOOLEAN /\ revived \in BOOLEAN

CommitsTyped ==
  /\ crtc \in Clients \cup {Nobody}
  /\ pc \in [Clients -> {"idle", "enter", "begin", "vmap", "copy", "send", "tail",
                         "enable", "oops", "probe"}]
  /\ inside \subseteq Clients \cup {Leak}
  /\ \A c, d \in inside \ {Leak} : c = d
  /\ grace \subseteq inside

(* TypeOK, split by what changes together.                                 *)
LEMMA TypeInParts ==
  /\ TypeOK <=> DeviceTyped /\ DetectionTyped /\ CommitsTyped
  /\ TypeOK' <=> DeviceTyped' /\ DetectionTyped' /\ CommitsTyped'
BY DEF TypeOK, DeviceTyped, DetectionTyped, CommitsTyped

(* What a step leaves alone keeps its types.                               *)
LEMMA SameTypes ==
  /\ DeviceTyped /\ UNCHANGED device => DeviceTyped'
  /\ DetectionTyped /\ UNCHANGED <<detection, unplugged, revived>> => DetectionTyped'
  /\ CommitsTyped /\ UNCHANGED commits => CommitsTyped'
<1>1. ASSUME DeviceTyped, UNCHANGED device PROVE DeviceTyped'
  BY <1>1 DEF DeviceTyped, device, Steps
<1>2. ASSUME DetectionTyped, UNCHANGED <<detection, unplugged, revived>> PROVE DetectionTyped'
  BY <1>2 DEF DetectionTyped, detection
<1>3. ASSUME CommitsTyped, UNCHANGED commits PROVE CommitsTyped'
  BY <1>3 DEF CommitsTyped, commits
<1> QED
  BY <1>1, <1>2, <1>3

(* probe and remove keep the types.                                        *)
LEMMA DriverStepTypes == TypeOK /\ DriverStep => TypeOK'
<1> SUFFICES ASSUME TypeOK, DriverStep PROVE TypeOK'
  OBVIOUS
<1>1. DeviceTyped'
  <2>1. CASE Probe \/ RemoveStep
    <3>1. phase' \in {"probe", "bound", "remove", "gone"} /\ step' \in 1..Len(Steps')
      BY <2>1, AdvanceKeepsType DEF Probe, RemoveStep, GetPins, AllocBuffer, Register,
         SetDrvdata, SetupFbdev, Arm, ClearDrvdata, PutPin, Disarm, Join, Unplug, Wait, Kfree, At
    <3> QED
      BY <2>1, <3>1 DEF DeviceTyped, TypeOK, Probe, RemoveStep, GetPins, AllocBuffer, Register,
         SetDrvdata, SetupFbdev, Arm, ClearDrvdata, PutPin, Disarm, Join, Unplug, Wait, Kfree,
         Pins
  <2>2. CASE ProbeFails \/ ArmFails \/ Remove
    <3>1. 1 \in 1..Len(RemoveSteps(driver))
      BY DEF RemoveSteps
    <3> QED
      BY <2>2, <3>1 DEF DeviceTyped, TypeOK, ProbeFails, ArmFails, Remove, Steps
  <2> QED
    BY <2>1, <2>2 DEF DriverStep
<1>2. DetectionTyped'
  BY DEF DriverStep, DetectionTyped, TypeOK, Probe, ProbeFails, ArmFails, Remove, RemoveStep,
     GetPins, AllocBuffer, Register, SetDrvdata, SetupFbdev, Arm, ClearDrvdata, PutPin, Disarm,
     Join, Unplug, Wait, Kfree, detection
<1>3. CommitsTyped'
  BY DEF DriverStep, CommitsTyped, TypeOK, Probe, ProbeFails, ArmFails, Remove, RemoveStep,
     GetPins, AllocBuffer, Register, SetDrvdata, SetupFbdev, Arm, ClearDrvdata, PutPin, Disarm,
     Join, Unplug, Wait, Kfree, commits
<1> QED
  BY <1>1, <1>2, <1>3, TypeInParts

(* So does every client: the turn keeps a second update from entering.     *)
LEMMA ClientStepTypes ==
  ASSUME TypeOK, TurnInv, NEW c \in Clients, ClientProbe(c) \/ Commit(c) \/ ClientStep(c)
  PROVE  TypeOK'
<1> USE DrmDisplayAssumption
<1>1. UNCHANGED device
  BY DEF ClientProbe, Commit, ClientStep, ClientDetect, NothingToUpdate, Enter, PlaneOff, Map,
     MapFails, Copy, Send, Enable, CommitEnds
<1>2. DetectionTyped'
  BY DEF DetectionTyped, TypeOK, ClientProbe, Commit, ClientStep, ClientDetect, NothingToUpdate,
     Enter, PlaneOff, Map, MapFails, Copy, Send, Enable, CommitEnds, detection
<1>3. CommitsTyped'
  <2> USE DEF Goto, CommitsTyped, TypeOK
  <2>1. CASE ClientProbe(c) \/ Commit(c) \/ ClientDetect(c) \/ NothingToUpdate(c) \/ Map(c)
             \/ Copy(c) \/ Enable(c) \/ CommitEnds(c)
    BY <2>1 DEF ClientProbe, Commit, ClientDetect, NothingToUpdate, Map, Copy, Enable, CommitEnds
  <2>2. CASE Enter(c) \/ PlaneOff(c)
    BY <2>2 DEF Enter, PlaneOff, TurnInv, Section
  <2>3. CASE MapFails(c) \/ Send(c)
    BY <2>3 DEF MapFails, Send
  <2> QED
    BY <2>1, <2>2, <2>3 DEF ClientStep
<1> QED
  BY <1>1, <1>2, <1>3, TypeInParts, SameTypes

(* No step leaves the types.                                               *)
LEMMA TypeStep == TypeOK /\ TurnInv /\ [Next]_vars => TypeOK'
<1> SUFFICES ASSUME TypeOK, TurnInv, [Next]_vars PROVE TypeOK'
  OBVIOUS
<1>1. CASE HandlerStep
  <2>1. UNCHANGED <<device, commits>>
    BY <1>1 DEF HandlerStep, Toggle, WorkerStart, WorkerStep, WorkerReadDrvdata, WorkerDetect
  <2>2. DetectionTyped'
    BY <1>1 DEF HandlerStep, DetectionTyped, TypeOK, Toggle, WorkerStart, WorkerStep,
       WorkerReadDrvdata, WorkerDetect, commits, device
  <2> QED
    BY <2>1, <2>2, TypeInParts, SameTypes
<1>2. CASE UNCHANGED vars
  BY <1>2, TypeInParts, SameTypes DEF vars
<1> QED
  BY <1>1, <1>2, DriverStepTypes, ClientStepTypes DEF Next, DriverStep, HandlerStep

(* Only the client whose turn it is enters and leaves the read section.    *)
LEMMA TurnStep == TypeOK /\ TurnInv /\ [Next]_vars => TurnInv'
<1> SUFFICES ASSUME TypeOK, TurnInv, [Next]_vars PROVE TurnInv'
  OBVIOUS
<1> USE DEF TurnInv
<1>1. CASE DriverStep
  BY <1>1 DEF DriverStep, Probe, ProbeFails, ArmFails, Remove, RemoveStep, GetPins, AllocBuffer,
     Register, SetDrvdata, SetupFbdev, Arm, ClearDrvdata, PutPin, Disarm, Join, Unplug, Wait,
     Kfree, commits
<1>2. CASE HandlerStep
  BY <1>2 DEF HandlerStep, Toggle, WorkerStart, WorkerStep, WorkerReadDrvdata, WorkerDetect,
     device, commits
<1>3. ASSUME NEW c \in Clients, ClientProbe(c) \/ Commit(c) \/ ClientStep(c)
      PROVE  TurnInv'
  <2> USE DrmDisplayAssumption DEF TypeOK, Goto, Section, device
  <2>1. CASE ClientProbe(c) \/ ClientDetect(c)
    BY <2>1 DEF ClientProbe, ClientDetect, Admitted
  <2>2. CASE Commit(c)
    BY <2>2 DEF Commit, Admitted
  <2>3. CASE NothingToUpdate(c) \/ Enter(c) \/ PlaneOff(c)
    BY <2>3 DEF NothingToUpdate, Enter, PlaneOff
  <2>4. CASE Map(c) \/ MapFails(c) \/ Copy(c) \/ Send(c)
    BY <2>4 DEF Map, MapFails, Copy, Send
  <2>5. CASE Enable(c) \/ CommitEnds(c)
    BY <2>5 DEF Enable, CommitEnds
  <2> QED
    BY <1>3, <2>1, <2>2, <2>3, <2>4, <2>5 DEF ClientStep
<1>4. CASE UNCHANGED vars
  BY <1>4 DEF vars, device, commits
<1> QED
  BY <1>1, <1>2, <1>3, <1>4 DEF Next, DriverStep, HandlerStep

(* What applications do leaves the buffer and the steps of remove alone.   *)
LEMMA ClientsLeaveDevice ==
  ASSUME NEW c \in Clients, ClientProbe(c) \/ Commit(c) \/ ClientStep(c)
  PROVE  UNCHANGED device /\ UNCHANGED detection
BY DEF ClientProbe, Commit, ClientStep, ClientDetect, NothingToUpdate, Enter, PlaneOff, Map,
   MapFails, Copy, Send, Enable, CommitEnds

(* The buffer is freed by the last step of remove only.                    *)
LEMMA BufferStep == TypeOK /\ BufferInv /\ [Next]_vars => BufferInv'
<1> SUFFICES ASSUME TypeOK, BufferInv, [Next]_vars PROVE BufferInv'
  OBVIOUS
<1> USE DEF BufferInv
<1>1. Numbered
  BY StepsAreNumbered
<1>2. CASE Probe
  BY <1>1, <1>2 DEF Probe, GetPins, AllocBuffer, Register, SetDrvdata, SetupFbdev, Arm, Advance,
     At, Numbered, TypeOK
<1>3. CASE ProbeFails \/ ArmFails \/ Remove
  BY <1>1, <1>3 DEF ProbeFails, ArmFails, Remove
<1>4. CASE RemoveStep
  <2>1. CASE Kfree
    <3>1. phase = "remove" /\ step = UnplugAt + 2 /\ Len(Steps) = UnplugAt + 2 /\ UnplugAt \in Nat
      BY <1>1, <2>1 DEF Kfree, At, Numbered
    <3>2. phase' = "gone"
      BY <2>1, <3>1 DEF Kfree, Advance
    <3> QED
      BY <2>1, <3>2 DEF Kfree
  <2>2. CASE ~Kfree
    BY <1>4, <2>2 DEF RemoveStep, ClearDrvdata, PutPin, Disarm, Join, Unplug, Wait, Advance, At
  <2> QED
    BY <2>1, <2>2
<1>5. CASE UNCHANGED device
  BY <1>5 DEF device
<1>6. CASE HandlerStep \/ UNCHANGED vars
  BY <1>5, <1>6 DEF HandlerStep, Toggle, WorkerStart, WorkerStep, WorkerReadDrvdata,
     WorkerDetect, vars
<1> QED
  BY <1>2, <1>3, <1>4, <1>5, <1>6, ClientsLeaveDevice DEF Next, HandlerStep

(* remove passes no step without taking it: Disarm keeps the handler from  *)
(* starting and Join waits for it.                                         *)
LEMMA StoppedStep == TypeOK /\ StoppedInv /\ [Next]_vars => StoppedInv'
<1> SUFFICES ASSUME TypeOK, StoppedInv, [Next]_vars PROVE StoppedInv'
  OBVIOUS
<1> USE DEF StoppedInv
<1>1. Numbered
  BY StepsAreNumbered
<1>2. driver' = driver => DisarmAt' = DisarmAt
  BY DEF DisarmAt
<1>3. CASE DriverStep
  <2>1. driver' = driver
    BY <1>3 DEF DriverStep, Probe, ProbeFails, ArmFails, Remove, RemoveStep, GetPins, AllocBuffer,
       Register, SetDrvdata, SetupFbdev, Arm, ClearDrvdata, PutPin, Disarm, Join, Unplug, Wait,
       Kfree
  <2>2. CASE Arm
    <3>1. driver.hotplug # "none" /\ phase' = "bound"
      <4>1. /\ phase = "probe" /\ step = 6 /\ step <= Len(Steps)
            /\ Len(Steps) = IF driver.hotplug = "none" THEN 5 ELSE 6
        BY <1>1, <2>2 DEF Arm, At, Numbered, TypeOK
      <4> QED
        BY <2>2, <4>1 DEF Arm, Advance
    <3> QED
      BY <1>2, <2>1, <2>2, <3>1 DEF Arm
  <2>3. CASE (Probe /\ ~Arm) \/ ProbeFails \/ ArmFails
    <3>1. phase = "probe" /\ UNCHANGED <<armed, worker>>
      BY <2>3 DEF Probe, GetPins, AllocBuffer, Register, SetDrvdata, SetupFbdev, ProbeFails,
         ArmFails, At, detection
    <3> QED
      BY <3>1
  <2>4. CASE Remove
    <3>1. phase = "bound" /\ phase' = "remove" /\ step' = 1 /\ UNCHANGED <<armed, worker>>
      BY <2>4 DEF Remove, detection
    <3>2. driver.hotplug # "none" => 1 <= DisarmAt
      BY <1>1 DEF Numbered, DisarmAt
    <3>3. DisarmAt \in Nat
      BY <1>1 DEF Numbered
    <3> QED
      BY <1>2, <2>1, <3>1, <3>2, <3>3
  <2>5. CASE RemoveStep
    <3>1. phase = "remove" /\ Advance /\ worker' = worker
      BY <2>5 DEF RemoveStep, ClearDrvdata, PutPin, Disarm, Join, Unplug, Wait, Kfree, At,
         detection
    <3>2. /\ step \in Nat /\ DisarmAt \in Nat /\ UnplugAt \in Nat /\ Len(Steps) = UnplugAt + 2
          /\ driver.hotplug # "none" => DisarmAt + 1 < UnplugAt
      BY <1>1, <3>1 DEF Numbered, TypeOK
    <3>3. driver.hotplug # "none" /\ step <= DisarmAt + 1 => phase' = "remove" /\ step' = step + 1
      BY <3>1, <3>2 DEF Advance
    <3>4. armed' => armed /\ ~Disarm
      BY <2>5 DEF RemoveStep, ClearDrvdata, PutPin, Disarm, Join, Unplug, Wait, Kfree, At, detection
    <3>5. ~Disarm => Steps[step] # "disarm"
      BY <2>5 DEF RemoveStep, ClearDrvdata, PutPin, Disarm, Join, Unplug, Wait, Kfree, At, Pins
    <3>6. armed' => armed /\ (driver.hotplug # "none" => step # DisarmAt)
      BY <1>1, <3>1, <3>4, <3>5 DEF Numbered
    <3>7. worker \notin {"idle", "oops"} => step # DisarmAt + 1
      BY <1>1, <2>5, <3>1 DEF RemoveStep, ClearDrvdata, PutPin, Disarm, Join, Unplug, Wait, Kfree,
         At, Numbered, Pins
    <3> QED
      BY <1>2, <2>1, <3>1, <3>2, <3>3, <3>7, <3>6
  <2> QED
    BY <1>3, <2>2, <2>3, <2>4, <2>5 DEF DriverStep
<1>5. CASE HandlerStep
  <2>1. step \in Nat /\ DisarmAt \in Nat
    BY <1>1 DEF Numbered, TypeOK
  <2> QED
    BY <1>2, <1>5, <2>1 DEF HandlerStep, Toggle, WorkerStart, WorkerStep, WorkerReadDrvdata,
       WorkerDetect, device
<1>6. CASE UNCHANGED <<device, detection>>
  BY <1>2, <1>6 DEF device, detection
<1>7. CASE UNCHANGED vars
  BY <1>6, <1>7 DEF vars
<1> QED
  BY <1>3, <1>5, <1>6, <1>7, ClientsLeaveDevice DEF Next, DriverStep, HandlerStep

(* After drm_dev_unplug nobody enters, and Wait is passed when the last    *)
(* who was inside has left.                                                *)
LEMMA UnplugStep ==
  TypeOK /\ TurnInv /\ BufferInv /\ StoppedInv /\ UnplugInv /\ [Next]_vars => UnplugInv'
<1> SUFFICES ASSUME TypeOK, TurnInv, BufferInv, StoppedInv, UnplugInv, [Next]_vars, ~revived'
             PROVE  /\ UnplugHasBegun' => unplugged'
                    /\ At("remove", "wait")' => inside' \cap Clients \subseteq grace'
                    /\ At("remove", "kfree")' \/ buffer' = "freed" => inside' \cap Clients = {}
  BY DEF UnplugInv
<1>1. Numbered
  BY StepsAreNumbered
<1>2. ~revived
  BY DEF Next, Probe, ProbeFails, ArmFails, Remove, RemoveStep, GetPins, AllocBuffer, Register,
     SetDrvdata, SetupFbdev, Arm, ClearDrvdata, PutPin, Disarm, Join, Unplug, Wait, Kfree, Toggle,
     WorkerStart, WorkerStep, WorkerReadDrvdata, WorkerDetect, ClientProbe, Commit, ClientStep,
     ClientDetect, NothingToUpdate, Enter, PlaneOff, Map, MapFails, Copy, Send, Enable,
     CommitEnds, vars
<1>3. /\ UnplugHasBegun => unplugged
      /\ At("remove", "wait") => inside \cap Clients \subseteq grace
      /\ At("remove", "kfree") \/ buffer = "freed" => inside \cap Clients = {}
  BY <1>2 DEF UnplugInv
<1>4. CASE UNCHANGED <<phase, Steps[step], buffer, unplugged, inside, grace>>
  BY <1>3, <1>4 DEF UnplugHasBegun, At
<1>5. CASE Probe \/ ProbeFails \/ ArmFails \/ Remove
  <2>1. phase' # "remove" \/ Remove
    BY <1>5 DEF Probe, ProbeFails, ArmFails, Remove, GetPins, AllocBuffer, Register, SetDrvdata,
       SetupFbdev, Arm, At, Advance
  <2>2. buffer # "freed" /\ buffer' # "freed"
    BY <1>5 DEF BufferInv, Probe, ProbeFails, ArmFails, Remove, GetPins, AllocBuffer, Register,
       SetDrvdata, SetupFbdev, Arm, At
  <2>3. CASE Remove
    <3>1. Steps' = RemoveSteps(driver) /\ step' = 1
      BY <2>3 DEF Remove, Steps
    <3>2. Steps'[step'] \notin {"wait", "kfree"}
      BY <3>1 DEF RemoveSteps
    <3> QED
      BY <2>2, <3>2 DEF UnplugHasBegun, At
  <2> QED
    BY <2>1, <2>2, <2>3 DEF UnplugHasBegun, At
<1>6. CASE RemoveStep
  <2>1. /\ phase = "remove" /\ Advance /\ driver' = driver
        /\ buffer' = buffer \/ (buffer' = "freed" /\ Kfree)
        /\ buffer # "freed" /\ inside' = inside
    BY <1>6 DEF BufferInv, RemoveStep, ClearDrvdata, PutPin, Disarm, Join, Unplug, Wait, Kfree, At,
       commits
  <2>2. /\ step \in Nat /\ UnplugAt \in Nat /\ Len(Steps) = UnplugAt + 2
        /\ phase' = "remove" => step' = step + 1
    BY <1>1, <2>1 DEF Numbered, TypeOK, Advance
  <2>3. UnplugAt' = UnplugAt
    BY <2>1 DEF UnplugAt
  <2>4. TypeOK'
    BY TypeStep
  <2>5. Numbered'
    BY <2>4, StepsAreNumbered, PTL
  <2>6. CASE phase' = "remove"
    <3>1. /\ step' = step + 1
          /\ Steps'[step'] = "wait" <=> step' = UnplugAt + 1
          /\ Steps'[step'] = "kfree" <=> step' = UnplugAt + 2
      BY <2>2, <2>3, <2>5, <2>6 DEF Numbered
    <3>2. ~Kfree
      BY <1>1, <2>2, <2>6 DEF Kfree, At, Advance, Numbered
    <3>3. buffer' # "freed"
      BY <2>1, <3>2
    <3>4. CASE step = UnplugAt
      <4>1. Unplug
        BY <1>1, <1>6, <2>1, <3>4 DEF Numbered, RemoveStep, ClearDrvdata, PutPin, Disarm, Join,
           Unplug, Wait, Kfree, At, Pins
      <4>2. unplugged' /\ inside' \cap Clients \subseteq grace'
        BY <4>1, <2>1 DEF Unplug
      <4> QED
        BY <2>2, <2>6, <3>1, <3>3, <3>4, <4>2 DEF UnplugHasBegun, At
    <3>5. CASE step = UnplugAt + 1
      <4>1. Steps[step] = "wait" /\ At("remove", "wait")
        BY <1>1, <2>1, <3>5 DEF Numbered, At
      <4>2. Wait
        BY <1>6, <4>1 DEF RemoveStep, ClearDrvdata, PutPin, Disarm, Join, Unplug, Wait, Kfree,
           At, Pins
      <4>3. unplugged' /\ inside' \cap Clients = {}
        BY <1>3, <2>1, <4>1, <4>2 DEF Wait, UnplugHasBegun
      <4> QED
        BY <2>2, <2>6, <3>1, <3>3, <3>5, <4>3 DEF UnplugHasBegun, At
    <3>6. CASE step \notin {UnplugAt, UnplugAt + 1}
      <4>1. Steps'[step'] \notin {"wait", "kfree"}
        BY <2>2, <3>1, <3>6
      <4> QED
        BY <3>3, <4>1 DEF UnplugHasBegun, At
    <3> QED
      BY <3>4, <3>5, <3>6
  <2>7. CASE phase' # "remove"
    <3>1. step = UnplugAt + 2
      BY <2>1, <2>2, <2>7 DEF Advance, TypeOK
    <3>2. Steps[step] = "kfree" /\ At("remove", "kfree")
      BY <1>1, <2>1, <3>1 DEF Numbered, At
    <3>3. Kfree
      BY <1>6, <3>2 DEF RemoveStep, ClearDrvdata, PutPin, Disarm, Join, Unplug, Wait, Kfree, At,
         Pins
    <3>4. unplugged' /\ inside' \cap Clients = {}
      BY <1>3, <2>1, <3>2, <3>3 DEF Kfree, UnplugHasBegun, At
    <3> QED
      BY <2>7, <3>4 DEF At
  <2> QED
    BY <2>6, <2>7
<1>7. CASE HandlerStep
  <2>1. UNCHANGED <<phase, Steps[step], buffer, inside, grace>>
    BY <1>7 DEF HandlerStep, Toggle, WorkerStart, WorkerStep, WorkerReadDrvdata, WorkerDetect,
       device, commits, Steps
  <2>2. CASE ~WorkerDetect
    BY <1>4, <1>7, <2>1, <2>2 DEF HandlerStep, Toggle, WorkerStart, WorkerStep, WorkerReadDrvdata
  <2>3. CASE WorkerDetect
    <3>1. /\ driver.hotplug # "none" /\ phase \in {"bound", "remove"}
          /\ phase = "remove" => step <= DisarmAt + 1
      BY <2>3 DEF WorkerDetect, StoppedInv
    <3>2. step \in Nat /\ DisarmAt \in Nat /\ UnplugAt \in Nat /\ DisarmAt + 1 < UnplugAt
      BY <1>1, <3>1 DEF Numbered, TypeOK
    <3>3. phase = "remove" => Steps[step] \notin {"wait", "kfree"}
      BY <1>1, <3>1, <3>2 DEF Numbered
    <3>4. buffer # "freed"
      BY <3>1 DEF BufferInv
    <3> QED
      BY <2>1, <3>3, <3>4 DEF UnplugHasBegun, At
  <2> QED
    BY <2>2, <2>3
<1>8. ASSUME NEW c \in Clients, ClientProbe(c) \/ Commit(c) \/ ClientStep(c)
      PROVE  /\ UnplugHasBegun' => unplugged'
             /\ At("remove", "wait")' => inside' \cap Clients \subseteq grace'
             /\ At("remove", "kfree")' \/ buffer' = "freed" => inside' \cap Clients = {}
  <2>1. UNCHANGED <<phase, Steps[step], buffer>>
    BY <1>8, ClientsLeaveDevice DEF device, Steps
  <2>2. CASE ClientDetect(c)
    <3>1. UNCHANGED <<inside, grace>> /\ (UnplugHasBegun => unplugged')
      BY <2>2 DEF ClientDetect
    <3> QED
      BY <1>3, <2>1, <3>1 DEF UnplugHasBegun, At
  <2>3. CASE Enter(c)
    <3>1. CASE unplugged
      BY <1>3, <2>1, <2>3, <3>1 DEF Enter, UnplugHasBegun, At
    <3>2. CASE ~unplugged
      <4>1. ~UnplugHasBegun'
        BY <1>3, <2>1, <3>2 DEF UnplugHasBegun
      <4> QED
        BY <4>1 DEF UnplugHasBegun, At
    <3> QED
      BY <3>1, <3>2
  <2>4. CASE PlaneOff(c) \/ MapFails(c) \/ Send(c)
    <3>1. unplugged' = unplugged /\ inside' \cap Clients \subseteq inside
      BY <2>4, DrmDisplayAssumption DEF PlaneOff, MapFails, Send
    <3>2. inside \cap Clients \subseteq grace => inside' \cap Clients \subseteq grace'
      BY <2>4, DrmDisplayAssumption DEF PlaneOff, MapFails, Send
    <3> QED
      BY <1>3, <2>1, <3>1, <3>2 DEF UnplugHasBegun, At
  <2>5. CASE UNCHANGED <<unplugged, inside, grace>>
    BY <1>4, <2>1, <2>5
  <2> QED
    BY <1>8, <2>2, <2>3, <2>4, <2>5 DEF ClientProbe, Commit, ClientStep, NothingToUpdate, Map,
       Copy, Enable, CommitEnds
<1>9. CASE UNCHANGED vars
  BY <1>4, <1>9 DEF vars, device, commits, Steps
<1> QED
  BY <1>5, <1>6, <1>7, <1>8, <1>9 DEF Next, HandlerStep

(* probe takes the pins and stores the driver data before it registers and *)
(* arms; remove puts the detect pin after it has waited for the handler.   *)
LEMMA FoundStep == TypeOK /\ TurnInv /\ StoppedInv /\ FoundInv /\ [Next]_vars => FoundInv'
<1> SUFFICES ASSUME TypeOK, TurnInv, StoppedInv, FoundInv, [Next]_vars PROVE FoundInv'
  OBVIOUS
<1>1. Numbered
  BY StepsAreNumbered
<1>2. driver' = driver => DisarmAt' = DisarmAt
  BY DEF DisarmAt
<1>3. CASE Probe
  <2>1. /\ phase = "probe" /\ step \in Nat /\ Advance
        /\ UNCHANGED <<driver, worker, pc>>
    BY <1>3 DEF Probe, GetPins, AllocBuffer, Register, SetDrvdata, SetupFbdev, Arm, At, TypeOK,
       detection, commits
  <2>2. /\ step \in 1..Len(Steps) /\ Len(Steps) \in {5, 6}
        /\ Steps[step] = "pins" <=> step = 1
        /\ Steps[step] = "buffer" <=> step = 2
        /\ Steps[step] = "register" <=> step = 3
        /\ Steps[step] = "drvdata" <=> step = 4
    BY <1>1, <2>1 DEF Numbered, TypeOK
  <2>3. \/ phase' = "probe" /\ step' = step + 1
        \/ phase' = "bound" /\ step >= 5
    <3>1. CASE step < Len(Steps)
      BY <2>1, <3>1 DEF Advance
    <3>2. CASE ~(step < Len(Steps))
      <4>1. step >= 5
        BY <2>2, <3>2
      <4> QED
        BY <2>1, <3>2, <4>1 DEF Advance
    <3> QED
      BY <3>1, <3>2
  <2>4. \/ step = 1 /\ held' = IF driver.hotplug = "none" THEN {"dc", "reset"} ELSE Pins
        \/ step # 1 /\ held' = held
    <3>1. CASE GetPins
      <4>1. step = 1
        BY <2>2, <3>1 DEF GetPins, At
      <4> QED
        BY <3>1, <4>1 DEF GetPins
    <3>2. CASE ~GetPins
      <4>1. held' = held /\ Steps[step] # "pins"
        BY <1>3, <3>2 DEF Probe, AllocBuffer, Register, SetDrvdata, SetupFbdev, Arm, At
      <4> QED
        BY <2>2, <4>1
    <3> QED
      BY <3>1, <3>2
  <2>5. \/ step = 4 /\ drvdata' = TRUE
        \/ step # 4 /\ drvdata' = drvdata
    BY <1>3, <2>2 DEF Probe, GetPins, AllocBuffer, Register, SetDrvdata, SetupFbdev, Arm, At
  <2>6. registered' = registered \/ step = 3
    BY <1>3, <2>2 DEF Probe, GetPins, AllocBuffer, Register, SetDrvdata, SetupFbdev, Arm, At
  <2>7. worker \in {"start", "first", "oops"} => driver.hotplug = "irq"
    BY DEF FoundInv
  <2>8. worker # "oops" /\ \A c \in Clients : pc[c] = "probe" => driver.hotplug # "none"
    BY <2>1 DEF FoundInv
  <2>9. step > 1 \/ step = 1
    BY <2>2
  <2>10. {"dc", "reset"} \subseteq held' /\ (driver.hotplug # "none" => "detect" \in held')
    BY <2>1, <2>4, <2>9 DEF FoundInv, Pins
  <2>11. (phase' = "probe" /\ step' > 4) \/ phase' = "bound" => drvdata'
    BY <2>1, <2>2, <2>3, <2>5 DEF FoundInv
  <2>12. phase' = "probe" /\ registered' => step' > 3
    <3>1. CASE step = 3
      BY <2>3, <3>1
    <3>2. CASE registered' = registered
      <4>1. registered => step > 3
        BY <2>1 DEF FoundInv
      <4> QED
        BY <2>1, <2>3, <3>2, <4>1
    <3> QED
      BY <2>6, <3>1, <3>2
  <2> QED
    BY <2>1, <2>3, <2>7, <2>8, <2>10, <2>11, <2>12 DEF FoundInv
<1>4. CASE ProbeFails \/ ArmFails
  <2>1. /\ phase = "probe" /\ phase' \in {"gone", "orphan"}
        /\ UNCHANGED <<driver, registered, worker, pc>>
    BY <1>4 DEF ProbeFails, ArmFails, At, detection, commits
  <2>2. worker # "oops"
    BY <2>1 DEF FoundInv
  <2> QED
    BY <2>1, <2>2 DEF FoundInv
<1>5. CASE Remove
  <2>1. driver.hotplug \in {"none", "irq", "poll"}
    BY <1>1 DEF Numbered
  <2> QED
    BY <1>5, <2>1 DEF FoundInv, Remove, detection, commits
<1>6. CASE RemoveStep
  <2>1. /\ phase = "remove" /\ step \in Nat /\ Advance
        /\ UNCHANGED <<driver, registered, worker, pc>>
    BY <1>6 DEF RemoveStep, ClearDrvdata, PutPin, Disarm, Join, Unplug, Wait, Kfree, At, TypeOK,
       detection, commits
  <2>2. (phase' = "remove" /\ step' = step + 1) \/ phase' = "gone"
    BY <2>1 DEF Advance
  <2>3. step \in Nat /\ DisarmAt \in Nat /\ UnplugAt \in Nat
    BY <1>1, <2>1 DEF Numbered
  <2>4. driver.hotplug # "none" /\ step <= DisarmAt => "detect" \in held'
    <3> SUFFICES ASSUME driver.hotplug # "none", step <= DisarmAt PROVE "detect" \in held'
      OBVIOUS
    <3>1. "detect" \in held
      BY <2>1, <2>3 DEF FoundInv
    <3>2. Steps[step] # "detect" /\ Steps[step] # "kfree"
      BY <1>1, <2>1, <2>3 DEF Numbered
    <3> QED
      BY <1>6, <3>1, <3>2 DEF RemoveStep, ClearDrvdata, PutPin, Disarm, Join, Unplug, Wait, Kfree,
         At
  <2>5. phase' = "remove" /\ driver.hotplug # "none" /\ step' <= DisarmAt + 1 => "detect" \in held'
    BY <2>2, <2>3, <2>4
  <2> QED
    BY <1>2, <2>1, <2>2, <2>5 DEF FoundInv
<1>7. CASE HandlerStep
  <2>1. UNCHANGED <<driver, phase, step, held, drvdata, registered, pc>>
    BY <1>7 DEF HandlerStep, Toggle, WorkerStart, WorkerStep, WorkerReadDrvdata, WorkerDetect,
       device, commits
  <2>2. worker' \in {"start", "first", "oops"} => driver.hotplug = "irq"
    BY <1>7 DEF FoundInv, HandlerStep, Toggle, WorkerStart, WorkerStep, WorkerReadDrvdata,
       WorkerDetect
  <2>3. worker' = "oops" => phase \in {"remove", "gone"}
    BY <1>7 DEF FoundInv, StoppedInv, HandlerStep, Toggle, WorkerStart, WorkerStep,
       WorkerReadDrvdata, WorkerDetect
  <2> QED
    BY <1>2, <2>1, <2>2, <2>3 DEF FoundInv
<1>8. ASSUME NEW c \in Clients, ClientProbe(c) \/ Commit(c) \/ ClientStep(c)
      PROVE  FoundInv'
  <2>1. UNCHANGED <<driver, phase, step, held, drvdata, registered, worker>>
    BY <1>8, ClientsLeaveDevice DEF device, detection
  <2>2. \A d \in Clients : pc'[d] = "probe" => driver.hotplug # "none"
    BY <1>8 DEF FoundInv, TypeOK, Goto, ClientProbe, Commit, ClientStep, ClientDetect,
       NothingToUpdate, Enter, PlaneOff, Map, MapFails, Copy, Send, Enable, CommitEnds
  <2> QED
    BY <1>2, <2>1, <2>2 DEF FoundInv
<1>9. CASE UNCHANGED vars
  BY <1>2, <1>9 DEF FoundInv, vars, device, detection, commits
<1> QED
  BY <1>3, <1>4, <1>5, <1>6, <1>7, <1>8, <1>9 DEF Next, HandlerStep

(* The invariant holds of a display that probe has not begun with.         *)
LEMMA InitInv == Init => IInv
<1> SUFFICES ASSUME Init PROVE IInv
  OBVIOUS
<1>1. 1 \in 1..Len(ProbeSteps(driver)) /\ ProbeSteps(driver)[1] = "pins"
  BY DEF ProbeSteps
<1>2. TypeOK
  BY <1>1 DEF Init, TypeOK, Steps
<1> QED
  BY <1>1, <1>2 DEF Init, IInv, TurnInv, Section, BufferInv, StoppedInv, UnplugInv,
     FoundInv, UnplugHasBegun, At, Steps

(* The invariant of the display drivers, for any set of clients and any of *)
(* the eight drivers.                                                      *)
THEOREM Inductive == Spec => []IInv
<1>1. IInv /\ [Next]_vars => IInv'
  BY TypeStep, TurnStep, BufferStep, StoppedStep, UnplugStep, FoundStep DEF IInv
<1> QED
  BY InitInv, <1>1, PTL DEF Spec

(* Every state of probe, of remove, of the handlers and of the clients has *)
(* its type; above all, commits take turns: at most one update is between  *)
(* drm_dev_enter and drm_dev_exit.                                         *)
THEOREM TypeCorrect == Spec => []TypeOK
<1>1. IInv => TypeOK
  BY DEF IInv
<1> QED
  BY Inductive, <1>1, PTL

(* No update copies into, or sends from, a shadow buffer that remove has   *)
(* freed, unless a client's late probe has revived the device.             *)
THEOREM BufferOutlivesUpdates == Spec => []BufferIsAlive
<1>1. ASSUME IInv PROVE BufferIsAlive
  <2> SUFFICES ASSUME NEW c \in Clients, pc[c] \in {"copy", "send"}, ~revived
               PROVE  buffer = "alive"
    BY DEF BufferIsAlive
  <2>1. c \in inside /\ registered
    BY <1>1 DEF IInv, TurnInv, Section
  <2>2. buffer # "freed"
    BY <1>1, <2>1 DEF IInv, UnplugInv
  <2> QED
    BY <1>1, <2>1, <2>2 DEF IInv, BufferInv, TypeOK
<1> QED
  BY Inductive, <1>1, PTL

(* The handlers of the detect pin find the pin, check_irq_thread misses    *)
(* its driver data only once remove has begun, and until then updates and  *)
(* clients' probes have their pins.                                        *)
THEOREM HandlersHaveWhatTheyUse == Spec => []HandlersFindTheirDevice
<1>1. ASSUME IInv PROVE HandlersFindTheirDevice
  <2>1. worker \in {"first", "detect"} => "detect" \in held
    BY <1>1 DEF IInv, StoppedInv, FoundInv
  <2>2. worker = "oops" => driver.hotplug = "irq" /\ phase \in {"remove", "gone"}
    BY <1>1 DEF IInv, FoundInv
  <2>3. ASSUME phase \in {"probe", "bound"}, NEW c \in Clients, pc[c] # "idle"
        PROVE  /\ {"dc", "reset"} \subseteq held
               /\ pc[c] = "probe" => "detect" \in held
    <3>1. registered
      BY <1>1, <2>3 DEF IInv, TurnInv
    <3>2. phase = "bound" \/ (phase = "probe" /\ step > 1)
      BY <1>1, <2>3, <3>1 DEF IInv, FoundInv, TypeOK
    <3> QED
      BY <1>1, <2>3, <3>2 DEF IInv, FoundInv
  <2> QED
    BY <2>1, <2>2, <2>3 DEF HandlersFindTheirDevice
<1> QED
  BY Inductive, <1>1, PTL
=============================================================================
