----------------------------- MODULE ModuleLife -----------------------------
(***************************************************************************)
(* Loading and unloading modules: those of part5 and part6 that sit on the *)
(* key's pin or have a character device, and those of part2 to part4 that  *)
(* register buses, classes, devices and kobjects.  What each init function *)
(* takes, what it gives back when a step fails, and what each exit         *)
(* function gives back, in the order of the code.  Several insmod and      *)
(* rmmod may run at once, and they compete for what only one module can    *)
(* have: the pin, its interrupt, and whatever has a name.                  *)
(*                                                                         *)
(* Few modules call cdev_del, so the kernel's map from device numbers to   *)
(* cdevs keeps an entry of most modules that were ever loaded, inside      *)
(* memory that exit frees, under whatever cdev_add puts over it later.     *)
(***************************************************************************)
EXTENDS Naturals, Sequences, SequencesExt

CONSTANTS Drivers,  \* which of the modules are considered
          Slots,    \* how many are loaded or unloaded at once
          Numbers,  \* the device numbers alloc_chrdev_region may give out
          Nobody    \* no slot, or no number

(* What a module can hold.  Some of it exists once in the system.          *)
DevFiles == {"/dev/key", "/dev/test", "/dev/dummy", "/dev/hpsim"}
Classes == {"key_class", "test_class", "dummy_class", "hpsim_class"}
Unique == DevFiles \cup Classes \cup
          {"pin", "irq", "sysfs_notify", "notify", "mmap_test", "bus-test", "100:1", "103:1",
           "dummy_master", "dummy_bus", "class_test", "sys_gr_ts", "umh_test", "dev_test"}
Resources == Unique \cup
             {"memory", "number", "cdev", "page", "device", "device_2", "driver", "driver_2",
              "attribute", "attribute_2"}

(* Mutations: exit frees the interrupt before the class; a failed request  *)
(* of the pin goes to the label that frees it; exit gives the device       *)
(* number back before the device file.                                     *)
KeyDeviceIrqFirst(name) ==
  [name |-> name,
   take |-> <<"memory", "pin", "irq", "number", "cdev", "key_class", "/dev/key">>,
   give |-> <<"irq", "pin", "/dev/key", "key_class", "number", "memory">>,
   undo |-> [pin |-> <<"memory">>, irq |-> <<"pin", "memory">>,
             devfile |-> <<"key_class", "number", "pin", "memory">>]]

KeyDeviceOneLabel(name) ==
  [name |-> name,
   take |-> <<"memory", "pin", "irq", "number", "cdev", "key_class", "/dev/key">>,
   give |-> <<"pin", "/dev/key", "key_class", "number", "irq", "memory">>,
   undo |-> [pin |-> <<"pin", "memory">>, irq |-> <<"pin", "memory">>,
             devfile |-> <<"key_class", "number", "pin", "memory">>]]

KeyDeviceNumberFirst(name) ==
  [name |-> name,
   take |-> <<"memory", "pin", "irq", "number", "cdev", "key_class", "/dev/key">>,
   give |-> <<"pin", "number", "/dev/key", "key_class", "irq", "memory">>,
   undo |-> [pin |-> <<"memory">>, irq |-> <<"pin", "memory">>,
             devfile |-> <<"key_class", "number", "pin", "memory">>]]

(* take: what init takes, in order; give: what exit gives back, in order;  *)
(* undo: what init gives back when the step is the one that fails.         *)
(* A module with its state in key, whose init ends in a device file.       *)
KeyDevice(name) ==
  [name |-> name,
   take |-> <<"memory", "pin", "irq", "number", "cdev", "key_class", "/dev/key">>,
   give |-> <<"pin", "/dev/key", "key_class", "number", "irq", "memory">>,
   undo |-> [pin |-> <<"memory">>, irq |-> <<"pin", "memory">>,
             devfile |-> <<"key_class", "number", "pin", "memory">>]]

BlockIo    == KeyDevice("block")
NonblockIo == KeyDevice("nonblock")
PollIo     == KeyDevice("poll")
EpollIo    == KeyDevice("epoll")
SelectIo   == KeyDevice("select")
Async      == KeyDevice("async")
Tasklet    == KeyDevice("tasklet")

Ioctl ==
  [name |-> "ioctl",
   take |-> <<"memory", "number", "cdev", "test_class", "/dev/test">>,
   give |-> <<"/dev/test", "test_class", "number", "memory">>,
   undo |-> [number |-> <<"memory">>, devfile |-> <<"test_class", "number", "memory">>]]

SysfsNotify ==
  [name |-> "sysfs_notify",
   take |-> <<"sysfs_notify", "notify", "pin", "irq">>,
   give |-> <<"pin", "irq", "notify", "sysfs_notify">>,
   undo |-> [notify |-> <<"sysfs_notify">>, irq |-> <<"pin">>]]

ThreadIrq ==
  [name |-> "thread_irq",
   take |-> <<"pin", "irq">>,
   give |-> <<"pin", "irq">>,
   undo |-> [irq |-> <<"pin">>]]

(* The modules of part2, part3 and part4 return from a step that failed    *)
(* without giving anything back.                                           *)
NoUndo == [memory |-> <<>>]

(* exit forgets the page.  The device's attribute comes last, unchecked,   *)
(* and goes with the device: it makes no difference here.                  *)
DummyMmap ==
  [name |-> "mmap",
   take |-> <<"mmap_test", "memory", "number", "cdev", "dummy_class", "/dev/dummy", "page">>,
   give |-> <<"cdev", "number", "/dev/dummy", "dummy_class", "memory", "mmap_test">>,
   undo |-> NoUndo]

MdevHotplug ==
  [name |-> "mdev_hotplug",
   take |-> <<"memory", "number", "cdev", "hpsim_class", "/dev/hpsim", "attribute",
              "attribute_2">>,
   give |-> <<"attribute", "attribute_2", "cdev", "memory", "number", "/dev/hpsim",
              "hpsim_class">>,
   undo |-> NoUndo]

(* A bus with a device and a driver for it, and the device's attributes,   *)
(* which go with it.                                                       *)
BusDemo(name, device, attributes) ==
  [name |-> name,
   take |-> <<"bus-test", device, "driver">> \o attributes,
   give |-> <<"driver">> \o attributes \o <<device, "bus-test">>,
   undo |-> NoUndo]

DriverTest  == BusDemo("driver-test", "device", <<>>)
HotplugEnv  == BusDemo("hotplug_env", "100:1", <<>>)
UdevHotplug == BusDemo("udev_hotplug", "103:1", <<"attribute">>)
UdevAttr    == BusDemo("udev_attr", "103:1", <<"attribute", "attribute_2">>)

BusTest ==
  [name |-> "bus-test", take |-> <<"bus-test">>, give |-> <<"bus-test">>, undo |-> NoUndo]

(* Its device sits on the bus whose type BusTest exports.                  *)
DeviceTest ==
  [name |-> "device-test", take |-> <<"dev_test">>, give |-> <<"dev_test">>, undo |-> NoUndo]

ClassTest ==
  [name |-> "class-test",
   take |-> <<"class_test", "device">>, give |-> <<"device", "class_test">>, undo |-> NoUndo]

BusClassTest ==
  [name |-> "bus-class-test",
   take |-> <<"dummy_master", "dummy_bus", "driver", "driver_2", "device", "device_2",
              "103:1">>,
   give |-> <<"103:1", "device_2", "device", "driver_2", "driver", "dummy_bus",
              "dummy_master">>,
   undo |-> NoUndo]

SysfsDemo ==
  [name |-> "sysfs-demo",
   take |-> <<"sys_gr_ts", "attribute">>, give |-> <<"attribute", "sys_gr_ts">>,
   undo |-> NoUndo]

UmhTest ==
  [name |-> "umh_test",
   take |-> <<"umh_test", "attribute">>, give |-> <<"attribute", "umh_test">>,
   undo |-> NoUndo]

(* Its exit function is empty.                                             *)
UmhTestLed ==
  [name |-> "umh_test_led",
   take |-> <<"umh_test", "attribute">>, give |-> <<>>, undo |-> NoUndo]

AllDrivers == {BlockIo, NonblockIo, PollIo, EpollIo, SelectIo, Async, Tasklet,
               Ioctl, SysfsNotify, ThreadIrq, DummyMmap, MdevHotplug, DriverTest, HotplugEnv,
               UdevHotplug, UdevAttr, BusTest, DeviceTest, ClassTest, BusClassTest, SysfsDemo,
               UmhTest, UmhTestLed}

(* They export a symbol of the same name, so that one at a time is let in. *)
BusTestExporters == {DriverTest, HotplugEnv, UdevHotplug, UdevAttr}

ASSUME ModuleLifeAssumption == /\ Drivers \subseteq AllDrivers
                               /\ Nobody \notin Numbers \cup Slots
                               /\ Numbers \cap Resources = {}

VARIABLES
  driver,   \* the module each slot stands for
  phase,    \* "out" | "init" | "unwind" | "loaded" | "exit"
  step,     \* init: how many steps it has behind it
  todo,     \* unwind and exit: what is still to be given back, in order
  held,     \* what each slot's module holds
  number,   \* the device number it was given
  cdev_map, \* the slot whose cdev a device number leads to, if any
  stale,    \* the numbers with a cdev of an unloaded module, perhaps beneath
  open,     \* the slots whose device file an application has open
  left,     \* what inits that failed, and the empty exit, have left behind
  unadded   \* the slots whose init did not see its cdev_add fail

vars == <<driver, phase, step, todo, held, number, cdev_map, stale, open, left, unadded>>

TypeOK ==
  /\ driver \in [Slots -> Drivers]
  /\ phase \in [Slots -> {"out", "init", "unwind", "loaded", "exit"}]
  /\ step \in [Slots -> 0..7]
  /\ DOMAIN todo = Slots
  /\ \A s \in Slots : todo[s] \in Seq(Resources) /\ Len(todo[s]) <= 7
  /\ \A s \in Slots : phase[s] \in {"out", "init", "loaded"} => todo[s] = <<>>
  /\ held \in [Slots -> SUBSET Resources]
  /\ number \in [Slots -> Numbers \cup {Nobody}]
  /\ cdev_map \in [Numbers -> Slots \cup {Nobody}]
  /\ stale \in SUBSET Numbers
  /\ open \in SUBSET Slots
  /\ left \in SUBSET (Unique \cup Numbers)
  /\ unadded \in SUBSET Slots

Init ==
  /\ driver \in {f \in [Slots -> Drivers] : IsInjective(f)}
  /\ phase = [s \in Slots |-> "out"]
  /\ step = [s \in Slots |-> 0]
  /\ todo = [s \in Slots |-> <<>>]
  /\ held = [s \in Slots |-> {}]
  /\ number = [s \in Slots |-> Nobody]
  /\ cdev_map = [n \in Numbers |-> Nobody]
  /\ stale = {}
  /\ open = {}
  /\ left = {}
  /\ unadded = {}

----------------------------------------------------------------------------
(* insmod, which wants the module whose symbol this one uses.              *)

(* The module in slot s uses a symbol of the one in slot t.                *)
Uses(s, t) == driver[s] = DeviceTest /\ driver[t] = BusTest

Insmod(s) ==
  /\ phase[s] = "out"
  /\ driver[s] = DeviceTest => \E t \in Slots : Uses(s, t) /\ phase[t] = "loaded"
  /\ driver[s] \in BusTestExporters =>
       \A t \in Slots : driver[t] \in BusTestExporters => phase[t] = "out"
  /\ phase' = [phase EXCEPT ![s] = "init"]
  /\ UNCHANGED <<driver, step, todo, held, number, cdev_map, stale, open, left, unadded>>

Wanted(s) == driver[s].take[step[s] + 1]

Taken(r) == r \in left \/ \E s \in Slots : r \in held[s]

(* The end of a step of init that lets it go on, and of init after the     *)
(* last one.                                                               *)
GoOn(s) ==
  IF step[s] + 1 = Len(driver[s].take)
  THEN phase' = [phase EXCEPT ![s] = "loaded"] /\ step' = [step EXCEPT ![s] = 0]
  ELSE step' = [step EXCEPT ![s] = @ + 1] /\ UNCHANGED phase

Hold(s) == held' = [held EXCEPT ![s] = @ \cup {Wanted(s)}]

(* gpio_request, request_irq, class_create, device_create, and the calls   *)
(* that register a bus, a class, a device number or a kobject get what     *)
(* nobody has.  device_create also needs the class.                        *)
TakeUnique(s) ==
  /\ phase[s] = "init"
  /\ Wanted(s) \in Unique /\ ~Taken(Wanted(s))
  /\ Wanted(s) \in DevFiles => Classes \cap held[s] # {}
  /\ Hold(s)
  /\ GoOn(s)
  /\ UNCHANGED <<driver, todo, number, cdev_map, stale, open, left, unadded>>

(* Memory, and what has its name below something that is the module's own. *)
TakeOwn(s) ==
  /\ phase[s] = "init"
  /\ Wanted(s) \notin Unique \cup {"number", "cdev"}
  /\ Hold(s)
  /\ GoOn(s)
  /\ UNCHANGED <<driver, todo, number, cdev_map, stale, open, left, unadded>>

(* alloc_chrdev_region gives a number no module has registered.            *)
TakeNumber(s) ==
  /\ phase[s] = "init"
  /\ Wanted(s) = "number"
  /\ \E n \in Numbers \ (left \cup {number[t] : t \in Slots}) : number' = [number EXCEPT ![s] = n]
  /\ Hold(s)
  /\ GoOn(s)
  /\ UNCHANGED <<driver, todo, cdev_map, stale, open, left, unadded>>

(* cdev_add covers whatever cdev the number led to before.                 *)
AddCdev(s) ==
  /\ phase[s] = "init"
  /\ Wanted(s) = "cdev"
  /\ cdev_map' = [cdev_map EXCEPT ![number[s]] = s]
  /\ stale' = IF cdev_map[number[s]] = Nobody THEN stale ELSE stale \cup {number[s]}
  /\ Hold(s)
  /\ GoOn(s)
  /\ UNCHANGED <<driver, todo, number, open, left, unadded>>

(* Nobody looks at what cdev_add returns, and class_create is only tested  *)
(* for NULL, which it never returns.                                       *)
FailUnseen(s) ==
  /\ phase[s] = "init"
  /\ Wanted(s) \in {"cdev"} \cup Classes
  /\ unadded' = IF Wanted(s) = "cdev" THEN unadded \cup {s} ELSE unadded
  /\ GoOn(s)
  /\ UNCHANGED <<driver, todo, held, number, cdev_map, stale, open, left>>

(* What the labels and the early returns after a failed step give back:    *)
(* nothing, where undo does not say.                                       *)
Undo(s) ==
  LET field == IF Wanted(s) \in DevFiles THEN "devfile" ELSE Wanted(s)
      undo == driver[s].undo
  IN IF field \in DOMAIN undo THEN undo[field] ELSE <<>>

Fail(s) ==
  /\ phase[s] = "init"
  /\ Wanted(s) \notin {"cdev"} \cup Classes
  /\ todo' = [todo EXCEPT ![s] = Undo(s)]
  /\ phase' = [phase EXCEPT ![s] = "unwind"]
  /\ step' = [step EXCEPT ![s] = 0]
  /\ UNCHANGED <<driver, held, number, cdev_map, stale, open, left, unadded>>

----------------------------------------------------------------------------
(* rmmod, and the giving back it shares with a failed insmod.              *)

Rmmod(s) ==
  /\ phase[s] = "loaded"
  /\ s \notin open
  /\ \A t \in Slots : Uses(t, s) => phase[t] = "out"
  /\ phase' = [phase EXCEPT ![s] = "exit"]
  /\ todo' = [todo EXCEPT ![s] = driver[s].give]
  /\ UNCHANGED <<driver, step, held, number, cdev_map, stale, open, left, unadded>>

CdevAt(s) == {n \in Numbers : cdev_map[n] = s}
WithoutCdev(s) == [n \in Numbers |-> IF n \in CdevAt(s) THEN Nobody ELSE cdev_map[n]]

(* gpio_free does not ask who requested the pin.  kfree takes the cdev     *)
(* inside key with it, unregister_chrdev_region only the number; cdev_del  *)
(* takes the cdev off the map, and what it covered shows again.            *)
Release(s) ==
  LET r == Head(todo[s])
  IN /\ phase[s] \in {"unwind", "exit"}
     /\ todo[s] # <<>>
     /\ held' = [t \in Slots |-> IF t = s \/ r = "pin" THEN held[t] \ {r} ELSE held[t]]
     /\ left' = IF r = "pin" THEN left \ {r} ELSE left
     /\ number' = IF r = "number" THEN [number EXCEPT ![s] = Nobody] ELSE number
     /\ cdev_map' = IF r \in {"memory", "cdev"} THEN WithoutCdev(s) ELSE cdev_map
     /\ stale' = IF r = "memory" THEN stale \cup CdevAt(s) ELSE stale
     /\ todo' = [todo EXCEPT ![s] = Tail(@)]
     /\ UNCHANGED <<driver, phase, step, open, unadded>>

(* The module's memory goes; what it still holds stays behind, and so does *)
(* its number, if it has not been given back.                              *)
Unload(s) ==
  /\ phase[s] \in {"unwind", "exit"}
  /\ todo[s] = <<>>
  /\ phase' = [phase EXCEPT ![s] = "out"]
  /\ left' = left \cup (held[s] \cap Unique) \cup ({number[s]} \ {Nobody})
  /\ held' = [held EXCEPT ![s] = {}]
  /\ number' = [number EXCEPT ![s] = Nobody]
  /\ cdev_map' = WithoutCdev(s)
  /\ stale' = stale \cup CdevAt(s)
  /\ unadded' = unadded \ {s}
  /\ UNCHANGED <<driver, step, todo, open>>

----------------------------------------------------------------------------
(* An application opens the device file: try_module_get counts the module  *)
(* as in use, and refuses one that is being unloaded.                      *)
Open(s) ==
  /\ phase[s] = "loaded"
  /\ DevFiles \cap held[s] # {} /\ "cdev" \in held[s]
  /\ s \notin open
  /\ open' = open \cup {s}
  /\ UNCHANGED <<driver, phase, step, todo, held, number, cdev_map, stale, left, unadded>>

Close(s) ==
  /\ s \in open
  /\ open' = open \ {s}
  /\ UNCHANGED <<driver, phase, step, todo, held, number, cdev_map, stale, left, unadded>>

Next == \E s \in Slots :
  \/ Insmod(s) \/ TakeUnique(s) \/ TakeOwn(s) \/ TakeNumber(s) \/ AddCdev(s)
  \/ FailUnseen(s) \/ Fail(s) \/ Rmmod(s) \/ Release(s) \/ Unload(s)
  \/ Open(s) \/ Close(s)

Spec == Init /\ [][Next]_vars

----------------------------------------------------------------------------
(* Classes and device files have fixed names, and no init function notices *)
(* that its class could not be created.  No other module ever has the name *)
(* all the same: the exit of a module with the key frees the interrupt     *)
(* after the class, so whoever is past request_irq is alone, even while    *)
(* pin and interrupt change hands; and a mmap module that fails leaves the *)
(* device behind that its init asks for first.  Only mdev_hotplug can meet *)
(* a class that its own failed init has left behind.                       *)
NamesAreFree ==
  \A s \in Slots :
    (phase[s] = "init" /\ Wanted(s) \in Classes \cup DevFiles /\ driver[s] # MdevHotplug) =>
      ~Taken(Wanted(s))

(* A module that is loaded has everything its init asked for, but perhaps  *)
(* its cdev: no other module's clean-up, whose gpio_free does not ask for  *)
(* an owner, has taken any of it away.                                     *)
LoadedHasAll ==
  \A s \in Slots :
    phase[s] = "loaded" => ToSet(driver[s].take) \ {"cdev"} \subseteq held[s]

(* The modules whose exit takes the cdev and the number away first, and    *)
(* the device file after them.                                             *)
FileLast == {DummyMmap, MdevHotplug}

(* As long as a module is there and its device file exists, the number the *)
(* file bears is the module's, and leads to its own cdev: not to another   *)
(* module's, nor to one of the freed ones still in the map.  There are two *)
(* exceptions in the code: an init that did not see its cdev_add fail, and *)
(* the two exits that call device_destroy after cdev_del: in between,      *)
(* their file leads nowhere, or wherever the next owner of the number      *)
(* takes it.  A file that the module has left behind leads to freed memory.*)
DeviceFileLeadsHome ==
  \A s \in Slots :
    DevFiles \cap held[s] # {} =>
      \/ number[s] # Nobody /\ cdev_map[number[s]] = s
      \/ s \in unadded
      \/ phase[s] = "exit" /\ driver[s] \in FileLast /\ "cdev" \notin ToSet(todo[s])
=============================================================================
