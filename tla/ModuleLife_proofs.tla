-------------------------- MODULE ModuleLife_proofs --------------------------
(***************************************************************************)
(* That modules loaded and unloaded at once do not take what is another's, *)
(* for any number of them and any device numbers.                          *)
(***************************************************************************)
EXTENDS ModuleLife, TLAPS

(* What init cannot tell it has not got.                                   *)
Unseen == {"cdev"} \cup Classes

KeyNames == {"key_class", "/dev/key"}
MmapNames == {"dummy_class", "/dev/dummy"}
TestNames == {"test_class", "/dev/test"}

(* The label a failed step of driver d that wants r goes to.               *)
UndoOf(d, r) ==
  LET field == IF r \in DevFiles THEN "devfile" ELSE r
  IN IF field \in DOMAIN d.undo THEN d.undo[field] ELSE <<>>

(* x comes before the i-th element of q.                                   *)
Before(x, q, i) == \E h \in 1..(i - 1) : q[h] = x

(* What the init functions have in common: the order in which they take    *)
(* what the others' names depend on.                                       *)
TakesWell(d) ==
  /\ d.take \in Seq(Resources) /\ Len(d.take) \in 1..7
  /\ \A i, j \in 1..Len(d.take) : d.take[i] = d.take[j] => i = j
  /\ \A i \in 1..Len(d.take) :
       /\ d.take[i] = "cdev" => Before("number", d.take, i)
       /\ d.take[i] \in DevFiles => Before("cdev", d.take, i)
       /\ d.take[i] \in KeyNames => Before("irq", d.take, i)
       /\ d.take[i] \in MmapNames => Before("mmap_test", d.take, i) /\ d = DummyMmap
       /\ d.take[i] \in TestNames => d = Ioctl
       /\ d.take[i] \in {"hpsim_class", "/dev/hpsim"} => d = MdevHotplug
       /\ d.take[i] \in Classes => \E j \in (i + 1)..Len(d.take) : d.take[j] \in DevFiles
       /\ d.take[i] \in DevFiles => \E j \in 1..(i - 1) :
            \A h \in 1..Len(d.take) : d.take[h] \in Classes <=> h = j

(* What any of the lists of things to give back keeps to.                  *)
GivesInOrder(q) ==
  /\ q \in Seq(Resources) /\ Len(q) <= 7
  /\ \A i, j \in 1..Len(q) : q[i] = q[j] => i = j
  /\ \A i, j \in 1..Len(q) : i < j =>
       /\ q[i] = "irq" => q[j] \notin KeyNames
       /\ q[i] = "mmap_test" => q[j] \notin MmapNames

(* The cdev goes first, or its memory and its number after the device file.*)
CdevInOrder(q) ==
  \A i, j \in 1..Len(q) :
    i < j /\ q[i] \in {"number", "memory"} /\ q[j] \in DevFiles => Before("cdev", q, i)

(* The exit function gives back what init has taken, all that has a fixed  *)
(* name among it...                                                        *)
ExitsWell(d) ==
  /\ GivesInOrder(d.give) /\ CdevInOrder(d.give)
  /\ ToSet(d.give) \subseteq ToSet(d.take)
  /\ ToSet(d.take) \cap (Classes \cup DevFiles) \subseteq ToSet(d.give)
  /\ "cdev" \in ToSet(d.give) => d \in FileLast

(* ...and so do the labels of init, for what it has got so far.            *)
UndoesStepWell(d, i, q) ==
  /\ GivesInOrder(q)
  /\ ToSet(q) \cap ({"irq", "mmap_test", "cdev"} \cup DevFiles) = {}
  /\ "pin" \in ToSet(q) => Before("pin", d.take, i)
  /\ q # <<>> => \A j \in 1..(i - 1) : d.take[j] \notin DevFiles
  /\ \A j \in 1..(i - 1) : d.take[j] \in KeyNames \cup TestNames => d.take[j] \in ToSet(q)

UndoesWell(d) ==
  \A i \in 1..Len(d.take) :
    d.take[i] \notin Unseen => UndoesStepWell(d, i, UndoOf(d, d.take[i]))

WellMade(d) == TakesWell(d) /\ ExitsWell(d) /\ UndoesWell(d)

----------------------------------------------------------------------------
(* The inductive invariant.                                                *)
T(s) == driver[s].take
Done(s) == {T(s)[i] : i \in 1..step[s]}

(* Every resource that exists once has one holder at most, and no device   *)
(* number is two modules'.                                                 *)
OwnerInv ==
  /\ \A s, t \in Slots : driver[s] = driver[t] => s = t
  /\ \A s, t \in Slots : \A r \in Unique : r \in held[s] /\ r \in held[t] => s = t
  /\ \A s \in Slots : held[s] \cap Unique \cap left = {}
  /\ \A s, t \in Slots : number[s] = number[t] /\ number[s] # Nobody => s = t

(* What the inits that failed leave behind.                                *)
LeftInv ==
  /\ left \cap (KeyNames \cup TestNames) = {}
  /\ left \cap MmapNames # {} => "mmap_test" \in left

(* What a module holds while its init, its clean-up or its exit is on.     *)
Holding(s) ==
  /\ held[s] \subseteq ToSet(T(s))
  /\ "number" \in held[s] <=> number[s] # Nobody
  /\ held[s] \cap KeyNames # {} => "irq" \in held[s]
  /\ held[s] \cap MmapNames # {} => "mmap_test" \in held[s]
  /\ phase[s] = "out" => held[s] = {}
  /\ phase[s] # "init" => step[s] = 0
  /\ phase[s] = "init" =>
       /\ step[s] < Len(T(s))
       /\ Done(s) \ Unseen \subseteq held[s] /\ held[s] \subseteq Done(s)
       /\ Done(s) \cap DevFiles # {} => Done(s) \cap Classes \subseteq held[s]
  /\ phase[s] = "loaded" => ToSet(T(s)) \ {"cdev"} \subseteq held[s]
  /\ phase[s] = "exit" =>
       /\ ToSet(todo[s]) \ {"cdev"} \subseteq held[s]
       /\ held[s] \cap (Classes \cup DevFiles) \subseteq ToSet(todo[s])
  /\ phase[s] = "unwind" =>
       /\ todo[s] # <<>> => held[s] \cap DevFiles = {}
       /\ held[s] \cap (KeyNames \cup TestNames) \subseteq ToSet(todo[s])
       /\ "irq" \notin ToSet(todo[s]) /\ "mmap_test" \notin ToSet(todo[s])

(* What is still to be given back.                                         *)
Pending(s) ==
  /\ GivesInOrder(todo[s])
  /\ "cdev" \in held[s] => CdevInOrder(todo[s])
  /\ "pin" \in ToSet(todo[s]) => "pin" \in held[s]

(* A cdev that was added is found by its number.                           *)
CdevFound(s) ==
  "cdev" \in held[s] /\ (phase[s] \in {"init", "loaded"} \/ held[s] \cap DevFiles # {}) =>
    number[s] # Nobody /\ cdev_map[number[s]] = s

(* A cdev is not there because it was not added yet, its cdev_add failed,  *)
(* or one of two exit functions has deleted it.                            *)
CdevMissed(s) ==
  /\ "cdev" \in ToSet(todo[s]) => phase[s] = "exit" /\ driver[s] \in FileLast
  /\ "cdev" \notin held[s] /\ s \notin unadded =>
       /\ phase[s] = "init" => "cdev" \notin Done(s)
       /\ held[s] \cap DevFiles # {} =>
            phase[s] = "exit" /\ driver[s] \in FileLast /\ "cdev" \notin ToSet(todo[s])

IInv ==
  /\ TypeOK /\ OwnerInv /\ LeftInv
  /\ \A s \in Slots : Holding(s) /\ Pending(s) /\ CdevFound(s) /\ CdevMissed(s)

----------------------------------------------------------------------------
(* The modules, one by one.                                                *)
LEMMA KeyDeviceWell == ASSUME NEW name PROVE WellMade(KeyDevice(name))
<1> DEFINE d == KeyDevice(name)
<1>1. /\ d.take = <<"memory", "pin", "irq", "number", "cdev", "key_class", "/dev/key">>
      /\ d.give = <<"pin", "/dev/key", "key_class", "number", "irq", "memory">>
      /\ d.undo = [pin |-> <<"memory">>, irq |-> <<"pin", "memory">>,
                   devfile |-> <<"key_class", "number", "pin", "memory">>]
  BY DEF KeyDevice
<1> HIDE DEF d
<1>2. TakesWell(d)
  BY <1>1 DEF TakesWell, Before, KeyNames, MmapNames, TestNames, Classes, DevFiles, Resources,
     Unique
<1>3. ExitsWell(d)
  BY <1>1 DEF ExitsWell, GivesInOrder, CdevInOrder, Before, KeyNames, MmapNames, Classes, DevFiles,
     Resources, Unique, ToSet, FileLast
<1>4. UndoesWell(d)
  <2>1. /\ UndoOf(d, "memory") = <<>> /\ UndoOf(d, "number") = <<>>
        /\ UndoOf(d, "pin") = <<"memory">>
        /\ UndoOf(d, "irq") = <<"pin", "memory">>
        /\ UndoOf(d, "/dev/key") = <<"key_class", "number", "pin", "memory">>
    BY <1>1 DEF UndoOf, DevFiles
  <2>2. UndoesStepWell(d, 1, <<>>) /\ UndoesStepWell(d, 4, <<>>)
    BY <1>1 DEF UndoesStepWell, GivesInOrder, Before, KeyNames, TestNames, ToSet
  <2>3. UndoesStepWell(d, 2, <<"memory">>)
    BY <1>1 DEF UndoesStepWell, GivesInOrder, Before, KeyNames, MmapNames, TestNames, DevFiles,
       Resources, ToSet
  <2>6. UndoesStepWell(d, 3, <<"pin", "memory">>)
    <3>1. GivesInOrder(<<"pin", "memory">>)
      BY DEF GivesInOrder, KeyNames, MmapNames, Resources, Unique
    <3> QED
      BY <1>1, <3>1 DEF UndoesStepWell, Before, KeyNames, TestNames, DevFiles, ToSet
  <2>4. UndoesStepWell(d, 7, <<"key_class", "number", "pin", "memory">>)
    BY <1>1 DEF UndoesStepWell, GivesInOrder, Before, KeyNames, MmapNames, TestNames, DevFiles,
       Classes, Unique, Resources, ToSet
  <2> QED
    BY <1>1, <2>1, <2>2, <2>3, <2>4, <2>6 DEF UndoesWell, Unseen, Classes
<1> QED
  BY <1>2, <1>3, <1>4 DEF WellMade, d

(* ioctl, which has no interrupt.                                          *)
LEMMA IoctlWell == WellMade(Ioctl)
<1> DEFINE d == Ioctl
<1>1. /\ d.take = <<"memory", "number", "cdev", "test_class", "/dev/test">>
      /\ d.give = <<"/dev/test", "test_class", "number", "memory">>
      /\ d.undo = [number |-> <<"memory">>, devfile |-> <<"test_class", "number", "memory">>]
  BY DEF Ioctl
<1>2. TakesWell(d)
  BY <1>1 DEF TakesWell, Before, KeyNames, MmapNames, TestNames, Classes, DevFiles, Resources,
     Unique
<1>3. ExitsWell(d)
  BY <1>1 DEF ExitsWell, GivesInOrder, CdevInOrder, Before, KeyNames, MmapNames, Classes, DevFiles,
     Resources, Unique, ToSet, FileLast
<1>4. UndoesWell(d)
  <2>1. /\ UndoOf(d, "memory") = <<>> /\ UndoOf(d, "number") = <<"memory">>
        /\ UndoOf(d, "/dev/test") = <<"test_class", "number", "memory">>
    BY <1>1 DEF UndoOf, DevFiles
  <2>2. UndoesStepWell(d, 1, <<>>)
    BY <1>1 DEF UndoesStepWell, GivesInOrder, Before, KeyNames, TestNames, ToSet
  <2>3. UndoesStepWell(d, 2, <<"memory">>)
    BY <1>1 DEF UndoesStepWell, GivesInOrder, Before, KeyNames, MmapNames, TestNames, DevFiles,
       Resources, ToSet
  <2>4. UndoesStepWell(d, 5, <<"test_class", "number", "memory">>)
    BY <1>1 DEF UndoesStepWell, GivesInOrder, Before, KeyNames, MmapNames, TestNames, DevFiles,
       Classes, Unique, Resources, ToSet
  <2> QED
    BY <1>1, <2>1, <2>2, <2>3, <2>4 DEF UndoesWell, Unseen, Classes
<1> QED
  BY <1>2, <1>3, <1>4 DEF WellMade

(* sysfs_notify, with kobjects instead of a device file.                   *)
LEMMA SysfsNotifyWell == WellMade(SysfsNotify)
<1> DEFINE d == SysfsNotify
<1>1. /\ d.take = <<"sysfs_notify", "notify", "pin", "irq">>
      /\ d.give = <<"pin", "irq", "notify", "sysfs_notify">>
      /\ d.undo = [notify |-> <<"sysfs_notify">>, irq |-> <<"pin">>]
  BY DEF SysfsNotify
<1>2. TakesWell(d)
  BY <1>1 DEF TakesWell, Before, KeyNames, MmapNames, TestNames, Classes, DevFiles, Resources,
     Unique
<1>3. ExitsWell(d)
  BY <1>1 DEF ExitsWell, GivesInOrder, CdevInOrder, Before, KeyNames, MmapNames, Classes, DevFiles,
     Resources, Unique, ToSet, FileLast
<1>4. UndoesWell(d)
  <2>1. /\ UndoOf(d, "sysfs_notify") = <<>> /\ UndoOf(d, "notify") = <<"sysfs_notify">>
        /\ UndoOf(d, "pin") = <<>> /\ UndoOf(d, "irq") = <<"pin">>
    BY <1>1 DEF UndoOf, DevFiles
  <2>2. UndoesStepWell(d, 1, <<>>) /\ UndoesStepWell(d, 3, <<>>)
    BY <1>1 DEF UndoesStepWell, GivesInOrder, Before, KeyNames, TestNames, ToSet
  <2>3. UndoesStepWell(d, 2, <<"sysfs_notify">>)
    BY <1>1 DEF UndoesStepWell, GivesInOrder, Before, KeyNames, MmapNames, TestNames, DevFiles,
       Unique, Resources, ToSet
  <2>4. UndoesStepWell(d, 4, <<"pin">>)
    BY <1>1 DEF UndoesStepWell, GivesInOrder, Before, KeyNames, MmapNames, TestNames, DevFiles,
       Unique, Resources, ToSet
  <2> QED
    BY <1>1, <2>1, <2>2, <2>3, <2>4 DEF UndoesWell, Unseen, Classes
<1> QED
  BY <1>2, <1>3, <1>4 DEF WellMade

(* thread_irq, with the pin and its interrupt only.                        *)
LEMMA ThreadIrqWell == WellMade(ThreadIrq)
<1> DEFINE d == ThreadIrq
<1>1. d.take = <<"pin", "irq">> /\ d.give = <<"pin", "irq">> /\ d.undo = [irq |-> <<"pin">>]
  BY DEF ThreadIrq
<1>2. TakesWell(d)
  BY <1>1 DEF TakesWell, Before, KeyNames, MmapNames, TestNames, Classes, DevFiles, Resources,
     Unique
<1>3. ExitsWell(d)
  BY <1>1 DEF ExitsWell, GivesInOrder, CdevInOrder, Before, KeyNames, MmapNames, Classes, DevFiles,
     Resources, Unique, ToSet, FileLast
<1>4. UndoesWell(d)
  <2>1. UndoOf(d, "pin") = <<>> /\ UndoOf(d, "irq") = <<"pin">>
    BY <1>1 DEF UndoOf, DevFiles
  <2>2. UndoesStepWell(d, 1, <<>>)
    BY <1>1 DEF UndoesStepWell, GivesInOrder, Before, KeyNames, TestNames, ToSet
  <2>3. UndoesStepWell(d, 2, <<"pin">>)
    BY <1>1 DEF UndoesStepWell, GivesInOrder, Before, KeyNames, MmapNames, TestNames, DevFiles,
       Unique, Resources, ToSet
  <2> QED
    BY <1>1, <2>1, <2>2, <2>3 DEF UndoesWell, Unseen, Classes
<1> QED
  BY <1>2, <1>3, <1>4 DEF WellMade

(* An early return gives nothing back.                                     *)
LEMMA NoUndoWell ==
  ASSUME NEW d, d.undo = NoUndo, TakesWell(d), ToSet(d.take) \cap (KeyNames \cup TestNames) = {}
  PROVE  UndoesWell(d)
<1>1. \A r : UndoOf(d, r) = <<>>
  BY DEF UndoOf, NoUndo
<1>2. GivesInOrder(<<>>) /\ ToSet(<<>>) = {}
  BY DEF GivesInOrder, ToSet
<1>3. ASSUME NEW i \in 1..Len(d.take), NEW j \in 1..(i - 1) PROVE d.take[j] \in ToSet(d.take)
  BY DEF TakesWell, ToSet
<1> QED
  BY <1>1, <1>2, <1>3 DEF UndoesWell, UndoesStepWell

(* The mmap demo, which takes a name of its own first.                     *)
LEMMA DummyMmapWell == WellMade(DummyMmap)
<1> DEFINE d == DummyMmap
<1>1. /\ d.take = <<"mmap_test", "memory", "number", "cdev", "dummy_class", "/dev/dummy", "page">>
      /\ d.give = <<"cdev", "number", "/dev/dummy", "dummy_class", "memory", "mmap_test">>
      /\ d.undo = NoUndo
  BY DEF DummyMmap
<1>2. TakesWell(d)
  BY <1>1 DEF TakesWell, Before, KeyNames, MmapNames, TestNames, Classes, DevFiles, Resources,
     Unique
<1>3. ExitsWell(d)
  BY <1>1 DEF ExitsWell, GivesInOrder, CdevInOrder, Before, KeyNames, MmapNames, Classes, DevFiles,
     Resources, Unique, ToSet, FileLast
<1>4. ToSet(d.take) \cap (KeyNames \cup TestNames) = {}
  BY <1>1 DEF ToSet, KeyNames, TestNames
<1> QED
  BY <1>1, <1>2, <1>3, <1>4, NoUndoWell DEF WellMade

(* mdev_hotplug, which takes nothing with a name before its class.         *)
LEMMA MdevHotplugWell == WellMade(MdevHotplug)
<1> DEFINE d == MdevHotplug
<1>1. /\ d.take = <<"memory", "number", "cdev", "hpsim_class", "/dev/hpsim", "attribute",
                    "attribute_2">>
      /\ d.give = <<"attribute", "attribute_2", "cdev", "memory", "number", "/dev/hpsim",
                    "hpsim_class">>
      /\ d.undo = NoUndo
  BY DEF MdevHotplug
<1>2. TakesWell(d)
  BY <1>1 DEF TakesWell, Before, KeyNames, MmapNames, TestNames, Classes, DevFiles, Resources,
     Unique
<1>3. ExitsWell(d)
  BY <1>1 DEF ExitsWell, GivesInOrder, CdevInOrder, Before, KeyNames, MmapNames, Classes, DevFiles,
     Resources, Unique, ToSet, FileLast
<1>4. ToSet(d.take) \cap (KeyNames \cup TestNames) = {}
  BY <1>1 DEF ToSet, KeyNames, TestNames
<1> QED
  BY <1>1, <1>2, <1>3, <1>4, NoUndoWell DEF WellMade

(* Modules without a class or a device file.                               *)
Plain(t, g) ==
  /\ t \in Seq(Resources) /\ Len(t) \in 1..7
  /\ g \in Seq(Resources) /\ Len(g) <= 7
  /\ \A i, j \in 1..Len(t) : t[i] = t[j] => i = j
  /\ \A i, j \in 1..Len(g) : g[i] = g[j] => i = j
  /\ ToSet(g) \subseteq ToSet(t)
  /\ ToSet(t) \cap ({"cdev"} \cup Classes \cup DevFiles) = {}

(* Such a module need only give back what it has taken.                    *)
LEMMA PlainWell ==
  ASSUME NEW d, Plain(d.take, d.give), d.undo = NoUndo
  PROVE  WellMade(d)
<1>1. KeyNames \cup MmapNames \cup TestNames \cup {"hpsim_class", "/dev/hpsim"}
        \subseteq Classes \cup DevFiles
  BY DEF KeyNames, MmapNames, TestNames, Classes, DevFiles
<1>2. /\ \A i \in 1..Len(d.take) : d.take[i] \notin {"cdev"} \cup Classes \cup DevFiles
      /\ \A i \in 1..Len(d.give) : d.give[i] \notin {"cdev"} \cup Classes \cup DevFiles
  <2>1. /\ \A i \in 1..Len(d.take) : d.take[i] \in ToSet(d.take)
        /\ \A i \in 1..Len(d.give) : d.give[i] \in ToSet(d.give)
    BY DEF ToSet
  <2> QED
    BY <2>1 DEF Plain
<1>3. TakesWell(d)
  BY <1>1, <1>2 DEF Plain, TakesWell
<1>4. ExitsWell(d)
  <2>1. GivesInOrder(d.give) /\ CdevInOrder(d.give)
    BY <1>1, <1>2 DEF Plain, GivesInOrder, CdevInOrder
  <2> QED
    BY <2>1 DEF Plain, ExitsWell
<1>5. UndoesWell(d)
  BY <1>1, <1>3, NoUndoWell DEF Plain
<1> QED
  BY <1>3, <1>4, <1>5 DEF WellMade

(* What s \o t is, element by element.                                     *)
LEMMA ConcatHas ==
  ASSUME NEW s \in Seq(Resources), NEW t \in Seq(Resources)
  PROVE  /\ s \o t \in Seq(Resources) /\ Len(s \o t) = Len(s) + Len(t)
         /\ \A i \in 1..Len(s) : (s \o t)[i] = s[i]
         /\ \A i \in 1..Len(t) : (s \o t)[Len(s) + i] = t[i]
<1>1. ASSUME NEW i \in 1..Len(t) PROVE (s \o t)[Len(s) + i] = t[i]
  OBVIOUS
<1> QED
  BY <1>1

BusTake(take, device, a) ==
  /\ take \in Seq(Resources) /\ Len(take) = 3 + Len(a)
  /\ take[1] = "bus-test" /\ take[2] = device /\ take[3] = "driver"
  /\ \A i \in 1..Len(a) : take[3 + i] = a[i]

BusGive(give, device, a) ==
  /\ give \in Seq(Resources) /\ Len(give) = 3 + Len(a) /\ give[1] = "driver"
  /\ \A i \in 1..Len(a) : give[1 + i] = a[i]
  /\ give[2 + Len(a)] = device /\ give[3 + Len(a)] = "bus-test"

(* What the four bus demos take...                                         *)
LEMMA BusDemoTakes ==
  ASSUME NEW name, NEW device \in Resources, NEW a \in Seq(Resources)
  PROVE  BusTake(BusDemo(name, device, a).take, device, a)
<1> DEFINE first == <<"bus-test", device, "driver">>
<1>1. BusDemo(name, device, a).take = first \o a
  BY DEF BusDemo
<1>2. /\ first \in Seq(Resources) /\ Len(first) = 3
      /\ first[1] = "bus-test" /\ first[2] = device /\ first[3] = "driver"
  BY DEF Resources, Unique
<1> HIDE DEF first
<1>3. /\ first \o a \in Seq(Resources) /\ Len(first \o a) = Len(first) + Len(a)
      /\ \A i \in 1..Len(first) : (first \o a)[i] = first[i]
      /\ \A i \in 1..Len(a) : (first \o a)[Len(first) + i] = a[i]
  BY <1>2, ConcatHas
<1> QED
  BY <1>1, <1>2, <1>3 DEF BusTake

(* ...and what they give back.                                             *)
LEMMA BusDemoGives ==
  ASSUME NEW name, NEW device \in Resources, NEW a \in Seq(Resources)
  PROVE  BusGive(BusDemo(name, device, a).give, device, a)
<1> DEFINE start == <<"driver">>
           end == <<device, "bus-test">>
           middle == start \o a
<1>1. BusDemo(name, device, a).give = middle \o end
  BY DEF BusDemo
<1>2. start \in Seq(Resources) /\ Len(start) = 1 /\ start[1] = "driver"
  BY DEF Resources
<1>3. end \in Seq(Resources) /\ Len(end) = 2 /\ end[1] = device /\ end[2] = "bus-test"
  BY DEF Resources, Unique
<1> HIDE DEF start, end
<1>4. /\ middle \in Seq(Resources) /\ Len(middle) = Len(start) + Len(a)
      /\ \A i \in 1..Len(start) : middle[i] = start[i]
      /\ \A i \in 1..Len(a) : middle[Len(start) + i] = a[i]
  BY <1>2, ConcatHas
<1> HIDE DEF middle
<1>5. /\ middle \o end \in Seq(Resources) /\ Len(middle \o end) = Len(middle) + Len(end)
      /\ \A i \in 1..Len(middle) : (middle \o end)[i] = middle[i]
      /\ \A i \in 1..Len(end) : (middle \o end)[Len(middle) + i] = end[i]
  BY <1>3, <1>4, ConcatHas
<1> DEFINE give == middle \o end
<1>6. Len(give) = 3 + Len(a) /\ give[1] = "driver"
  BY <1>2, <1>3, <1>4, <1>5
<1>7. give[2 + Len(a)] = device /\ give[3 + Len(a)] = "bus-test"
  <2>1. 2 + Len(a) = Len(middle) + 1 /\ 3 + Len(a) = Len(middle) + 2
    BY <1>2, <1>4
  <2> QED
    BY <1>3, <1>5, <2>1
<1>8. ASSUME NEW i \in 1..Len(a) PROVE give[1 + i] = a[i]
  BY <1>2, <1>4, <1>5
<1> QED
  BY <1>1, <1>5, <1>6, <1>7, <1>8 DEF BusGive

(* The four bus demos.                                                     *)
LEMMA BusDemosWell ==
  WellMade(DriverTest) /\ WellMade(HotplugEnv) /\ WellMade(UdevHotplug) /\ WellMade(UdevAttr)
<1>1. WellMade(DriverTest)
  <2> DEFINE a == <<>>
             name == "driver-test"
             device == "device"
             d == BusDemo(name, device, a)
  <2>1. a \in Seq(Resources) /\ device \in Resources /\ Len(a) = 0
    BY DEF Resources, Unique
  <2> HIDE DEF a, name, device
  <2>2. d.take = <<"bus-test", "device", "driver">>
    <3>1. BusTake(d.take, device, a)
      BY <2>1, BusDemoTakes
    <3> HIDE DEF d
    <3> QED
      BY <2>1, <3>1 DEF device, BusTake, BusGive
  <2>3. d.give = <<"driver", "device", "bus-test">>
    <3>1. BusGive(d.give, device, a)
      BY <2>1, BusDemoGives
    <3> HIDE DEF d
    <3> QED
      BY <2>1, <3>1 DEF device, BusTake, BusGive
  <2>4. Plain(d.take, d.give) /\ d.undo = NoUndo
    <3>1. d.undo = NoUndo
      BY DEF BusDemo
    <3> HIDE DEF d
    <3> QED
      BY <2>2, <2>3, <3>1 DEF Plain, ToSet, Resources, Unique, Classes, DevFiles
  <2> HIDE DEF d
  <2> QED
    BY <2>4, PlainWell DEF DriverTest, d, a, name, device
<1>2. WellMade(HotplugEnv)
  <2> DEFINE a == <<>>
             name == "hotplug_env"
             device == "100:1"
             d == BusDemo(name, device, a)
  <2>1. a \in Seq(Resources) /\ device \in Resources /\ Len(a) = 0
    BY DEF Resources, Unique
  <2> HIDE DEF a, name, device
  <2>2. d.take = <<"bus-test", "100:1", "driver">>
    <3>1. BusTake(d.take, device, a)
      BY <2>1, BusDemoTakes
    <3> HIDE DEF d
    <3> QED
      BY <2>1, <3>1 DEF device, BusTake, BusGive
  <2>3. d.give = <<"driver", "100:1", "bus-test">>
    <3>1. BusGive(d.give, device, a)
      BY <2>1, BusDemoGives
    <3> HIDE DEF d
    <3> QED
      BY <2>1, <3>1 DEF device, BusTake, BusGive
  <2>4. Plain(d.take, d.give) /\ d.undo = NoUndo
    <3>1. d.undo = NoUndo
      BY DEF BusDemo
    <3> HIDE DEF d
    <3> QED
      BY <2>2, <2>3, <3>1 DEF Plain, ToSet, Resources, Unique, Classes, DevFiles
  <2> HIDE DEF d
  <2> QED
    BY <2>4, PlainWell DEF HotplugEnv, d, a, name, device
<1>3. WellMade(UdevHotplug)
  <2> DEFINE a == <<"attribute">>
             name == "udev_hotplug"
             device == "103:1"
             d == BusDemo(name, device, a)
  <2>1. a \in Seq(Resources) /\ device \in Resources /\ Len(a) = 1 /\ a[1] = "attribute"
    BY DEF Resources, Unique
  <2> HIDE DEF a, name, device
  <2>2. d.take = <<"bus-test", "103:1", "driver", "attribute">>
    <3>1. BusTake(d.take, device, a)
      BY <2>1, BusDemoTakes
    <3> HIDE DEF d
    <3> QED
      BY <2>1, <3>1 DEF device, BusTake, BusGive
  <2>3. d.give = <<"driver", "attribute", "103:1", "bus-test">>
    <3>1. BusGive(d.give, device, a)
      BY <2>1, BusDemoGives
    <3> HIDE DEF d
    <3> QED
      BY <2>1, <3>1 DEF device, BusTake, BusGive
  <2>4. Plain(d.take, d.give) /\ d.undo = NoUndo
    <3>1. d.undo = NoUndo
      BY DEF BusDemo
    <3> HIDE DEF d
    <3> QED
      BY <2>2, <2>3, <3>1 DEF Plain, ToSet, Resources, Unique, Classes, DevFiles
  <2> HIDE DEF d
  <2> QED
    BY <2>4, PlainWell DEF UdevHotplug, d, a, name, device
<1>4. WellMade(UdevAttr)
  <2> DEFINE a == <<"attribute", "attribute_2">>
             name == "udev_attr"
             device == "103:1"
             d == BusDemo(name, device, a)
  <2>1. a \in Seq(Resources) /\ device \in Resources /\ Len(a) = 2 /\ a[1] = "attribute" /\ a[2] = "attribute_2"
    BY DEF Resources, Unique
  <2> HIDE DEF a, name, device
  <2>2. d.take = <<"bus-test", "103:1", "driver", "attribute", "attribute_2">>
    <3>1. BusTake(d.take, device, a)
      BY <2>1, BusDemoTakes
    <3> HIDE DEF d
    <3> QED
      BY <2>1, <3>1 DEF device, BusTake, BusGive
  <2>3. d.give = <<"driver", "attribute", "attribute_2", "103:1", "bus-test">>
    <3>1. BusGive(d.give, device, a)
      BY <2>1, BusDemoGives
    <3> HIDE DEF d
    <3> QED
      BY <2>1, <3>1 DEF device, BusTake, BusGive
  <2>4. Plain(d.take, d.give) /\ d.undo = NoUndo
    <3>1. d.undo = NoUndo
      BY DEF BusDemo
    <3> HIDE DEF d
    <3> QED
      BY <2>2, <2>3, <3>1 DEF Plain, ToSet, Resources, Unique, Classes, DevFiles
  <2> HIDE DEF d
  <2> QED
    BY <2>4, PlainWell DEF UdevAttr, d, a, name, device
<1> QED
  BY <1>1, <1>2, <1>3, <1>4

(* The other modules of part2 and part3.                                   *)
LEMMA SmallModulesWell ==
  /\ WellMade(BusTest) /\ WellMade(DeviceTest) /\ WellMade(ClassTest) /\ WellMade(BusClassTest)
  /\ WellMade(SysfsDemo) /\ WellMade(UmhTest) /\ WellMade(UmhTestLed)
<1>1. WellMade(BusTest)
  <2>1. /\ BusTest.take = <<"bus-test">>
        /\ BusTest.give = <<"bus-test">>
        /\ BusTest.undo = NoUndo
    BY DEF BusTest
  <2> DEFINE d == BusTest
  <2>2. Plain(d.take, d.give)
    BY <2>1 DEF Plain, ToSet, Resources, Unique, Classes, DevFiles
  <2> QED
    BY <2>1, <2>2, PlainWell
<1>2. WellMade(DeviceTest)
  <2>1. /\ DeviceTest.take = <<"dev_test">>
        /\ DeviceTest.give = <<"dev_test">>
        /\ DeviceTest.undo = NoUndo
    BY DEF DeviceTest
  <2> DEFINE d == DeviceTest
  <2>2. Plain(d.take, d.give)
    BY <2>1 DEF Plain, ToSet, Resources, Unique, Classes, DevFiles
  <2> QED
    BY <2>1, <2>2, PlainWell
<1>3. WellMade(ClassTest)
  <2>1. /\ ClassTest.take = <<"class_test", "device">>
        /\ ClassTest.give = <<"device", "class_test">>
        /\ ClassTest.undo = NoUndo
    BY DEF ClassTest
  <2> DEFINE d == ClassTest
  <2>2. Plain(d.take, d.give)
    BY <2>1 DEF Plain, ToSet, Resources, Unique, Classes, DevFiles
  <2> QED
    BY <2>1, <2>2, PlainWell
<1>4. WellMade(BusClassTest)
  <2>1. /\ BusClassTest.take = <<"dummy_master", "dummy_bus", "driver", "driver_2", "device", "device_2", "103:1">>
        /\ BusClassTest.give = <<"103:1", "device_2", "device", "driver_2", "driver", "dummy_bus", "dummy_master">>
        /\ BusClassTest.undo = NoUndo
    BY DEF BusClassTest
  <2> DEFINE d == BusClassTest
  <2>2. Plain(d.take, d.give)
    BY <2>1 DEF Plain, ToSet, Resources, Unique, Classes, DevFiles
  <2> QED
    BY <2>1, <2>2, PlainWell
<1>5. WellMade(SysfsDemo)
  <2>1. /\ SysfsDemo.take = <<"sys_gr_ts", "attribute">>
        /\ SysfsDemo.give = <<"attribute", "sys_gr_ts">>
        /\ SysfsDemo.undo = NoUndo
    BY DEF SysfsDemo
  <2> DEFINE d == SysfsDemo
  <2>2. Plain(d.take, d.give)
    BY <2>1 DEF Plain, ToSet, Resources, Unique, Classes, DevFiles
  <2> QED
    BY <2>1, <2>2, PlainWell
<1>6. WellMade(UmhTest)
  <2>1. /\ UmhTest.take = <<"umh_test", "attribute">>
        /\ UmhTest.give = <<"attribute", "umh_test">>
        /\ UmhTest.undo = NoUndo
    BY DEF UmhTest
  <2> DEFINE d == UmhTest
  <2>2. Plain(d.take, d.give)
    BY <2>1 DEF Plain, ToSet, Resources, Unique, Classes, DevFiles
  <2> QED
    BY <2>1, <2>2, PlainWell
<1>7. WellMade(UmhTestLed)
  <2>1. /\ UmhTestLed.take = <<"umh_test", "attribute">>
        /\ UmhTestLed.give = <<>>
        /\ UmhTestLed.undo = NoUndo
    BY DEF UmhTestLed
  <2> DEFINE d == UmhTestLed
  <2>2. Plain(d.take, d.give)
    BY <2>1 DEF Plain, ToSet, Resources, Unique, Classes, DevFiles
  <2> QED
    BY <2>1, <2>2, PlainWell
<1> QED
  BY <1>1, <1>2, <1>3, <1>4, <1>5, <1>6, <1>7

(* All 23 modules keep to what WellMade says.                              *)
LEMMA AllWell == ASSUME NEW d \in AllDrivers PROVE WellMade(d)
<1>1. /\ WellMade(DriverTest) /\ WellMade(HotplugEnv)
      /\ WellMade(UdevHotplug) /\ WellMade(UdevAttr)
  BY BusDemosWell
<1>2. /\ WellMade(BlockIo) /\ WellMade(NonblockIo) /\ WellMade(PollIo) /\ WellMade(EpollIo)
      /\ WellMade(SelectIo) /\ WellMade(Async) /\ WellMade(Tasklet)
  BY KeyDeviceWell DEF BlockIo, NonblockIo, PollIo, EpollIo, SelectIo, Async, Tasklet
<1> QED
  BY <1>1, <1>2, IoctlWell, SysfsNotifyWell, ThreadIrqWell, DummyMmapWell, MdevHotplugWell,
     SmallModulesWell DEF AllDrivers

----------------------------------------------------------------------------
(* The lists of things to give back.                                       *)
LEMMA HeadAndTail ==
  ASSUME NEW q \in Seq(Resources), q # <<>>
  PROVE  /\ Len(q) \in Nat \ {0} /\ Head(q) = q[1] /\ Head(q) \in Resources
         /\ Tail(q) \in Seq(Resources) /\ Len(Tail(q)) = Len(q) - 1
         /\ \A i \in 1..Len(Tail(q)) : i + 1 \in 2..Len(q) /\ Tail(q)[i] = q[i + 1]
         /\ \A i \in 2..Len(q) : i - 1 \in 1..Len(Tail(q)) /\ q[i] = Tail(q)[i - 1]
<1>1. Len(q) \in Nat \ {0} /\ Head(q) = q[1] /\ q[1] \in Resources
  OBVIOUS
<1>2. Tail(q) \in Seq(Resources) /\ Len(Tail(q)) = Len(q) - 1
  BY <1>1
<1>3. \A i \in 1..(Len(q) - 1) : Tail(q)[i] = q[i + 1]
  BY <1>1
<1>4. \A i \in 2..Len(q) : i - 1 \in 1..(Len(q) - 1) /\ q[i] = Tail(q)[i - 1]
  BY <1>1, <1>3
<1> QED
  BY <1>1, <1>2, <1>3, <1>4

(* Giving back the first of a list leaves a list in order.                 *)
LEMMA GiveStep ==
  ASSUME NEW q, GivesInOrder(q), q # <<>>
  PROVE  /\ Head(q) \in Resources /\ GivesInOrder(Tail(q))
         /\ ToSet(q) = {Head(q)} \cup ToSet(Tail(q)) /\ Head(q) \notin ToSet(Tail(q))
         /\ Head(q) = "irq" => ToSet(q) \cap KeyNames = {}
         /\ Head(q) = "mmap_test" => ToSet(q) \cap MmapNames = {}
<1> DEFINE p == Tail(q)
<1>1. q \in Seq(Resources) /\ Len(q) <= 7
  BY DEF GivesInOrder
<1>2. /\ Len(q) \in Nat \ {0} /\ Head(q) = q[1] /\ Head(q) \in Resources
      /\ p \in Seq(Resources) /\ Len(p) = Len(q) - 1
      /\ \A i \in 1..Len(p) : i + 1 \in 2..Len(q) /\ p[i] = q[i + 1]
      /\ \A i \in 2..Len(q) : i - 1 \in 1..Len(p) /\ q[i] = p[i - 1]
  BY <1>1, HeadAndTail
<1> HIDE DEF p
<1>3. GivesInOrder(p)
  <2>1. \A i, j \in 1..Len(p) : p[i] = p[j] => i = j
    BY <1>2 DEF GivesInOrder
  <2>2. ASSUME NEW i \in 1..Len(p), NEW j \in 1..Len(p), i < j
        PROVE  /\ p[i] = "irq" => p[j] \notin KeyNames
               /\ p[i] = "mmap_test" => p[j] \notin MmapNames
    <3>1. i + 1 \in 1..Len(q) /\ j + 1 \in 1..Len(q) /\ i + 1 < j + 1
      BY <1>2, <2>2
    <3> QED
      BY <1>2, <3>1 DEF GivesInOrder
  <2> QED
    BY <1>1, <1>2, <2>1, <2>2 DEF GivesInOrder
<1>4. \A x : x \in ToSet(q) <=> x = Head(q) \/ x \in ToSet(p)
  <2>1. \A x : x \in ToSet(q) <=> \E i \in 1..Len(q) : x = q[i]
    BY <1>1 DEF ToSet
  <2>2. \A x : x \in ToSet(p) <=> \E i \in 1..Len(p) : x = p[i]
    BY <1>2 DEF ToSet
  <2>3. \A i \in 1..Len(q) : i = 1 \/ i \in 2..Len(q)
    BY <1>2
  <2>4. ASSUME NEW i \in 1..Len(q) PROVE q[i] = q[1] \/ \E j \in 1..Len(p) : q[i] = p[j]
    BY <1>2, <2>3
  <2>5. ASSUME NEW j \in 1..Len(p) PROVE \E i \in 1..Len(q) : p[j] = q[i]
    BY <1>2
  <2>6. 1 \in 1..Len(q)
    BY <1>2
  <2>7. ASSUME NEW x, x \in ToSet(q) PROVE x = Head(q) \/ x \in ToSet(p)
    <3>1. PICK i \in 1..Len(q) : x = q[i]
      BY <2>1, <2>7
    <3> QED
      BY <1>2, <2>2, <2>4, <3>1
  <2>8. ASSUME NEW x, x \in ToSet(p) PROVE x \in ToSet(q)
    <3>1. PICK j \in 1..Len(p) : x = p[j]
      BY <2>2, <2>8
    <3> QED
      BY <2>1, <2>5, <3>1
  <2>9. Head(q) \in ToSet(q)
    BY <1>2, <2>1, <2>6
  <2> QED
    BY <2>7, <2>8, <2>9
<1>5. Head(q) \notin ToSet(p)
  <2>1. \A i \in 1..Len(p) : p[i] # q[1]
    BY <1>2 DEF GivesInOrder
  <2> QED
    BY <1>2, <2>1 DEF ToSet
<1>6. ASSUME NEW x \in ToSet(p)
      PROVE  /\ Head(q) = "irq" => x \notin KeyNames
             /\ Head(q) = "mmap_test" => x \notin MmapNames
  <2>1. PICK i \in 1..Len(p) : x = p[i]
    BY <1>2 DEF ToSet
  <2>2. 1 \in 1..Len(q) /\ i + 1 \in 1..Len(q) /\ 1 < i + 1 /\ x = q[i + 1]
    BY <1>2, <2>1
  <2> QED
    BY <1>2, <2>2 DEF GivesInOrder
<1> QED
  BY <1>2, <1>3, <1>4, <1>5, <1>6 DEF p, KeyNames, MmapNames

(* Neither number nor memory goes before a device file, unless the cdev is *)
(* gone.                                                                   *)
LEMMA CdevStep ==
  ASSUME NEW q, GivesInOrder(q), CdevInOrder(q), q # <<>>
  PROVE  /\ Head(q) # "cdev" => CdevInOrder(Tail(q))
         /\ Head(q) \in {"number", "memory"} => ToSet(q) \cap DevFiles = {}
<1> DEFINE p == Tail(q)
<1>1. q \in Seq(Resources)
  BY DEF GivesInOrder
<1>2. /\ Len(q) \in Nat \ {0} /\ Head(q) = q[1]
      /\ p \in Seq(Resources) /\ Len(p) = Len(q) - 1
      /\ \A i \in 1..Len(p) : i + 1 \in 2..Len(q) /\ p[i] = q[i + 1]
      /\ \A i \in 2..Len(q) : i - 1 \in 1..Len(p) /\ q[i] = p[i - 1]
  BY <1>1, HeadAndTail
<1> HIDE DEF p
<1>3. ASSUME Head(q) # "cdev" PROVE CdevInOrder(p)
  <2> SUFFICES ASSUME NEW i \in 1..Len(p), NEW j \in 1..Len(p), i < j,
                      p[i] \in {"number", "memory"}, p[j] \in DevFiles
               PROVE  \E h \in 1..(i - 1) : p[h] = "cdev"
    BY DEF CdevInOrder, Before
  <2>1. i + 1 \in 1..Len(q) /\ j + 1 \in 1..Len(q) /\ i + 1 < j + 1
    BY <1>2
  <2>2. PICK h \in 1..i : q[h] = "cdev"
    <3>1. Before("cdev", q, i + 1)
      BY <1>2, <2>1 DEF CdevInOrder
    <3> QED
      BY <3>1 DEF Before
  <2>3. h \in 2..Len(q) /\ h - 1 \in 1..(i - 1)
    BY <1>2, <1>3, <2>1, <2>2
  <2> QED
    BY <1>2, <2>2, <2>3
<1>4. ASSUME Head(q) \in {"number", "memory"}, NEW x \in ToSet(q), x \in DevFiles PROVE FALSE
  <2>1. PICK j \in 1..Len(q) : x = q[j]
    BY <1>1 DEF ToSet
  <2>2. j # 1
    BY <1>2, <1>4, <2>1 DEF DevFiles
  <2>3. Before("cdev", q, 1)
    BY <1>2, <1>4, <2>1, <2>2 DEF CdevInOrder
  <2> QED
    BY <2>3 DEF Before
<1> QED
  BY <1>3, <1>4 DEF p

----------------------------------------------------------------------------
(* What the steps have in common.                                          *)
LEMMA OfSlot ==
  ASSUME IInv, NEW s \in Slots
  PROVE  /\ TakesWell(driver[s]) /\ ExitsWell(driver[s]) /\ UndoesWell(driver[s])
         /\ T(s) \in Seq(Resources) /\ Len(T(s)) \in 1..7 /\ step[s] \in 0..7
<1>1. driver[s] \in AllDrivers /\ step[s] \in 0..7
  BY ModuleLifeAssumption DEF IInv, TypeOK
<1> QED
  BY <1>1, AllWell DEF WellMade, TakesWell, T

(* The next step of init, and what the steps before it have brought.       *)
LEMMA InInit ==
  ASSUME IInv, NEW s \in Slots, phase[s] = "init"
  PROVE  /\ step[s] + 1 \in 1..Len(T(s)) /\ Wanted(s) = T(s)[step[s] + 1]
         /\ Wanted(s) \in Resources /\ Wanted(s) \in ToSet(T(s)) /\ Wanted(s) \notin Done(s)
         /\ todo[s] = <<>> /\ step[s] < Len(T(s))
         /\ \A x : Before(x, T(s), step[s] + 1) => x \in Done(s)
         /\ Done(s) \ Unseen \subseteq held[s] /\ held[s] \subseteq Done(s)
<1>1. /\ step[s] < Len(T(s)) /\ todo[s] = <<>>
      /\ Done(s) \ Unseen \subseteq held[s] /\ held[s] \subseteq Done(s)
  BY DEF IInv, Holding, TypeOK
<1>2. step[s] + 1 \in 1..Len(T(s)) /\ Wanted(s) = T(s)[step[s] + 1]
  BY <1>1, OfSlot DEF Wanted, T
<1>3. Wanted(s) \in Resources /\ Wanted(s) \in ToSet(T(s))
  BY <1>2, OfSlot DEF ToSet
<1>4. Wanted(s) \notin Done(s)
  <2>1. ASSUME NEW i \in 1..step[s] PROVE T(s)[i] # Wanted(s)
    <3>1. i \in 1..Len(T(s)) /\ i # step[s] + 1
      BY <1>1, OfSlot
    <3> QED
      BY <1>2, <3>1, OfSlot DEF TakesWell, T
  <2> QED
    BY <2>1 DEF Done
<1>5. \A x : Before(x, T(s), step[s] + 1) => x \in Done(s)
  <2>1. (step[s] + 1) - 1 = step[s]
    BY OfSlot
  <2> QED
    BY <2>1 DEF Before, Done
<1> QED
  BY <1>1, <1>2, <1>3, <1>4, <1>5

(* What a step of slot s does not touch of slot t.                         *)
LEMMA OtherSlot ==
  ASSUME IInv, NEW t \in Slots,
         driver'[t] = driver[t], phase'[t] = phase[t], step'[t] = step[t], todo'[t] = todo[t],
         held'[t] = held[t], number'[t] = number[t], t \in unadded => t \in unadded',
         number[t] \in Numbers /\ cdev_map[number[t]] = t => cdev_map'[number[t]] = t
  PROVE  Holding(t)' /\ Pending(t)' /\ CdevFound(t)' /\ CdevMissed(t)'
<1>1. /\ Holding(t) /\ Pending(t) /\ CdevFound(t) /\ CdevMissed(t)
      /\ number[t] \in Numbers \cup {Nobody}
  BY DEF IInv, TypeOK
<1>2. Holding(t)'
  BY <1>1 DEF Holding, T, Done
<1>3. Pending(t)'
  BY <1>1 DEF Pending
<1>4. CdevFound(t)'
  BY <1>1 DEF CdevFound
<1>5. CdevMissed(t)'
  BY <1>1 DEF CdevMissed, T, Done
<1> QED
  BY <1>2, <1>3, <1>4, <1>5

(* A step of init, for the module that takes it.                           *)
LEMMA TakeStep ==
  ASSUME IInv, NEW s \in Slots, phase[s] = "init", GoOn(s),
         driver'[s] = driver[s], todo'[s] = todo[s],
         \/ held'[s] = held[s] \cup {Wanted(s)}
         \/ held'[s] = held[s] /\ Wanted(s) \in Unseen,
         IF Wanted(s) = "number" THEN number'[s] # Nobody ELSE number'[s] = number[s],
         Wanted(s) \in DevFiles => Classes \cap held[s] # {}
  PROVE  Holding(s)' /\ Pending(s)'
<1> DEFINE k == step[s] + 1
           r == Wanted(s)
           D == Done(s) \cup {r}
<1>1. /\ k \in 1..Len(T(s)) /\ r = T(s)[k] /\ r \in ToSet(T(s)) /\ r \notin Done(s)
      /\ todo[s] = <<>> /\ \A x : Before(x, T(s), k) => x \in Done(s)
      /\ Done(s) \ Unseen \subseteq held[s] /\ held[s] \subseteq Done(s)
  BY InInit
<1>2. /\ Holding(s) /\ TakesWell(driver[s]) /\ T(s) \in Seq(Resources) /\ Len(T(s)) \in 1..7
      /\ step[s] \in 0..7 /\ phase \in [Slots -> {"out", "init", "unwind", "loaded", "exit"}]
      /\ step \in [Slots -> 0..7]
  BY OfSlot DEF IInv, TypeOK
<1>3. D \ Unseen \subseteq held'[s] /\ held'[s] \subseteq D /\ D \subseteq ToSet(T(s))
  <2>1. Done(s) \subseteq ToSet(T(s))
    BY <1>1, <1>2 DEF Done, ToSet
  <2> QED
    BY <1>1, <2>1
<1>4. D \cap DevFiles # {} => D \cap Classes \subseteq held'[s]
  <2>1. CASE r \in DevFiles
    <3>1. PICK j \in 1..(k - 1) : \A h \in 1..Len(T(s)) : T(s)[h] \in Classes <=> h = j
      BY <1>1, <1>2, <2>1 DEF TakesWell, T
    <3>2. \A x \in D \cap Classes : x = T(s)[j]
      <4>1. \A x \in ToSet(T(s)) : \E h \in 1..Len(T(s)) : x = T(s)[h]
        BY <1>2 DEF ToSet
      <4> QED
        BY <1>3, <3>1, <4>1
    <3>3. Classes \cap held[s] # {}
      BY <2>1
    <3> QED
      BY <1>1, <3>2, <3>3
  <2>2. CASE r \notin DevFiles /\ Done(s) \cap DevFiles # {}
    <3>1. PICK i \in 1..step[s] : T(s)[i] \in DevFiles
      BY <2>2 DEF Done
    <3>2. i \in 1..Len(T(s))
      BY <1>1, <1>2
    <3>3. PICK j \in 1..(i - 1) : \A h \in 1..Len(T(s)) : T(s)[h] \in Classes <=> h = j
      BY <1>2, <3>1, <3>2 DEF TakesWell, T
    <3>4. r \notin Classes
      BY <1>1, <1>2, <3>1, <3>2, <3>3
    <3>5. Done(s) \cap Classes \subseteq held[s]
      BY <1>2, <2>2 DEF Holding
    <3> QED
      BY <3>4, <3>5
  <2> QED
    BY <2>1, <2>2
<1>5. /\ held'[s] \cap KeyNames # {} => "irq" \in held'[s]
      /\ held'[s] \cap MmapNames # {} => "mmap_test" \in held'[s]
      /\ "number" \in held'[s] <=> number'[s] # Nobody
  <2>1. held[s] \subseteq held'[s] /\ held'[s] \subseteq held[s] \cup {r}
    OBVIOUS
  <2>2. r \in KeyNames => "irq" \in held[s]
    BY <1>1, <1>2 DEF TakesWell, T, Unseen, Classes
  <2>3. r \in MmapNames => "mmap_test" \in held[s]
    BY <1>1, <1>2 DEF TakesWell, T, Unseen, Classes
  <2>4. "number" \in held'[s] <=> number'[s] # Nobody
    BY <1>2 DEF Holding, Unseen, Classes
  <2> HIDE DEF r
  <2> QED
    BY <1>2, <2>1, <2>2, <2>3, <2>4 DEF Holding
<1>6. Pending(s)'
  <2>1. todo'[s] = <<>> /\ ToSet(<<>>) = {}
    BY <1>1 DEF ToSet
  <2> QED
    BY <2>1 DEF Pending, GivesInOrder, CdevInOrder
<1> HIDE DEF D
<1>7. CASE k = Len(T(s))
  <2>1. phase'[s] = "loaded" /\ step'[s] = 0
    BY <1>2, <1>7 DEF GoOn, T
  <2>2. D = ToSet(T(s))
    <3>1. \A i \in 1..Len(T(s)) : i \in 1..step[s] \/ i = k
      BY <1>2, <1>7
    <3>2. \A i \in 1..Len(T(s)) : T(s)[i] \in D
      BY <1>1, <3>1 DEF Done, D
    <3>3. ToSet(T(s)) \subseteq D
      BY <1>2, <3>2 DEF ToSet
    <3> QED
      BY <1>3, <3>3
  <2>3. D \ {"cdev"} \subseteq held'[s]
    <3> SUFFICES ASSUME NEW x \in D \cap Classes PROVE x \in held'[s]
      BY <1>3 DEF Unseen
    <3>1. PICK i \in 1..Len(T(s)) : x = T(s)[i]
      BY <1>2, <2>2 DEF ToSet
    <3>2. PICK j \in (i + 1)..Len(T(s)) : T(s)[j] \in DevFiles
      BY <1>2, <3>1 DEF TakesWell, T
    <3>3. T(s)[j] \in D
      BY <1>2, <2>2, <3>2 DEF ToSet
    <3> QED
      BY <1>4, <3>2, <3>3
  <2> QED
    BY <1>3, <1>5, <1>6, <2>1, <2>2, <2>3 DEF Holding, T
<1>8. CASE k # Len(T(s))
  <2>1. phase'[s] = "init" /\ step'[s] = k
    BY <1>2, <1>8 DEF GoOn, T
  <2>2. Done(s)' = D
    <3>1. \A i \in 1..k : i \in 1..step[s] \/ i = k
      BY <1>2
    <3>2. k \in 1..k /\ \A i \in 1..step[s] : i \in 1..k
      BY <1>2
    <3> QED
      BY <1>1, <2>1, <3>1, <3>2 DEF Done, D, T
  <2>3. k < Len(T(s))
    BY <1>1, <1>2, <1>8
  <2> QED
    BY <1>3, <1>4, <1>5, <1>6, <2>1, <2>2, <2>3 DEF Holding, T
<1> QED
  BY <1>7, <1>8

----------------------------------------------------------------------------
(* Every step keeps the invariant: its parts, for the steps of init.       *)
LEMMA TakeKeepsTypes ==
  ASSUME IInv, NEW s \in Slots,
         TakeUnique(s) \/ TakeOwn(s) \/ TakeNumber(s) \/ AddCdev(s) \/ FailUnseen(s)
  PROVE  TypeOK'
<1>1. phase[s] = "init" /\ GoOn(s)
  BY DEF TakeUnique, TakeOwn, TakeNumber, AddCdev, FailUnseen
<1>2. TypeOK /\ Wanted(s) \in Resources /\ step[s] < Len(T(s)) /\ Len(T(s)) \in 1..7
  BY <1>1, InInit, OfSlot DEF IInv
<1>3. /\ phase' \in [Slots -> {"out", "init", "unwind", "loaded", "exit"}]
      /\ step' \in [Slots -> 0..7]
      /\ \A t \in Slots : phase'[t] \in {"out", "init", "loaded"} => todo[t] = <<>>
  <2>1. step[s] \in 0..7 /\ step[s] + 1 \in 0..7
    <3> DEFINE n == Len(T(s))
    <3>1. step[s] \in 0..7 /\ step[s] < n /\ n \in 1..7
      BY <1>2, OfSlot
    <3> HIDE DEF n
    <3> QED
      BY <3>1
  <2>2. CASE step[s] + 1 = Len(driver[s].take)
    <3>1. phase' = [phase EXCEPT ![s] = "loaded"] /\ step' = [step EXCEPT ![s] = 0]
      BY <1>1, <2>2 DEF GoOn
    <3> QED
      BY <1>1, <1>2, <3>1 DEF TypeOK
  <2>3. CASE step[s] + 1 # Len(driver[s].take)
    <3>1. phase' = phase /\ step' = [step EXCEPT ![s] = @ + 1]
      BY <1>1, <2>3 DEF GoOn
    <3> QED
      BY <1>2, <2>1, <3>1 DEF TypeOK
  <2> QED
    BY <2>2, <2>3
<1>4. held' \in [Slots -> SUBSET Resources] /\ driver' = driver /\ todo' = todo
  BY <1>2 DEF TypeOK, Hold, TakeUnique, TakeOwn, TakeNumber, AddCdev, FailUnseen
<1>5. /\ number' \in [Slots -> Numbers \cup {Nobody}]
      /\ cdev_map' \in [Numbers -> Slots \cup {Nobody}]
      /\ stale' \in SUBSET Numbers /\ open' = open /\ left' = left
  <2>1. CASE AddCdev(s)
    <3>1. number[s] \in Numbers
      <4>1. Wanted(s) = "cdev" /\ Before("number", T(s), step[s] + 1)
        BY <1>1, <2>1, InInit, OfSlot DEF AddCdev, TakesWell, T
      <4>2. "number" \in held[s]
        BY <1>1, <4>1, InInit DEF Unseen, Classes
      <4> QED
        BY <1>2, <4>2 DEF IInv, Holding, TypeOK
    <3> QED
      BY <1>2, <2>1, <3>1 DEF TypeOK, AddCdev
  <2>2. CASE TakeNumber(s)
    BY <1>2, <2>2 DEF TypeOK, TakeNumber
  <2>3. CASE TakeUnique(s) \/ TakeOwn(s) \/ FailUnseen(s)
    BY <1>2, <2>3 DEF TypeOK, TakeUnique, TakeOwn, FailUnseen
  <2> QED
    BY <2>1, <2>2, <2>3
<1>6. unadded' \in SUBSET Slots
  BY <1>2 DEF TypeOK, TakeUnique, TakeOwn, TakeNumber, AddCdev, FailUnseen
<1> QED
  BY <1>2, <1>3, <1>4, <1>5, <1>6 DEF TypeOK

(* A step of init takes nothing from others and leaves nothing behind.     *)
LEMMA TakeKeepsOwners ==
  ASSUME IInv, NEW s \in Slots,
         TakeUnique(s) \/ TakeOwn(s) \/ TakeNumber(s) \/ AddCdev(s) \/ FailUnseen(s)
  PROVE  OwnerInv' /\ LeftInv'
<1>1. TypeOK /\ OwnerInv /\ LeftInv
  BY DEF IInv
<1>2. left' = left /\ driver' = driver
  BY DEF TakeUnique, TakeOwn, TakeNumber, AddCdev, FailUnseen
<1>3. CASE TakeUnique(s)
  <2>1. /\ held' = [held EXCEPT ![s] = @ \cup {Wanted(s)}] /\ number' = number
        /\ Wanted(s) \notin left /\ \A t \in Slots : Wanted(s) \notin held[t]
    BY <1>3 DEF TakeUnique, Hold, Taken
  <2> HIDE DEF Wanted
  <2> QED
    BY <1>1, <1>2, <2>1 DEF OwnerInv, LeftInv, TypeOK
<1>4. CASE ~TakeUnique(s)
  <2>1. \A t \in Slots : held'[t] \cap Unique = held[t] \cap Unique
    <3>1. \/ held' = held
          \/ Wanted(s) \notin Unique /\ held' = [held EXCEPT ![s] = @ \cup {Wanted(s)}]
      BY <1>4 DEF Hold, TakeOwn, TakeNumber, AddCdev, FailUnseen, Unique, Classes, DevFiles
    <3> QED
      BY <1>1, <3>1 DEF TypeOK
  <2>2. \A t, u \in Slots : number'[t] = number'[u] /\ number'[t] # Nobody => t = u
    <3>1. CASE number' = number
      BY <1>1, <3>1 DEF OwnerInv
    <3>2. CASE TakeNumber(s)
      BY <1>1, <3>2 DEF OwnerInv, TypeOK, TakeNumber
    <3> QED
      BY <1>4, <3>1, <3>2 DEF TakeOwn, TakeNumber, AddCdev, FailUnseen
  <2> QED
    BY <1>1, <1>2, <2>1, <2>2 DEF OwnerInv, LeftInv
<1> QED
  BY <1>3, <1>4

(* After a step of init, a cdev is only missing if it was not wanted yet.  *)
LEMMA TakeKeepsMissed ==
  ASSUME IInv, NEW s \in Slots,
         TakeUnique(s) \/ TakeOwn(s) \/ TakeNumber(s) \/ AddCdev(s) \/ FailUnseen(s)
  PROVE  CdevMissed(s)'
<1> DEFINE r == Wanted(s)
<1>1. /\ phase[s] = "init" /\ GoOn(s) /\ driver' = driver /\ todo' = todo
      /\ held' = [held EXCEPT ![s] = @ \cup {r}] \/ (held' = held /\ FailUnseen(s))
      /\ FailUnseen(s) => (unadded' = IF r = "cdev" THEN unadded \cup {s} ELSE unadded)
      /\ ~FailUnseen(s) => unadded' = unadded
  BY DEF TakeUnique, TakeOwn, TakeNumber, AddCdev, FailUnseen, Hold
<1>2. TypeOK /\ CdevMissed(s) /\ todo[s] = <<>> /\ T(s)' = T(s)
  BY <1>1 DEF IInv, TypeOK, T
<1>3. ToSet(todo'[s]) = {}
  BY <1>1, <1>2 DEF ToSet
<1> SUFFICES ASSUME "cdev" \notin held'[s], s \notin unadded'
             PROVE  /\ phase'[s] = "init" => "cdev" \notin Done(s)'
                    /\ held'[s] \cap DevFiles = {}
  BY <1>3 DEF CdevMissed
<1>4. "cdev" \notin held[s] /\ s \notin unadded /\ r # "cdev"
  <2> HIDE DEF r
  <2> QED
    BY <1>1, <1>2 DEF TypeOK
<1>5. "cdev" \notin Done(s) /\ held[s] \cap DevFiles = {}
  BY <1>1, <1>2, <1>4 DEF CdevMissed
<1>6. r \notin DevFiles
  BY <1>1, <1>5, InInit, OfSlot DEF TakesWell, T
<1>7. phase'[s] = "init" => Done(s)' \subseteq Done(s) \cup {r}
  <2> SUFFICES ASSUME phase'[s] = "init" PROVE Done(s)' \subseteq Done(s) \cup {r}
    OBVIOUS
  <2>1. step'[s] = step[s] + 1 /\ step[s] \in 0..7
    BY <1>1, <1>2 DEF GoOn, TypeOK
  <2>2. r = T(s)[step[s] + 1]
    BY <1>1, InInit
  <2>3. \A i \in 1..(step[s] + 1) : i \in 1..step[s] \/ i = step[s] + 1
    BY <2>1
  <2> QED
    BY <1>2, <2>1, <2>2, <2>3 DEF Done
<1> HIDE DEF r
<1> QED
  BY <1>1, <1>2, <1>4, <1>5, <1>6, <1>7 DEF TypeOK

(* A step of init keeps what is known of each module.                      *)
LEMMA TakeKeepsSlots ==
  ASSUME IInv, NEW s \in Slots, NEW t \in Slots,
         TakeUnique(s) \/ TakeOwn(s) \/ TakeNumber(s) \/ AddCdev(s) \/ FailUnseen(s)
  PROVE  Holding(t)' /\ Pending(t)' /\ CdevFound(t)' /\ CdevMissed(t)'
<1>1. /\ phase[s] = "init" /\ GoOn(s) /\ driver' = driver /\ todo' = todo
      /\ held' = [held EXCEPT ![s] = @ \cup {Wanted(s)}]
         \/ (held' = held /\ Wanted(s) \in Unseen)
      /\ IF TakeNumber(s)
         THEN Wanted(s) = "number" /\ \E n \in Numbers : number' = [number EXCEPT ![s] = n]
         ELSE number' = number
      /\ IF AddCdev(s)
         THEN Wanted(s) = "cdev" /\ cdev_map' = [cdev_map EXCEPT ![number[s]] = s]
         ELSE cdev_map' = cdev_map
  BY DEF TakeUnique, TakeOwn, TakeNumber, AddCdev, FailUnseen, Hold, Unseen
<1>2. TypeOK /\ OwnerInv
  BY DEF IInv
<1>3. CASE t = s
  <2>1. IF Wanted(s) = "number" THEN number'[s] # Nobody ELSE number'[s] = number[s]
    <3>1. Wanted(s) = "number" => TakeNumber(s)
      BY DEF TakeUnique, TakeOwn, TakeNumber, AddCdev, FailUnseen, Unique, Classes, DevFiles
    <3> HIDE DEF Wanted
    <3> QED
      BY <1>1, <1>2, <3>1, ModuleLifeAssumption DEF TypeOK
  <2>2. Wanted(s) \in DevFiles => Classes \cap held[s] # {}
    BY DEF TakeUnique, TakeOwn, TakeNumber, AddCdev, FailUnseen, Unique, Classes, DevFiles
  <2>3. \/ held'[s] = held[s] \cup {Wanted(s)}
        \/ held'[s] = held[s] /\ Wanted(s) \in Unseen
    BY <1>1, <1>2 DEF TypeOK
  <2>4. Holding(s)' /\ Pending(s)'
    BY <1>1, <2>1, <2>2, <2>3, TakeStep
  <2>5. CdevFound(s)'
    <3> SUFFICES ASSUME "cdev" \in held'[s] PROVE number'[s] # Nobody /\ cdev_map'[number'[s]] = s
      BY DEF CdevFound
    <3>1. CASE AddCdev(s)
      <4>1. number' = number
        BY <3>1 DEF AddCdev
      <4>2. "number" \in held'[s]
        <5>1. Before("number", T(s), step[s] + 1)
          BY <1>1, <3>1, InInit, OfSlot DEF TakesWell, T
        <5> QED
          BY <1>1, <2>3, <5>1, InInit DEF Unseen, Classes
      <4>3. number[s] \in Numbers
        BY <1>2, <2>4, <4>1, <4>2 DEF Holding, TypeOK
      <4> QED
        BY <1>1, <1>2, <3>1, <4>1, <4>3, ModuleLifeAssumption DEF TypeOK
    <3>2. CASE ~AddCdev(s)
      <4>1. "cdev" \in held[s]
        <5>1. Wanted(s) = "cdev" => FailUnseen(s)
          BY <3>2 DEF TakeUnique, TakeOwn, TakeNumber, FailUnseen, Unique, Classes, DevFiles
        <5>2. FailUnseen(s) => held' = held
          BY DEF FailUnseen
        <5> QED
          BY <2>3, <5>1, <5>2
      <4>2. number[s] # Nobody /\ cdev_map[number[s]] = s
        BY <1>1, <4>1 DEF IInv, CdevFound
      <4>3. ~TakeNumber(s)
        <5>1. "number" \in held[s]
          BY <4>2 DEF IInv, Holding
        <5> QED
          BY <1>1, <5>1, InInit
      <4> QED
        BY <1>1, <3>2, <4>2, <4>3
    <3> QED
      BY <3>1, <3>2
  <2> QED
    BY <1>3, <2>4, <2>5, TakeKeepsMissed
<1>4. CASE t # s
  <2>1. /\ phase'[t] = phase[t] /\ step'[t] = step[t] /\ held'[t] = held[t]
        /\ number'[t] = number[t]
    BY <1>1, <1>2, <1>4 DEF TypeOK, GoOn
  <2>2. number[t] \in Numbers /\ cdev_map[number[t]] = t => cdev_map'[number[t]] = t
    BY <1>1, <1>2, <1>4, ModuleLifeAssumption DEF OwnerInv, TypeOK
  <2>3. t \in unadded => t \in unadded'
    BY DEF TakeUnique, TakeOwn, TakeNumber, AddCdev, FailUnseen
  <2> QED
    BY <1>1, <2>1, <2>2, <2>3, OtherSlot
<1> QED
  BY <1>3, <1>4

(* The same for the other steps of insmod and rmmod.                       *)
LEMMA InsmodKeeps == ASSUME IInv, NEW s \in Slots, Insmod(s) PROVE IInv'
<1>1. TypeOK /\ OwnerInv /\ LeftInv /\ Holding(s) /\ Pending(s)
  BY DEF IInv
<1>2. /\ phase[s] = "out" /\ phase' = [phase EXCEPT ![s] = "init"]
      /\ UNCHANGED <<driver, step, todo, held, number, cdev_map, stale, open, left, unadded>>
  BY DEF Insmod
<1>3. TypeOK' /\ OwnerInv' /\ LeftInv'
  BY <1>1, <1>2 DEF TypeOK, OwnerInv, LeftInv
<1>4. Holding(s)' /\ Pending(s)' /\ CdevFound(s)' /\ CdevMissed(s)'
  <2>1. held[s] = {} /\ step[s] = 0 /\ phase'[s] = "init" /\ Len(T(s)) \in 1..7
    BY <1>1, <1>2, OfSlot DEF Holding, TypeOK
  <2>2. Done(s)' = {}
    BY <1>2, <2>1 DEF Done
  <2>3. T(s)' = T(s)
    BY <1>2 DEF T
  <2>4. Holding(s)'
    <3>1. held'[s] = {} /\ step'[s] = 0
      BY <1>2, <2>1
    <3>2. number'[s] = Nobody
      BY <1>1, <1>2, <2>1 DEF Holding
    <3>3. 0 < Len(T(s)) /\ T(s)' = T(s)
      <4> DEFINE n == Len(T(s))
      <4>1. n \in 1..7
        BY <2>1
      <4> HIDE DEF n
      <4>2. 0 < n
        BY <4>1
      <4> QED
        BY <2>3, <4>2 DEF n
    <3> QED
      BY <2>1, <2>2, <3>1, <3>2, <3>3 DEF Holding
  <2>5. todo'[s] = <<>> /\ ToSet(<<>>) = {}
    BY <1>1, <1>2 DEF TypeOK, ToSet
  <2>6. CdevMissed(s)'
    BY <1>2, <2>1, <2>2, <2>5 DEF CdevMissed
  <2> QED
    BY <1>1, <1>2, <2>1, <2>4, <2>6 DEF Pending, CdevFound
<1>5. ASSUME NEW t \in Slots, t # s
      PROVE  Holding(t)' /\ Pending(t)' /\ CdevFound(t)' /\ CdevMissed(t)'
  <2>1. phase'[t] = phase[t]
    BY <1>1, <1>2, <1>5 DEF TypeOK
  <2> QED
    BY <1>2, <2>1, OtherSlot
<1> QED
  BY <1>3, <1>4, <1>5 DEF IInv

(* A step that fails jumps to its label.                                   *)
LEMMA FailKeeps == ASSUME IInv, NEW s \in Slots, Fail(s) PROVE IInv'
<1> DEFINE k == step[s] + 1
           q == Undo(s)
<1>1. TypeOK /\ OwnerInv /\ LeftInv /\ Holding(s) /\ CdevFound(s) /\ CdevMissed(s)
  BY DEF IInv
<1>2. /\ phase[s] = "init" /\ phase' = [phase EXCEPT ![s] = "unwind"]
      /\ todo' = [todo EXCEPT ![s] = q] /\ step' = [step EXCEPT ![s] = 0]
      /\ UNCHANGED <<driver, held, number, cdev_map, stale, open, left, unadded>>
  BY DEF Fail
<1>3. UndoesStepWell(driver[s], k, q)
  <2>1. q = UndoOf(driver[s], Wanted(s))
    BY DEF Undo, UndoOf
  <2>2. k \in 1..Len(driver[s].take) /\ Wanted(s) = driver[s].take[k] /\ Wanted(s) \notin Unseen
    BY <1>2, InInit DEF Fail, T, Unseen
  <2> QED
    BY <2>1, <2>2, OfSlot DEF UndoesWell
<1>4. q \in Seq(Resources) /\ Len(q) <= 7 /\ GivesInOrder(q)
  BY <1>3 DEF UndoesStepWell, GivesInOrder
<1>5. /\ held[s] \subseteq Done(s)
      /\ \A x \in Done(s) : \E j \in 1..(k - 1) : x = driver[s].take[j]
      /\ \A x : Before(x, driver[s].take, k) => x \in Done(s)
      /\ Done(s) \ Unseen \subseteq held[s]
  <2>1. k - 1 = step[s]
    BY OfSlot
  <2> QED
    BY <1>2, <2>1, InInit DEF Done, T
<1> HIDE DEF q, k
<1>6. TypeOK' /\ OwnerInv' /\ LeftInv'
  BY <1>1, <1>2, <1>4 DEF TypeOK, OwnerInv, LeftInv
<1>7. phase'[s] = "unwind" /\ step'[s] = 0 /\ todo'[s] = q /\ T(s)' = T(s)
  BY <1>1, <1>2 DEF TypeOK, T
<1>8. Holding(s)'
  <2>1. q # <<>> => held[s] \cap DevFiles = {}
    BY <1>3, <1>5 DEF UndoesStepWell
  <2>2. held[s] \cap (KeyNames \cup TestNames) \subseteq ToSet(q)
    BY <1>3, <1>5 DEF UndoesStepWell
  <2>3. "irq" \notin ToSet(q) /\ "mmap_test" \notin ToSet(q)
    BY <1>3 DEF UndoesStepWell
  <2> QED
    BY <1>1, <1>2, <1>7, <2>1, <2>2, <2>3 DEF Holding
<1>9. Pending(s)'
  <2>1. CdevInOrder(q)
    <3>1. \A i \in 1..Len(q) : q[i] \in ToSet(q)
      BY <1>4 DEF ToSet
    <3> QED
      BY <1>3, <3>1 DEF UndoesStepWell, CdevInOrder
  <2>2. "pin" \in ToSet(q) => "pin" \in held[s]
    BY <1>3, <1>5 DEF UndoesStepWell, Unseen, Classes
  <2> QED
    BY <1>2, <1>4, <1>7, <2>1, <2>2 DEF Pending
<1>10. CdevFound(s)' /\ CdevMissed(s)'
  <2>1. "cdev" \notin ToSet(q)
    BY <1>3 DEF UndoesStepWell
  <2> QED
    BY <1>1, <1>2, <1>7, <2>1 DEF CdevFound, CdevMissed
<1>11. ASSUME NEW t \in Slots, t # s
      PROVE  Holding(t)' /\ Pending(t)' /\ CdevFound(t)' /\ CdevMissed(t)'
  <2>1. phase'[t] = phase[t] /\ step'[t] = step[t] /\ todo'[t] = todo[t]
    BY <1>1, <1>2, <1>11 DEF TypeOK
  <2> QED
    BY <1>2, <2>1, OtherSlot
<1> QED
  BY <1>6, <1>8, <1>9, <1>10, <1>11 DEF IInv

(* Exit begins with everything still held.                                 *)
LEMMA RmmodKeeps == ASSUME IInv, NEW s \in Slots, Rmmod(s) PROVE IInv'
<1> DEFINE q == driver[s].give
<1>1. TypeOK /\ OwnerInv /\ LeftInv /\ Holding(s) /\ CdevFound(s) /\ CdevMissed(s)
  BY DEF IInv
<1>2. /\ phase[s] = "loaded" /\ phase' = [phase EXCEPT ![s] = "exit"]
      /\ todo' = [todo EXCEPT ![s] = q]
      /\ UNCHANGED <<driver, step, held, number, cdev_map, stale, open, left, unadded>>
  BY DEF Rmmod
<1>3. /\ GivesInOrder(q) /\ CdevInOrder(q) /\ ToSet(q) \subseteq ToSet(T(s))
      /\ ToSet(T(s)) \cap (Classes \cup DevFiles) \subseteq ToSet(q)
      /\ q \in Seq(Resources) /\ Len(q) <= 7
      /\ "cdev" \in ToSet(q) => driver[s] \in FileLast
  BY OfSlot DEF ExitsWell, T, GivesInOrder
<1> HIDE DEF q
<1>4. TypeOK' /\ OwnerInv' /\ LeftInv'
  BY <1>1, <1>2, <1>3 DEF TypeOK, OwnerInv, LeftInv
<1>5. phase'[s] = "exit" /\ todo'[s] = q /\ T(s)' = T(s)
  BY <1>1, <1>2 DEF TypeOK, T
<1>6. Holding(s)' /\ Pending(s)' /\ CdevFound(s)' /\ CdevMissed(s)'
  <2>1. Holding(s)' /\ Pending(s)' /\ CdevFound(s)'
    BY <1>1, <1>2, <1>3, <1>5 DEF Holding, Pending, CdevFound
  <2>2. CdevMissed(s)'
    BY <1>1, <1>2, <1>3, <1>5 DEF CdevMissed
  <2> QED
    BY <2>1, <2>2
<1>7. ASSUME NEW t \in Slots, t # s
      PROVE  Holding(t)' /\ Pending(t)' /\ CdevFound(t)' /\ CdevMissed(t)'
  <2>1. phase'[t] = phase[t] /\ todo'[t] = todo[t]
    BY <1>1, <1>2, <1>7 DEF TypeOK
  <2> QED
    BY <1>2, <2>1, OtherSlot
<1> QED
  BY <1>4, <1>6, <1>7 DEF IInv

(* Giving something back takes nothing from others, the pin included.      *)
LEMMA ReleaseKeeps == ASSUME IInv, NEW s \in Slots, Release(s) PROVE IInv'
<1> DEFINE q == todo[s]
           r == Head(q)
           p == Tail(q)
<1>1. /\ TypeOK /\ OwnerInv /\ LeftInv
      /\ Holding(s) /\ Pending(s) /\ CdevFound(s) /\ CdevMissed(s)
  BY DEF IInv
<1>2. /\ phase[s] \in {"unwind", "exit"} /\ q # <<>>
      /\ number' = IF r = "number" THEN [number EXCEPT ![s] = Nobody] ELSE number
      /\ cdev_map' = IF r \in {"memory", "cdev"} THEN WithoutCdev(s) ELSE cdev_map
      /\ stale' = IF r = "memory" THEN stale \cup CdevAt(s) ELSE stale
      /\ todo' = [todo EXCEPT ![s] = p]
      /\ UNCHANGED <<driver, phase, step, open, unadded>>
  BY DEF Release
<1>3. /\ r \in Resources /\ GivesInOrder(q) /\ GivesInOrder(p)
      /\ ToSet(q) = {r} \cup ToSet(p) /\ r \notin ToSet(p)
      /\ r = "irq" => ToSet(q) \cap KeyNames = {}
      /\ r = "mmap_test" => ToSet(q) \cap MmapNames = {}
  BY <1>1, <1>2, GiveStep DEF Pending
<1>4. p \in Seq(Resources) /\ Len(p) <= 7
  BY <1>3 DEF GivesInOrder
<1>5. held' = [held EXCEPT ![s] = @ \ {r}] /\ left' = left
  <2>1. /\ held' = [t \in Slots |-> IF t = s \/ r = "pin" THEN held[t] \ {r} ELSE held[t]]
        /\ left' = IF r = "pin" THEN left \ {r} ELSE left
    BY DEF Release
  <2>2. r = "pin" => r \in held[s] /\ r \in Unique
    BY <1>1, <1>3 DEF Pending, Unique
  <2>3. r = "pin" => r \notin left /\ \A t \in Slots : t # s => r \notin held[t]
    BY <1>1, <2>2 DEF OwnerInv
  <2> HIDE DEF r
  <2>4. held \in [Slots -> SUBSET Resources]
    BY <1>1 DEF TypeOK
  <2>5. CASE r = "pin"
    <3>1. left' = left
      BY <2>1, <2>3, <2>5
    <3>2. held' = [t \in Slots |-> held[t] \ {r}]
      BY <2>1, <2>5
    <3>3. \A t \in Slots : t # s => held[t] \ {r} = held[t]
      BY <2>3, <2>5
    <3> QED
      BY <2>4, <3>1, <3>2, <3>3
  <2>6. CASE r # "pin"
    BY <2>1, <2>4, <2>6
  <2> QED
    BY <2>5, <2>6
<1> HIDE DEF q, r, p
<1>6. TypeOK'
  <2>1. /\ cdev_map' \in [Numbers -> Slots \cup {Nobody}] /\ stale' \in SUBSET Numbers
        /\ number' \in [Slots -> Numbers \cup {Nobody}]
    BY <1>1, <1>2 DEF TypeOK, WithoutCdev, CdevAt
  <2>2. DOMAIN todo' = Slots /\ \A t \in Slots : todo'[t] = IF t = s THEN p ELSE todo[t]
    BY <1>1, <1>2 DEF TypeOK
  <2>3. held' \in [Slots -> SUBSET Resources]
    BY <1>1, <1>5 DEF TypeOK
  <2> QED
    BY <1>1, <1>2, <1>4, <1>5, <2>1, <2>2, <2>3 DEF TypeOK
<1>7. OwnerInv' /\ LeftInv'
  <2>1. \A t \in Slots : held'[t] \subseteq held[t]
    BY <1>1, <1>5 DEF TypeOK
  <2>2. \A t \in Slots : number'[t] \in {number[t], Nobody}
    BY <1>1, <1>2 DEF TypeOK
  <2> QED
    BY <1>1, <1>2, <1>5, <2>1, <2>2 DEF OwnerInv, LeftInv
<1>8. /\ todo'[s] = p /\ held'[s] = held[s] \ {r} /\ T(s)' = T(s)
      /\ number'[s] = IF r = "number" THEN Nobody ELSE number[s]
  BY <1>1, <1>2, <1>5 DEF TypeOK, T
<1>9. Holding(s)'
  <2>1. held'[s] \cap KeyNames # {} => "irq" \in held'[s]
    <3> SUFFICES ASSUME r = "irq" PROVE held[s] \cap KeyNames = {}
      BY <1>1, <1>8 DEF Holding
    <3>1. phase[s] = "exit"
      BY <1>1, <1>2, <1>3 DEF Holding, q
    <3> QED
      BY <1>1, <1>3, <3>1 DEF Holding, q, KeyNames, Classes, DevFiles
  <2>2. held'[s] \cap MmapNames # {} => "mmap_test" \in held'[s]
    <3> SUFFICES ASSUME r = "mmap_test" PROVE held[s] \cap MmapNames = {}
      BY <1>1, <1>8 DEF Holding
    <3>1. phase[s] = "exit"
      BY <1>1, <1>2, <1>3 DEF Holding, q
    <3> QED
      BY <1>1, <1>3, <3>1 DEF Holding, q, MmapNames, Classes, DevFiles
  <2>3. "number" \in held'[s] <=> number'[s] # Nobody
    BY <1>1, <1>8 DEF Holding
  <2>4. phase[s] = "exit" =>
          /\ ToSet(p) \ {"cdev"} \subseteq held'[s]
          /\ held'[s] \cap (Classes \cup DevFiles) \subseteq ToSet(p)
    BY <1>1, <1>3, <1>8 DEF Holding, q
  <2>5. phase[s] = "unwind" =>
          /\ p # <<>> => held'[s] \cap DevFiles = {}
          /\ held'[s] \cap (KeyNames \cup TestNames) \subseteq ToSet(p)
          /\ "irq" \notin ToSet(p) /\ "mmap_test" \notin ToSet(p)
    BY <1>1, <1>2, <1>3, <1>8 DEF Holding, q
  <2> QED
    BY <1>1, <1>2, <1>8, <2>1, <2>2, <2>3, <2>4, <2>5 DEF Holding
<1>10. ASSUME "cdev" \in held'[s]
       PROVE  /\ CdevInOrder(p)
              /\ r \in {"number", "memory"} => held[s] \cap DevFiles = {}
  <2>1. "cdev" \in held[s] /\ r # "cdev" /\ CdevInOrder(q)
    BY <1>1, <1>8, <1>10 DEF Pending, q
  <2>2. CdevInOrder(p) /\ (r \in {"number", "memory"} => ToSet(q) \cap DevFiles = {})
    BY <1>2, <1>3, <2>1, CdevStep DEF p, r
  <2>3. held[s] \cap DevFiles # {} => held[s] \cap DevFiles \subseteq ToSet(q)
    BY <1>1, <1>2 DEF Holding, q
  <2> QED
    BY <2>2, <2>3
<1>11. Pending(s)'
  BY <1>1, <1>3, <1>8, <1>10 DEF Pending, q
<1>12. CdevFound(s)'
  <2> SUFFICES ASSUME "cdev" \in held'[s], held'[s] \cap DevFiles # {}
               PROVE  number'[s] # Nobody /\ cdev_map'[number'[s]] = s
    BY <1>2 DEF CdevFound
  <2>1. r \notin {"number", "memory", "cdev"}
    BY <1>8, <1>10
  <2>2. number[s] # Nobody /\ cdev_map[number[s]] = s
    BY <1>1, <1>8 DEF CdevFound
  <2> QED
    BY <1>2, <2>1, <2>2
<1>13. ASSUME NEW t \in Slots, t # s
      PROVE  Holding(t)' /\ Pending(t)' /\ CdevFound(t)' /\ CdevMissed(t)'
  <2>1. held'[t] = held[t] /\ number'[t] = number[t] /\ todo'[t] = todo[t]
    BY <1>1, <1>2, <1>5, <1>13 DEF TypeOK
  <2>2. number[t] \in Numbers /\ cdev_map[number[t]] = t => cdev_map'[number[t]] = t
    BY <1>2, <1>13 DEF WithoutCdev, CdevAt
  <2> QED
    BY <1>2, <2>1, <2>2, OtherSlot
<1>14. CdevMissed(s)'
  <2>1. r = "cdev" => phase[s] = "exit" /\ driver[s] \in FileLast /\ "cdev" \notin ToSet(p)
    BY <1>1, <1>3 DEF CdevMissed, q
  <2> QED
    BY <1>1, <1>2, <1>3, <1>8, <2>1 DEF CdevMissed, q
<1> QED
  BY <1>6, <1>7, <1>9, <1>11, <1>12, <1>13, <1>14 DEF IInv

(* What is still held stays behind, the names that others could want not   *)
(* among it.                                                               *)
LEMMA UnloadKeeps == ASSUME IInv, NEW s \in Slots, Unload(s) PROVE IInv'
<1>1. TypeOK /\ OwnerInv /\ LeftInv /\ Holding(s) /\ Pending(s)
  BY DEF IInv
<1>2. /\ phase[s] \in {"unwind", "exit"} /\ todo[s] = <<>>
      /\ phase' = [phase EXCEPT ![s] = "out"]
      /\ left' = left \cup (held[s] \cap Unique) \cup ({number[s]} \ {Nobody})
      /\ held' = [held EXCEPT ![s] = {}] /\ number' = [number EXCEPT ![s] = Nobody]
      /\ cdev_map' = WithoutCdev(s) /\ stale' = stale \cup CdevAt(s)
      /\ unadded' = unadded \ {s}
      /\ UNCHANGED <<driver, step, todo, open>>
  BY DEF Unload
<1>3. TypeOK'
  <2>1. cdev_map' \in [Numbers -> Slots \cup {Nobody}] /\ stale' \in SUBSET Numbers
    BY <1>1, <1>2 DEF TypeOK, WithoutCdev, CdevAt
  <2>2. left' \in SUBSET (Unique \cup Numbers)
    BY <1>1, <1>2 DEF TypeOK
  <2> QED
    BY <1>1, <1>2, <2>1, <2>2 DEF TypeOK
<1>4. left' \cap Unique = (left \cup held[s]) \cap Unique
  BY <1>1, <1>2, ModuleLifeAssumption DEF TypeOK, Resources
<1>5. OwnerInv'
  <2>1. \A t \in Slots : held'[t] = IF t = s THEN {} ELSE held[t]
    BY <1>1, <1>2 DEF TypeOK
  <2>2. \A t \in Slots : number'[t] = IF t = s THEN Nobody ELSE number[t]
    BY <1>1, <1>2 DEF TypeOK
  <2>3. ASSUME NEW t \in Slots PROVE held'[t] \cap Unique \cap left' = {}
    BY <1>1, <1>4, <2>1 DEF OwnerInv
  <2> QED
    BY <1>1, <1>2, <2>1, <2>2, <2>3 DEF OwnerInv
<1>6. LeftInv'
  <2>1. KeyNames \cup TestNames \cup MmapNames \cup {"mmap_test"} \subseteq Unique
    BY DEF KeyNames, TestNames, MmapNames, Unique, Classes, DevFiles
  <2>2. held[s] \cap (KeyNames \cup TestNames) = {}
    <3>1. ToSet(<<>>) = {}
      BY DEF ToSet
    <3> QED
      BY <1>1, <1>2, <3>1 DEF Holding, KeyNames, TestNames, Classes, DevFiles
  <2>3. held[s] \cap MmapNames # {} => "mmap_test" \in held[s]
    BY <1>1 DEF Holding
  <2>4. \A x \in Unique : x \in left' <=> x \in left \/ x \in held[s]
    BY <1>4
  <2>5. left' \cap (KeyNames \cup TestNames) = {}
    BY <1>1, <2>1, <2>2, <2>4 DEF LeftInv
  <2>6. left' \cap MmapNames # {} => "mmap_test" \in left'
    BY <1>1, <2>1, <2>3, <2>4 DEF LeftInv
  <2> QED
    BY <2>5, <2>6 DEF LeftInv
<1>7. Holding(s)' /\ Pending(s)' /\ CdevFound(s)' /\ CdevMissed(s)'
  <2>1. held'[s] = {} /\ number'[s] = Nobody /\ phase'[s] = "out" /\ step'[s] = 0
    BY <1>1, <1>2 DEF TypeOK, Holding
  <2>2. Holding(s)'
    BY <2>1 DEF Holding
  <2>3. todo'[s] = <<>> /\ ToSet(<<>>) = {}
    BY <1>2 DEF ToSet
  <2> QED
    BY <1>1, <1>2, <2>1, <2>2, <2>3 DEF Pending, CdevFound, CdevMissed
<1>8. ASSUME NEW t \in Slots, t # s
      PROVE  Holding(t)' /\ Pending(t)' /\ CdevFound(t)' /\ CdevMissed(t)'
  <2>1. /\ phase'[t] = phase[t] /\ held'[t] = held[t] /\ number'[t] = number[t]
    BY <1>1, <1>2, <1>8 DEF TypeOK
  <2>2. number[t] \in Numbers /\ cdev_map[number[t]] = t => cdev_map'[number[t]] = t
    BY <1>2, <1>8 DEF WithoutCdev, CdevAt
  <2>3. t \in unadded => t \in unadded'
    BY <1>2, <1>8
  <2> QED
    BY <1>2, <2>1, <2>2, <2>3, OtherSlot
<1> QED
  BY <1>3, <1>5, <1>6, <1>7, <1>8 DEF IInv

(* Opening and closing the device file changes nothing else.               *)
LEMMA UseKeeps ==
  ASSUME IInv, open' \in SUBSET Slots,
         UNCHANGED <<driver, phase, step, todo, held, number, cdev_map, stale, left, unadded>>
  PROVE  IInv'
<1>1. TypeOK /\ OwnerInv /\ LeftInv
  BY DEF IInv
<1>2. TypeOK' /\ OwnerInv' /\ LeftInv'
  BY <1>1 DEF TypeOK, OwnerInv, LeftInv
<1>3. ASSUME NEW t \in Slots
      PROVE  Holding(t)' /\ Pending(t)' /\ CdevFound(t)' /\ CdevMissed(t)'
  BY OtherSlot
<1> QED
  BY <1>2, <1>3 DEF IInv

(* Every step keeps the invariant.                                         *)
LEMMA NextKeeps == IInv /\ [Next]_vars => IInv'
<1> SUFFICES ASSUME IInv, [Next]_vars PROVE IInv'
  OBVIOUS
<1>1. open \in SUBSET Slots
  BY DEF IInv, TypeOK
<1>2. CASE UNCHANGED vars
  BY <1>1, <1>2, UseKeeps DEF vars
<1>3. ASSUME NEW s \in Slots, Insmod(s) PROVE IInv'
  BY <1>3, InsmodKeeps
<1>4. ASSUME NEW s \in Slots,
             TakeUnique(s) \/ TakeOwn(s) \/ TakeNumber(s) \/ AddCdev(s) \/ FailUnseen(s)
      PROVE  IInv'
  <2>1. TypeOK' /\ OwnerInv' /\ LeftInv'
    BY <1>4, TakeKeepsTypes, TakeKeepsOwners
  <2>2. \A t \in Slots : Holding(t)' /\ Pending(t)' /\ CdevFound(t)' /\ CdevMissed(t)'
    BY <1>4, TakeKeepsSlots
  <2> QED
    BY <2>1, <2>2 DEF IInv
<1>5. ASSUME NEW s \in Slots, Fail(s) PROVE IInv'
  BY <1>5, FailKeeps
<1>6. ASSUME NEW s \in Slots, Rmmod(s) PROVE IInv'
  BY <1>6, RmmodKeeps
<1>7. ASSUME NEW s \in Slots, Release(s) PROVE IInv'
  BY <1>7, ReleaseKeeps
<1>8. ASSUME NEW s \in Slots, Unload(s) PROVE IInv'
  BY <1>8, UnloadKeeps
<1>9. ASSUME NEW s \in Slots, Open(s) \/ Close(s) PROVE IInv'
  <2>1. open' \in SUBSET Slots
    BY <1>1, <1>9 DEF Open, Close
  <2> QED
    BY <1>9, <2>1, UseKeeps DEF Open, Close
<1> QED
  BY <1>2, <1>3, <1>4, <1>5, <1>6, <1>7, <1>8, <1>9 DEF Next

(* The invariant holds while no module is loaded.                          *)
LEMMA InitHas == Init => IInv
<1> SUFFICES ASSUME Init PROVE IInv
  OBVIOUS
<1>1. TypeOK
  BY DEF Init, TypeOK
<1>2. OwnerInv
  <2>1. \A s, t \in Slots : driver[s] = driver[t] => s = t
    BY DEF Init, IsInjective
  <2> QED
    BY <2>1 DEF Init, OwnerInv
<1>3. LeftInv
  BY DEF Init, LeftInv
<1>4. ASSUME NEW s \in Slots PROVE Holding(s) /\ Pending(s) /\ CdevFound(s) /\ CdevMissed(s)
  <2>1. ToSet(<<>>) = {}
    BY DEF ToSet
  <2> QED
    BY <2>1 DEF Init, Holding, Pending, CdevFound, CdevMissed, GivesInOrder, CdevInOrder
<1> QED
  BY <1>1, <1>2, <1>3, <1>4 DEF IInv

----------------------------------------------------------------------------
(* What modules hold, have left behind and are about to give back fits     *)
(* together, in every state.                                               *)
THEOREM InvariantHolds == Spec => []IInv
<1>1. Init => IInv
  BY InitHas
<1>2. IInv /\ [Next]_vars => IInv'
  BY NextKeeps
<1> QED
  BY <1>1, <1>2, PTL DEF Spec

(* The variables keep to their types.                                      *)
THEOREM TypeCorrect == Spec => []TypeOK
<1>1. IInv => TypeOK
  BY DEF IInv
<1> QED
  BY <1>1, InvariantHolds, PTL

(* The name of a class or a device file is free when an init function asks *)
(* for it, unless it is mdev_hotplug's.                                    *)
THEOREM NamesAreNotTaken == Spec => []NamesAreFree
<1>1. ASSUME IInv, NEW s \in Slots, phase[s] = "init",
             Wanted(s) \in Classes \cup DevFiles, driver[s] # MdevHotplug
      PROVE  ~Taken(Wanted(s))
  <2> DEFINE r == Wanted(s)
             k == step[s] + 1
  <2>1. OwnerInv /\ LeftInv
    BY <1>1 DEF IInv
  <2>2. /\ k \in 1..Len(T(s)) /\ r = T(s)[k] /\ r \notin Done(s)
        /\ \A x : Before(x, T(s), k) => x \in Done(s)
        /\ Done(s) \ Unseen \subseteq held[s] /\ held[s] \subseteq Done(s)
    BY <1>1, InInit
  <2>3. /\ r \in KeyNames => "irq" \in held[s]
        /\ r \in MmapNames => "mmap_test" \in held[s]
    BY <1>1, <2>2, OfSlot DEF TakesWell, T, Unseen, Classes
  <2>4. r \in KeyNames \/ r \in MmapNames \/ (r \in TestNames /\ driver[s] = Ioctl)
    <3>1. r \notin {"hpsim_class", "/dev/hpsim"}
      BY <1>1, <2>2, OfSlot DEF TakesWell, T
    <3>2. r \in TestNames => driver[s] = Ioctl
      BY <1>1, <2>2, OfSlot DEF TakesWell, T
    <3> QED
      BY <1>1, <3>1, <3>2 DEF KeyNames, MmapNames, TestNames, Classes, DevFiles
  <2> HIDE DEF r, k
  <2>5. r \notin left
    BY <2>1, <2>3, <2>4 DEF OwnerInv, LeftInv, Unique
  <2>6. ASSUME NEW t \in Slots, r \in held[t] PROVE FALSE
    <3>1. Holding(t) /\ r \in ToSet(T(t))
      BY <1>1, <2>6 DEF IInv, Holding
    <3>2. t # s
      BY <2>2, <2>6
    <3>3. r \notin KeyNames /\ r \notin MmapNames
      BY <2>1, <2>3, <2>6, <3>1, <3>2 DEF OwnerInv, Holding, Unique
    <3>4. r \in TestNames => driver[t] = Ioctl
      BY <1>1, <3>1, OfSlot DEF TakesWell, T, ToSet
    <3> QED
      BY <2>1, <2>4, <3>2, <3>3, <3>4 DEF OwnerInv
  <2> QED
    BY <2>5, <2>6 DEF Taken, r
<1>2. IInv => NamesAreFree
  BY <1>1 DEF NamesAreFree
<1> QED
  BY <1>2, InvariantHolds, PTL

(* A loaded module has all its init asked for, whatever other modules have *)
(* given back in the meantime.                                             *)
THEOREM LoadedModulesAreWhole == Spec => []LoadedHasAll
<1>1. IInv => LoadedHasAll
  BY DEF IInv, Holding, LoadedHasAll, T
<1> QED
  BY <1>1, InvariantHolds, PTL

(* The number of a device file leads to the cdev of the same module, but   *)
(* after a cdev_add whose failure was not seen, and between cdev_del and   *)
(* device_destroy in the two exit functions that have them in that order.  *)
THEOREM DeviceFilesLeadHome == Spec => []DeviceFileLeadsHome
<1>1. IInv => DeviceFileLeadsHome
  BY DEF IInv, CdevFound, CdevMissed, DeviceFileLeadsHome
<1> QED
  BY <1>1, InvariantHolds, PTL
=============================================================================
