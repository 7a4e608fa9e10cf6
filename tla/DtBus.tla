-------------------------------- MODULE DtBus --------------------------------
(***************************************************************************)
(* The two device tree buses, part2/dummy-bus and part3/hotplug_led: a     *)
(* module that registers a class, a bus and, for every controller node of  *)
(* the device tree, a controller, a port below it and the node's child;    *)
(* then the two driver modules, one for controllers, one for children,     *)
(* that come and go and take GPIO lines.  The bus module has no exit       *)
(* function, so once loaded it stays.                                      *)
(*                                                                         *)
(* The driver core is modelled as the code relies on it: a name can be     *)
(* registered once on a bus; probe and remove of one device exclude each   *)
(* other; a driver module can load only when the bus module's init has     *)
(* returned 0, and unloads after remove of each of its devices.  The GPIO  *)
(* core gives a line to one holder at a time.  Unchecked allocations of    *)
(* the port are taken to succeed.                                          *)
(*                                                                         *)
(* A tree is a sequence of controller nodes: a name, and the child's name, *)
(* "none" without a child, "bare" for a child without the property.        *)
(* Devices are <<kind, index of the controller node>>.                     *)
(***************************************************************************)
EXTENDS Naturals, Sequences, FiniteSets

CONSTANTS Trees,    \* the device trees considered
          OtherMax  \* bound: how many lines somebody else holds at once

ASSUME DtBusAssumption ==
  /\ \A t \in Trees : t \in Seq([name : STRING, child : STRING]) /\ t # <<>>
  /\ OtherMax \in Nat

(* The lines each driver takes, in order, and whether the controller's     *)
(* driver requests an interrupt on its line.                               *)
DummyBus == [ctrl |-> <<"data1", "data2">>, child |-> <<"led">>, irq |-> FALSE]
HotplugLed == [ctrl |-> <<"check">>, child |-> <<"on_off">>, irq |-> TRUE]

VARIABLES
  demo, tree,   \* which of the two, and the device tree it finds
  step, node,   \* where the bus module's init is, and at which controller node
  registered,   \* "class", "bus" and the devices that are registered
  allocated,    \* the devices' memory
  named,        \* the nodes for whose port this load of the module allocated bus_dev_name
  driver,       \* each driver module: "out" | "in" | "leaving"
  pc,           \* each device: "unbound", a step of probe or remove, "bound"
  holder,       \* who holds each GPIO line: a device, "other" or "nobody"
  lost,         \* history: controllers whose probe failed holding their first line
  high, edge,   \* the controllers' first line; an edge its interrupt has latched
  irq, thread,  \* request_threaded_irq; check_irq_thread's step and what it read
  said          \* the last event it sent

vars == <<demo, tree, step, node, registered, allocated, named, driver, pc, holder, lost,
          high, edge, irq, thread, said>>
initVars == <<step, node, registered, allocated, named>>
irqVars == <<high, edge, irq, thread, said>>

Class == <<"class", 0>>
Bus == <<"bus", 0>>
Nobody == <<"nobody", 0>>
Other == <<"other", 0>>

Kinds == {"ctrl", "child"}
Nodes == DOMAIN tree
HasChild(n) == tree[n].child \notin {"none", "bare"}
Bound == {<<"ctrl", n>> : n \in Nodes} \cup {<<"child", n>> : n \in {m \in Nodes : HasChild(m)}}
LinesOf(d) == {<<d, i>> : i \in DOMAIN demo[d[1]]}
Lines == UNION {LinesOf(d) : d \in Bound}
NameOf(d) == tree[d[2]][IF d[1] = "ctrl" THEN "name" ELSE "child"]
OnBus == {d \in Bound : d \in registered}
Objects(n) == {"ctrl", "port", "child"} \X {n}

InitSteps == {"bus", "ctrl", "ctrl_reg", "ctrl_attr", "port", "port_reg",
              "child", "child_reg", "child_attr"}

TypeOK ==
  /\ demo \in {DummyBus, HotplugLed} /\ tree \in Trees
  /\ step \in {"out", "in", "failed", "nomem", "oops"} \cup InitSteps
  /\ node \in 1..(Len(tree) + 1)
  /\ registered \subseteq {Class, Bus} \cup UNION {Objects(n) : n \in Nodes}
  /\ allocated \subseteq UNION {Objects(n) : n \in Nodes}
  /\ named \subseteq Nodes
  /\ driver \in [Kinds -> {"out", "in", "leaving"}]
  /\ pc \in [Bound -> {"unbound", "get1", "get2", "request", "bound", "free", "put1", "put2"}]
  /\ holder \in [Lines -> Bound \cup {Other, Nobody}]
  /\ lost \subseteq Bound
  /\ high \in [Nodes -> BOOLEAN] /\ edge \in [Nodes -> BOOLEAN] /\ irq \in [Nodes -> BOOLEAN]
  /\ thread \in [Nodes -> {"idle", "find", "read", "REMOVE", "ADD"}]
  /\ said \in [Nodes -> {"nothing", "REMOVE", "ADD"}]

Init ==
  /\ demo \in {DummyBus, HotplugLed} /\ tree \in Trees
  /\ step = "out" /\ node = 1
  /\ registered = {} /\ allocated = {} /\ named = {}
  /\ driver = [k \in Kinds |-> "out"]
  /\ pc = [d \in Bound |-> "unbound"]
  /\ holder = [l \in Lines |-> Nobody]
  /\ lost = {}
  /\ high \in [Nodes -> BOOLEAN]
  /\ edge = [n \in Nodes |-> FALSE] /\ irq = [n \in Nodes |-> FALSE]
  /\ thread = [n \in Nodes |-> "idle"]
  /\ said = [n \in Nodes |-> "nothing"]

----------------------------------------------------------------------------
(* The bus module's init.  Nobody else can use the bus before it returns.  *)
OnlyInit == UNCHANGED <<demo, tree, driver, pc, holder, lost, irqVars>>

(* The error labels err6 to err0 and err, each running on into the next:   *)
(* what is unregistered at each, and what is freed.                        *)
Unregisters == << {"child"}, {}, {"port"}, {}, {"ctrl"}, {}, {"bus"}, {"class"} >>
Frees == << {}, {"child"}, {}, {"port"}, {}, {"ctrl"}, {}, {} >>
Err(e) == 7 - e   \* the position of label "err<e>"; "err" itself is the eighth

Undone(labels, p) ==
  {o \in registered \cup allocated :
     o[2] \in {0, node} /\ \E q \in p..8 : o[1] \in labels[q]}

(* Mutation: every goto goes to the label below the right one.             *)
GotoNextLabel(p) ==
  /\ step' = "failed"
  /\ registered' = registered \ Undone(Unregisters, p + 1)
  /\ allocated' = allocated \ Undone(Frees, p + 1)
  /\ UNCHANGED <<node, named>>

(* No label frees the name of the port.                                    *)
Goto(p) ==
  /\ step' = "failed"
  /\ registered' = registered \ Undone(Unregisters, p)
  /\ allocated' = allocated \ Undone(Frees, p)
  /\ UNCHANGED <<node, named>>

NextNode ==
  /\ node' = node + 1
  /\ step' = IF node = Len(tree) THEN "in" ELSE "ctrl"
  /\ UNCHANGED <<registered, allocated, named>>

GoOn(l) == step' = l /\ UNCHANGED <<node, registered, allocated, named>>

(* kzalloc of a device of the node...                                      *)
Alloc(k, l) ==
  /\ allocated' = allocated \cup {<<k, node>>}
  /\ step' = l
  /\ UNCHANGED <<node, registered>>

(* ...and device_register of it, which fails when its name is on the bus   *)
(* already, or for want of memory.                                         *)
Register(k, l) ==
  /\ \A e \in OnBus : k = "port" \/ NameOf(e) # NameOf(<<k, node>>)
  /\ registered' = registered \cup {<<k, node>>}
  /\ step' = l
  /\ UNCHANGED <<node, allocated, named>>

(* A module whose init failed can be loaded again, unless it has left      *)
(* devices behind in the memory it gave back.                              *)
RegisterClass ==
  /\ step = "out" \/ (step = "failed" /\ registered = {})
  /\ \/ registered' = {Class} /\ step' = "bus"
     \/ step' = "failed" /\ UNCHANGED registered
  /\ node' = 1
  /\ named' = {}
  /\ UNCHANGED allocated
  /\ OnlyInit

RegisterBus ==
  /\ step = "bus"
  /\ \/ /\ registered' = registered \cup {Bus}
        /\ step' = "ctrl"
        /\ UNCHANGED <<node, allocated, named>>
     \/ Goto(8)
  /\ OnlyInit

(* No property string, or no memory: err0.                                 *)
AllocCtrl ==
  /\ step = "ctrl"
  /\ \/ Alloc("ctrl", "ctrl_reg") /\ UNCHANGED named
     \/ Goto(Err(0))
  /\ OnlyInit

RegisterCtrl ==
  /\ step = "ctrl_reg"
  /\ Register("ctrl", "ctrl_attr") \/ Goto(Err(1))
  /\ OnlyInit

CtrlAttr ==
  /\ step = "ctrl_attr"
  /\ GoOn("port") \/ Goto(Err(2))
  /\ OnlyInit

(* The port and its name; neither allocation is checked.                   *)
AllocPort ==
  /\ step = "port"
  /\ Alloc("port", "port_reg")
  /\ named' = named \cup {node}
  /\ OnlyInit

(* When the port cannot be registered, the error message prints the name   *)
(* of child, which holds the child of the node before, or nothing yet.     *)
RegisterPort ==
  /\ step = "port_reg"
  /\ \/ Register("port", "child")
     \/ /\ \A m \in Nodes : m + 1 = node => tree[m].child # "none"
        /\ Goto(Err(3))
     \/ /\ \A m \in Nodes : m + 1 = node => tree[m].child = "none"
        /\ GoOn("oops")
  /\ OnlyInit

(* A node may have no child.  Without memory for one that has the property *)
(* init returns -ENOMEM, past all the labels.                              *)
AllocChild ==
  /\ step = "child"
  /\ \/ tree[node].child = "none" /\ NextNode
     \/ tree[node].child = "bare" /\ Goto(Err(4))
     \/ HasChild(node) /\ GoOn("nomem")
     \/ HasChild(node) /\ Alloc("child", "child_reg") /\ UNCHANGED named
  /\ OnlyInit

RegisterChild ==
  /\ step = "child_reg"
  /\ Register("child", "child_attr") \/ Goto(Err(5))
  /\ OnlyInit

ChildAttr ==
  /\ step = "child_attr"
  /\ NextNode \/ Goto(Err(6))
  /\ OnlyInit

----------------------------------------------------------------------------
(* The driver modules.                                                     *)
OnlyDrivers == UNCHANGED <<demo, tree, initVars>>

(* insmod of a driver module; its devices can be bound from now on, at     *)
(* once by driver_register, or later through sysfs.                        *)
LoadDriver(k) ==
  /\ step = "in" /\ driver[k] = "out"
  /\ driver' = [driver EXCEPT ![k] = "in"]
  /\ OnlyDrivers /\ UNCHANGED <<pc, holder, lost, irqVars>>

Step(d, l) == pc' = [pc EXCEPT ![d] = l]

StartProbe(d) ==
  /\ driver[d[1]] = "in" /\ pc[d] = "unbound"
  /\ Step(d, "get1")
  /\ OnlyDrivers /\ UNCHANGED <<driver, holder, lost, irqVars>>

AfterLines(d) == IF demo.irq /\ d[1] = "ctrl" THEN "request" ELSE "bound"

(* gpiod_get of the first line: a device that lost it holds it already.    *)
GetFirst(d) ==
  /\ pc[d] = "get1"
  /\ IF holder[<<d, 1>>] = Nobody
       THEN /\ holder' = [holder EXCEPT ![<<d, 1>>] = d]
            /\ Step(d, IF Len(demo[d[1]]) > 1 THEN "get2" ELSE AfterLines(d))
       ELSE Step(d, "unbound") /\ UNCHANGED holder
  /\ OnlyDrivers /\ UNCHANGED <<driver, lost, irqVars>>

(* Of the second: when it fails, probe returns and keeps the first.        *)
GetSecond(d) ==
  /\ pc[d] = "get2"
  /\ IF holder[<<d, 2>>] = Nobody
       THEN /\ holder' = [holder EXCEPT ![<<d, 2>>] = d]
            /\ Step(d, "bound")
            /\ UNCHANGED lost
       ELSE /\ Step(d, "unbound")
            /\ lost' = lost \cup {d}
            /\ UNCHANGED holder
  /\ OnlyDrivers /\ UNCHANGED <<driver, irqVars>>

(* Mutation: a failed request_threaded_irq keeps the line.                 *)
RequestIrqKeepsLine(d) ==
  /\ pc[d] = "request"
  /\ \/ Step(d, "bound") /\ irq' = [irq EXCEPT ![d[2]] = TRUE] /\ UNCHANGED holder
     \/ Step(d, "unbound") /\ UNCHANGED <<irq, holder>>
  /\ said' = [said EXCEPT ![d[2]] = "nothing"]
  /\ OnlyDrivers /\ UNCHANGED <<driver, lost, high, edge, thread>>

RequestIrq(d) ==
  /\ pc[d] = "request"
  /\ \/ Step(d, "bound") /\ irq' = [irq EXCEPT ![d[2]] = TRUE] /\ UNCHANGED holder
     \/ Step(d, "unbound") /\ holder' = [holder EXCEPT ![<<d, 1>>] = Nobody] /\ UNCHANGED irq
  /\ said' = [said EXCEPT ![d[2]] = "nothing"]
  /\ OnlyDrivers /\ UNCHANGED <<driver, lost, high, edge, thread>>

(* rmmod of a driver module: no device of it is being probed.              *)
UnloadDriver(k) ==
  /\ driver[k] = "in"
  /\ \A d \in Bound : d[1] = k => pc[d] \in {"unbound", "bound"}
  /\ driver' = [driver EXCEPT ![k] = "leaving"]
  /\ OnlyDrivers /\ UNCHANGED <<pc, holder, lost, irqVars>>

(* remove, for rmmod or for a device unbound through sysfs.                *)
StartRemove(d) ==
  /\ pc[d] = "bound"
  /\ Step(d, IF AfterLines(d) = "request" THEN "free" ELSE "put1")
  /\ OnlyDrivers /\ UNCHANGED <<driver, holder, lost, irqVars>>

(* free_irq waits for check_irq_thread.                                    *)
FreeIrq(d) ==
  /\ pc[d] = "free" /\ thread[d[2]] = "idle"
  /\ irq' = [irq EXCEPT ![d[2]] = FALSE]
  /\ edge' = [edge EXCEPT ![d[2]] = FALSE]
  /\ Step(d, "put1")
  /\ OnlyDrivers /\ UNCHANGED <<driver, holder, lost, high, thread, said>>

PutLine(d, i) ==
  /\ pc[d] = IF i = 1 THEN "put1" ELSE "put2"
  /\ holder' = [holder EXCEPT ![<<d, i>>] = Nobody]
  /\ Step(d, IF i < Len(demo[d[1]]) THEN "put2" ELSE "unbound")
  /\ OnlyDrivers /\ UNCHANGED <<driver, lost, irqVars>>

DriverGone(k) ==
  /\ driver[k] = "leaving"
  /\ \A d \in Bound : d[1] = k => pc[d] = "unbound"
  /\ driver' = [driver EXCEPT ![k] = "out"]
  /\ OnlyDrivers /\ UNCHANGED <<pc, holder, lost, irqVars>>

----------------------------------------------------------------------------
(* The world outside: other users of the lines, and the plug.              *)
OtherTakes(l) ==
  /\ holder[l] = Nobody
  /\ Cardinality({m \in Lines : holder[m] = Other}) < OtherMax
  /\ holder' = [holder EXCEPT ![l] = Other]
  /\ OnlyDrivers /\ UNCHANGED <<driver, pc, lost, irqVars>>

OtherGives(l) ==
  /\ holder[l] = Other
  /\ holder' = [holder EXCEPT ![l] = Nobody]
  /\ OnlyDrivers /\ UNCHANGED <<driver, pc, lost, irqVars>>

Plug(n) ==
  /\ demo.irq
  /\ high' = [high EXCEPT ![n] = ~@]
  /\ edge' = [edge EXCEPT ![n] = irq[n]]
  /\ OnlyDrivers /\ UNCHANGED <<driver, pc, holder, lost, irq, thread, said>>

(* check_irq_thread: it looks for the device called "hotplug-led"...       *)
ThreadStart(n) ==
  /\ irq[n] /\ edge[n] /\ thread[n] = "idle"
  /\ edge' = [edge EXCEPT ![n] = FALSE]
  /\ thread' = [thread EXCEPT ![n] = "find"]
  /\ OnlyDrivers /\ UNCHANGED <<driver, pc, holder, lost, high, irq, said>>

Plugged == {d \in OnBus : NameOf(d) = "hotplug-led"}

ThreadFind(n) ==
  /\ thread[n] = "find"
  /\ thread' = [thread EXCEPT ![n] = IF Plugged = {} THEN "idle" ELSE "read"]
  /\ OnlyDrivers /\ UNCHANGED <<driver, pc, holder, lost, high, edge, irq, said>>

(* ...reads the line, high when the device is out...                       *)
ThreadRead(n) ==
  /\ thread[n] = "read"
  /\ thread' = [thread EXCEPT ![n] = IF high[n] THEN "REMOVE" ELSE "ADD"]
  /\ OnlyDrivers /\ UNCHANGED <<driver, pc, holder, lost, high, edge, irq, said>>

(* Mutation: an edge that comes while the thread runs is dropped.          *)
ThreadSendDrops(n) ==
  /\ thread[n] \in {"REMOVE", "ADD"}
  /\ said' = [said EXCEPT ![n] = thread[n]]
  /\ thread' = [thread EXCEPT ![n] = "idle"]
  /\ edge' = [edge EXCEPT ![n] = FALSE]
  /\ OnlyDrivers /\ UNCHANGED <<driver, pc, holder, lost, high, irq>>

(* ...and sends the event.                                                 *)
ThreadSend(n) ==
  /\ thread[n] \in {"REMOVE", "ADD"}
  /\ said' = [said EXCEPT ![n] = thread[n]]
  /\ thread' = [thread EXCEPT ![n] = "idle"]
  /\ OnlyDrivers /\ UNCHANGED <<driver, pc, holder, lost, high, edge, irq>>

----------------------------------------------------------------------------
InitStep ==
  \/ RegisterClass \/ RegisterBus \/ AllocCtrl \/ RegisterCtrl \/ CtrlAttr
  \/ AllocPort \/ RegisterPort \/ AllocChild \/ RegisterChild \/ ChildAttr

DriverStep(d) ==
  \/ StartProbe(d) \/ GetFirst(d) \/ GetSecond(d) \/ RequestIrq(d)
  \/ StartRemove(d) \/ FreeIrq(d) \/ PutLine(d, 1) \/ PutLine(d, 2)

ThreadStep(n) == ThreadStart(n) \/ ThreadFind(n) \/ ThreadRead(n) \/ ThreadSend(n)

Next ==
  \/ InitStep
  \/ \E k \in Kinds : LoadDriver(k) \/ UnloadDriver(k) \/ DriverGone(k)
  \/ \E d \in Bound : DriverStep(d)
  \/ \E l \in Lines : OtherTakes(l) \/ OtherGives(l)
  \/ \E n \in Nodes : Plug(n) \/ ThreadStep(n)

Spec == Init /\ [][Next]_vars

----------------------------------------------------------------------------
(* What an init that does not return 0 leaves behind.  The labels undo     *)
(* everything of the node they are jumped to from, and its memory, the bus *)
(* and the class, but not bus_dev_name, and nothing of the nodes before,   *)
(* whose devices stay on a bus that is gone.  "return -ENOMEM" and the     *)
(* oops undo nothing.  No memory is freed under a registered device, and   *)
(* none is leaked but the ports' names.                                    *)
Before == {o \in UNION {Objects(n) : n \in 1..(node - 1)} :
             o[1] = "child" => tree[o[2]].child # "none"}

FailedInitLeaves ==
  /\ step = "failed" => /\ registered = Before /\ allocated = Before
                        /\ named \in {1..(node - 1), 1..node}
  /\ step = "nomem" => /\ registered = Before \cup {Class, Bus, <<"ctrl", node>>, <<"port", node>>}
                       /\ allocated = registered \ {Class, Bus} /\ named = 1..node
  /\ step = "oops" => /\ registered = Before \cup {Class, Bus, <<"ctrl", node>>}
                      /\ allocated = Before \cup {<<"ctrl", node>>, <<"port", node>>}
                      /\ named = 1..node
  /\ registered \ {Class, Bus} \subseteq allocated

(* Whoever holds a line uses it.  A bound device has all its lines; a line *)
(* held by a device that is not bound is the first line of one whose probe *)
(* failed at the second, and that one is never bound again.  The interrupt *)
(* thread runs only while its controller has the line it reads.            *)
LinesAreAccountedFor ==
  /\ \A d \in Bound :
       /\ pc[d] = "bound" => \A l \in LinesOf(d) : holder[l] = d
       /\ d \in lost => pc[d] \in {"unbound", "get1"}
       /\ (pc[d] = "unbound" /\ d \notin lost) => \A l \in LinesOf(d) : holder[l] # d
  /\ \A n \in Nodes : irq[n] \/ thread[n] # "idle" => holder[<<<<"ctrl", n>>, 1>>] = <<"ctrl", n>>
  /\ \A k \in Kinds, d \in Bound : (driver[k] = "out" /\ d[1] = k) => pc[d] = "unbound"

(* "Send the hotplug message from the bottom half": when no edge waits and *)
(* the thread is idle, the last event it sent is what the line says.       *)
LastEventTellsLine ==
  \A n \in Nodes : (irq[n] /\ ~edge[n] /\ thread[n] = "idle" /\ said[n] # "nothing") =>
    said[n] = (IF high[n] THEN "REMOVE" ELSE "ADD")
=============================================================================
