---------------------------- MODULE DtBus_proofs ----------------------------
(***************************************************************************)
(* What the device tree buses of part2 and part3 hold, for any device      *)
(* tree: the objects of the bus module's init, the GPIO lines of the       *)
(* drivers and the events of the interrupt threads.                        *)
(***************************************************************************)
EXTENDS DtBus, TLAPS

Devices == {"ctrl", "port", "child"}

(* What of the node it is at init has allocated, and what registered...    *)
OfNode ==
  CASE step \in {"ctrl_reg", "ctrl_attr", "port"} -> {"ctrl"}
    [] step \in {"port_reg", "oops", "child", "nomem"} -> {"ctrl", "port"}
    [] step \in {"child_reg", "child_attr"} -> Devices
    [] OTHER -> {}

OnBusOfNode ==
  CASE step \in {"ctrl_attr", "port", "port_reg", "oops"} -> {"ctrl"}
    [] step \in {"child", "nomem", "child_reg"} -> {"ctrl", "port"}
    [] step = "child_attr" -> Devices
    [] OTHER -> {}

(* ...and of what all nodes share.                                         *)
Shared ==
  CASE step \in {"out", "failed"} -> {}
    [] step = "bus" -> {Class}
    [] OTHER -> {Class, Bus}

(* A device of a node before this one, or of this one and among the made.  *)
Made(k, n, made) ==
  \/ n < node /\ (k = "child" => tree[n].child # "none")
  \/ n = node /\ k \in made

(* Init has made everything of the nodes before the one it is at, and the  *)
(* error labels undo what they should.                                     *)
InitInv ==
  /\ step \in {"out", "bus"} => node = 1
  /\ step # "in" => node <= Len(tree)
  /\ step \in {"child_reg", "child_attr"} => HasChild(node)
  /\ \A k \in Devices, n \in Nodes :
       /\ <<k, n>> \in allocated <=> Made(k, n, OfNode)
       /\ <<k, n>> \in registered <=> Made(k, n, OnBusOfNode)
  /\ registered \cap {Class, Bus} = Shared

(* The ports of the nodes before have names, that of this one since its    *)
(* port was allocated; a label undoes what it undoes, but not the name.    *)
NamedSteps == {"port_reg", "oops", "child", "nomem", "child_reg", "child_attr"}

NameInv ==
  /\ step \in NamedSteps => named = 1..node
  /\ step \notin NamedSteps \cup {"failed"} => named = 1..(node - 1)
  /\ step = "failed" => named \in {1..(node - 1), 1..node}

(* A device holds the line it has taken and not put back...                *)
Holds(d, i) ==
  IF i = 1 THEN pc[d] \in {"get2", "request", "bound", "free", "put1"} \/ d \in lost
           ELSE pc[d] \in {"bound", "put1", "put2"}

DeviceLines(d) ==
  /\ \A i \in DOMAIN demo[d[1]] :
       holder[<<d, i>>] \in {d, Other, Nobody} /\ (holder[<<d, i>>] = d <=> Holds(d, i))
  /\ d \in lost => pc[d] \in {"unbound", "get1"}
  /\ pc[d] \in {"request", "free"} => demo.irq /\ d[1] = "ctrl"
  /\ pc[d] \in {"get2", "put2"} => Len(demo[d[1]]) = 2

LineInv == \A d \in Bound : DeviceLines(d)

(* ...only a loaded driver has devices, and only after init...             *)
LoadInv ==
  /\ \A d \in Bound : driver[d[1]] = "out" => pc[d] = "unbound"
  /\ step # "in" => /\ \A k \in Kinds : driver[k] = "out"
                    /\ \A n \in Nodes : said[n] = "nothing"

(* ...and the interrupt is installed while the device is bound.            *)
NodeIrq(n) ==
  /\ irq[n] => demo.irq /\ pc[<<"ctrl", n>>] \in {"bound", "free"}
  /\ thread[n] # "idle" => irq[n]
  /\ thread[n] \in {"read", "REMOVE", "ADD"} \/ said[n] # "nothing" => Plugged # {}

IrqInv == \A n \in Nodes : NodeIrq(n)

Event(n) == IF high[n] THEN "REMOVE" ELSE "ADD"

(* Unless an edge waits, what the thread has read is what the line says.   *)
NodeEvent(n) ==
  irq[n] /\ ~edge[n] =>
    /\ thread[n] \in {"REMOVE", "ADD"} => thread[n] = Event(n)
    /\ thread[n] = "idle" /\ said[n] # "nothing" => said[n] = Event(n)

EventInv == \A n \in Nodes : NodeEvent(n)

IInv == TypeOK /\ InitInv /\ NameInv /\ LineInv /\ LoadInv /\ IrqInv /\ EventInv
----------------------------------------------------------------------------
(* The device tree is a sequence of nodes; each driver takes one line or   *)
(* two, and one that uses an interrupt takes one.                          *)
LEMMA DataTyped ==
  ASSUME TypeOK
  PROVE  /\ tree \in Seq([name : STRING, child : STRING])
         /\ Len(tree) \in Nat \ {0} /\ Nodes = 1..Len(tree)
         /\ demo.irq \in BOOLEAN
         /\ \A k \in Kinds : /\ Len(demo[k]) \in {1, 2}
                             /\ DOMAIN demo[k] = 1..Len(demo[k])
         /\ demo.irq => Len(demo["ctrl"]) = 1
<1>1. tree \in Seq([name : STRING, child : STRING]) /\ tree # <<>>
  BY DtBusAssumption DEF TypeOK
<1>2. demo = DummyBus \/ demo = HotplugLed
  BY DEF TypeOK
<1>3. \A k \in Kinds : k = "ctrl" \/ k = "child"
  BY DEF Kinds
<1>4. demo.irq \in BOOLEAN /\ (demo.irq => Len(demo["ctrl"]) = 1)
  <2>1. DummyBus.irq = FALSE /\ HotplugLed.irq = TRUE
    BY DEF DummyBus, HotplugLed
  <2>2. Len(HotplugLed["ctrl"]) = 1
    BY DEF HotplugLed
  <2> QED
    BY <1>2, <2>1, <2>2
<1>5. \A k \in Kinds : Len(demo[k]) \in {1, 2} /\ DOMAIN demo[k] = 1..Len(demo[k])
  BY <1>2, <1>3 DEF DummyBus, HotplugLed
<1>6. Len(tree) \in Nat \ {0} /\ Nodes = 1..Len(tree)
  BY <1>1 DEF Nodes
<1> QED
  BY <1>1, <1>4, <1>5, <1>6

(* The devices that can be bound are pairs, the lines pairs of a device    *)
(* and a number.                                                           *)
LEMMA DevicesArePairs ==
  /\ \A d \in Bound : /\ d[1] \in Kinds /\ d[2] \in Nodes
                      /\ d = <<d[1], d[2]>> /\ d \notin {Nobody, Other}
  /\ \A n \in Nodes : <<"ctrl", n>> \in Bound
  /\ \A d \in Bound : \A i \in DOMAIN demo[d[1]] : <<d, i>> \in Lines
  /\ \A l \in Lines : \E d \in Bound : \E i \in DOMAIN demo[d[1]] : l = <<d, i>>
<1>1. /\ \A d \in Bound : /\ d[1] \in Kinds /\ d[2] \in Nodes
                          /\ d = <<d[1], d[2]>> /\ d \notin {Nobody, Other}
      /\ \A n \in Nodes : <<"ctrl", n>> \in Bound
  BY DEF Bound, Kinds, Nobody, Other
<1>2. \A d \in Bound : \A i \in DOMAIN demo[d[1]] : <<d, i>> \in Lines
  BY DEF Lines, LinesOf
<1>3. \A l \in Lines : \E d \in Bound : \E i \in DOMAIN demo[d[1]] : l = <<d, i>>
  BY DEF Lines, LinesOf
<1> QED
  BY <1>1, <1>2, <1>3

(* The device tree and the module do not change.                           *)
LEMMA SameWorld ==
  ASSUME [Next]_vars
  PROVE  /\ UNCHANGED <<demo, tree>>
         /\ Nodes' = Nodes /\ Bound' = Bound /\ Lines' = Lines
<1>1. UNCHANGED <<demo, tree>>
  <2>1. CASE InitStep
    BY <2>1 DEF InitStep, RegisterClass, RegisterBus, AllocCtrl, RegisterCtrl,
       CtrlAttr, AllocPort, RegisterPort, AllocChild, RegisterChild, ChildAttr, OnlyInit
  <2>2. ASSUME NEW k \in Kinds, LoadDriver(k) \/ UnloadDriver(k) \/ DriverGone(k)
        PROVE  UNCHANGED <<demo, tree>>
    BY <2>2 DEF LoadDriver, UnloadDriver, DriverGone, OnlyDrivers
  <2>3. ASSUME NEW d \in Bound, DriverStep(d) PROVE UNCHANGED <<demo, tree>>
    BY <2>3 DEF DriverStep, StartProbe, GetFirst, GetSecond, RequestIrq, StartRemove, FreeIrq,
       PutLine, OnlyDrivers
  <2>4. ASSUME NEW l \in Lines, OtherTakes(l) \/ OtherGives(l) PROVE UNCHANGED <<demo, tree>>
    BY <2>4 DEF OtherTakes, OtherGives, OnlyDrivers
  <2>5. ASSUME NEW n \in Nodes, Plug(n) \/ ThreadStep(n) PROVE UNCHANGED <<demo, tree>>
    BY <2>5 DEF Plug, ThreadStep, ThreadStart, ThreadFind, ThreadRead, ThreadSend, OnlyDrivers
  <2>6. CASE UNCHANGED vars
    BY <2>6 DEF vars
  <2> QED
    BY <2>1, <2>2, <2>3, <2>4, <2>5, <2>6 DEF Next
<1> QED
  BY <1>1 DEF Nodes, Bound, Lines, LinesOf, HasChild

(* The labels from p on, device by device.                                 *)
LEMMA Labels ==
  ASSUME NEW p \in 1..8
  PROVE  /\ \A k \in Devices :
              (\E q \in p..8 : k \in Frees[q]) <=>
                p <= IF k = "child" THEN 2 ELSE IF k = "port" THEN 4 ELSE 6
         /\ \A k \in Devices :
              (\E q \in p..8 : k \in Unregisters[q]) <=>
                p <= IF k = "child" THEN 1 ELSE IF k = "port" THEN 3 ELSE 5
         /\ (\E q \in p..8 : "bus" \in Unregisters[q]) <=> p <= 7
         /\ \E q \in p..8 : "class" \in Unregisters[q]
<1>1. \A q \in p..8 : q \in 1..8 /\ p <= q
  OBVIOUS
<1>2. \A k \in Devices : \A q \in 1..8 :
        /\ k \in Frees[q] <=> q = IF k = "child" THEN 2 ELSE IF k = "port" THEN 4 ELSE 6
        /\ k \in Unregisters[q] <=> q = IF k = "child" THEN 1 ELSE IF k = "port" THEN 3 ELSE 5
  BY DEF Frees, Unregisters, Devices
<1>3. \A q \in 1..8 : "bus" \in Unregisters[q] <=> q = 7
  BY DEF Unregisters
<1>4. "class" \in Unregisters[8]
  BY DEF Unregisters
<1>5. \A k \in Devices : (\E q \in p..8 : k \in Frees[q]) <=>
        p <= IF k = "child" THEN 2 ELSE IF k = "port" THEN 4 ELSE 6
  BY <1>1, <1>2
<1>6. \A k \in Devices : (\E q \in p..8 : k \in Unregisters[q]) <=>
        p <= IF k = "child" THEN 1 ELSE IF k = "port" THEN 3 ELSE 5
  BY <1>1, <1>2
<1> QED
  BY <1>1, <1>3, <1>4, <1>5, <1>6

(* Init is at a node of the tree until it has returned 0.                  *)
LEMMA AtANode ==
  ASSUME TypeOK, InitInv, step # "in", tree' = tree
  PROVE  /\ node \in 1..Len(tree) /\ Len(tree) \in Nat
         /\ Nodes = 1..Len(tree) /\ Nodes' = Nodes
BY DataTyped DEF InitInv, TypeOK, Nodes

(* A failed step jumps to the label that undoes what init has made of the  *)
(* node, and whatever all nodes share.                                     *)
LEMMA GotoUndoes ==
  ASSUME TypeOK, InitInv, step # "in", tree' = tree,
         NEW p \in 1..8, Goto(p),
         \A k \in OfNode : p <= IF k = "child" THEN 2 ELSE IF k = "port" THEN 4 ELSE 6,
         \A k \in OnBusOfNode : p <= IF k = "child" THEN 1 ELSE IF k = "port" THEN 3 ELSE 5,
         Bus \in Shared => p <= 7
  PROVE  InitInv'
<1>1. /\ node \in 1..Len(tree) /\ Len(tree) \in Nat /\ Nodes = 1..Len(tree) /\ Nodes' = Nodes
      /\ node' = node
  BY AtANode DEF Goto
<1>2. OfNode' = {} /\ OnBusOfNode' = {} /\ Shared' = {} /\ step' = "failed"
  BY DEF OfNode, OnBusOfNode, Shared, Goto
<1>3. OfNode \subseteq Devices /\ OnBusOfNode \subseteq Devices /\ Shared \subseteq {Class, Bus}
  BY DEF OfNode, OnBusOfNode, Shared, Devices
<1>4. ASSUME NEW k \in Devices, NEW n \in Nodes
      PROVE  /\ <<k, n>> \in allocated' <=> Made(k, n, {})'
             /\ <<k, n>> \in registered' <=> Made(k, n, {})'
  <2>1. Made(k, n, {})' <=> n < node /\ (k = "child" => tree[n].child # "none")
    BY <1>1 DEF Made
  <2>2. /\ <<k, n>> \in allocated <=> Made(k, n, OfNode)
        /\ <<k, n>> \in registered <=> Made(k, n, OnBusOfNode)
    BY DEF InitInv
  <2>3. n # 0 /\ n \in Nat /\ node \in Nat
    BY <1>1
  <2>4. CASE n # node
    <3>1. <<k, n>> \notin Undone(Frees, p) /\ <<k, n>> \notin Undone(Unregisters, p)
      BY <2>3, <2>4 DEF Undone
    <3> QED
      BY <2>1, <2>2, <2>4, <3>1 DEF Made, Goto
  <2>5. CASE n = node
    <3>1. /\ ~Made(k, n, {})'
          /\ Made(k, n, OfNode) <=> k \in OfNode
          /\ Made(k, n, OnBusOfNode) <=> k \in OnBusOfNode
      BY <2>1, <2>3, <2>5 DEF Made
    <3>2. /\ k \in OfNode => \E q \in p..8 : k \in Frees[q]
          /\ k \in OnBusOfNode => \E q \in p..8 : k \in Unregisters[q]
      BY Labels
    <3>3. /\ k \in OfNode => <<k, n>> \in Undone(Frees, p)
          /\ k \in OnBusOfNode => <<k, n>> \in Undone(Unregisters, p)
      BY <2>2, <2>5, <3>1, <3>2 DEF Undone
    <3> QED
      BY <2>2, <3>1, <3>3 DEF Goto
  <2> QED
    BY <2>4, <2>5
<1>5. ASSUME NEW o \in Shared PROVE o \in registered /\ o \notin registered'
  <2>1. o \in registered /\ o[2] = 0
    BY <1>3 DEF InitInv, Class, Bus
  <2>2. \E q \in p..8 : o[1] \in Unregisters[q]
    <3>1. CASE o = Class
      BY <3>1, Labels DEF Class
    <3>2. CASE o = Bus
      BY <3>2, Labels DEF Bus
    <3> QED
      BY <1>3, <3>1, <3>2
  <2>3. o \in Undone(Unregisters, p)
    BY <2>1, <2>2 DEF Undone
  <2> QED
    BY <2>1, <2>3 DEF Goto
<1>6. registered' \cap {Class, Bus} = {}
  <2>1. registered' \subseteq registered /\ registered \cap {Class, Bus} = Shared
    BY DEF Goto, InitInv
  <2> QED
    BY <1>5, <2>1
<1> QED
  BY <1>1, <1>2, <1>4, <1>6 DEF InitInv

(* Init goes on within the node: it has allocated or registered a device   *)
(* more...                                                                 *)
LEMMA WithinNode ==
  ASSUME TypeOK, InitInv, step # "in", tree' = tree, node' = node,
         NEW more, more \subseteq Devices,
         NEW moreOnBus, moreOnBus \subseteq Devices,
         allocated' = allocated \cup {<<k, node>> : k \in more},
         registered' = registered \cup {<<k, node>> : k \in moreOnBus},
         OfNode' = OfNode \cup more,
         OnBusOfNode' = OnBusOfNode \cup moreOnBus,
         Shared' = Shared,
         step' \notin {"out", "bus", "in"},
         step' \in {"child_reg", "child_attr"} => HasChild(node)
  PROVE  InitInv'
<1>1. node \in 1..Len(tree) /\ Len(tree) \in Nat /\ Nodes = 1..Len(tree) /\ Nodes' = Nodes
  BY AtANode
<1>2. ASSUME NEW j \in Devices, NEW n \in Nodes
      PROVE  /\ <<j, n>> \in allocated' <=> Made(j, n, OfNode)'
             /\ <<j, n>> \in registered' <=> Made(j, n, OnBusOfNode)'
  <2>1. /\ <<j, n>> \in allocated <=> Made(j, n, OfNode)
        /\ <<j, n>> \in registered <=> Made(j, n, OnBusOfNode)
    BY DEF InitInv
  <2>2. /\ <<j, n>> \in allocated' <=> <<j, n>> \in allocated \/ (j \in more /\ n = node)
        /\ <<j, n>> \in registered' <=> <<j, n>> \in registered \/ (j \in moreOnBus /\ n = node)
    OBVIOUS
  <2> QED
    BY <2>1, <2>2 DEF Made
<1>3. registered' \cap {Class, Bus} = Shared'
  <2>1. \A k \in moreOnBus : <<k, node>> \notin {Class, Bus}
    BY DEF Class, Bus, Devices
  <2> QED
    BY <2>1 DEF InitInv
<1> QED
  BY <1>1, <1>2, <1>3 DEF InitInv, HasChild

(* ...or neither.                                                          *)
LEMMA GoesOn ==
  ASSUME TypeOK, InitInv, step # "in", tree' = tree, NEW l, GoOn(l),
         OfNode' = OfNode, OnBusOfNode' = OnBusOfNode, Shared' = Shared,
         l \notin {"out", "bus", "in", "child_reg", "child_attr"}
  PROVE  InitInv'
<1>1. /\ UNCHANGED <<node, registered, allocated>> /\ step' = l
      /\ Nodes' = Nodes /\ node <= Len(tree)
  BY AtANode DEF GoOn
<1> QED
  BY <1>1 DEF InitInv, Made

(* Init is done with a node when it has made all the node wants.           *)
LEMMA NextNodeIsFresh ==
  ASSUME TypeOK, InitInv, step \in {"child", "child_attr"}, NextNode, tree' = tree,
         \A k \in Devices : k \in OfNode <=> (k = "child" => tree[node].child # "none"),
         OnBusOfNode = OfNode
  PROVE  InitInv'
<1>1. /\ node \in 1..Len(tree) /\ Len(tree) \in Nat /\ Nodes = 1..Len(tree) /\ Nodes' = Nodes
      /\ node' = node + 1 /\ UNCHANGED <<registered, allocated>>
  BY AtANode DEF NextNode
<1>2. /\ step' \in {"in", "ctrl"} /\ (step' # "in" => node' <= Len(tree))
      /\ OfNode' = {} /\ OnBusOfNode' = {} /\ Shared' = Shared
  <2>1. step' \in {"in", "ctrl"} /\ (step' # "in" => node # Len(tree))
    BY DEF NextNode
  <2> QED
    BY <1>1, <2>1 DEF OfNode, OnBusOfNode, Shared
<1>3. ASSUME NEW k \in Devices, NEW n \in Nodes
      PROVE  /\ <<k, n>> \in allocated' <=> Made(k, n, {})'
             /\ <<k, n>> \in registered' <=> Made(k, n, {})'
  <2>1. /\ <<k, n>> \in allocated' <=> Made(k, n, OfNode)
        /\ <<k, n>> \in registered' <=> Made(k, n, OfNode)
    BY <1>1 DEF InitInv
  <2>2. Made(k, n, {})' <=> n < node + 1 /\ (k = "child" => tree[n].child # "none")
    BY <1>1 DEF Made
  <2>3. n < node + 1 <=> n < node \/ n = node
    BY <1>1
  <2> QED
    BY <2>1, <2>2, <2>3 DEF Made
<1>4. registered' \cap {Class, Bus} = Shared'
  BY <1>1, <1>2 DEF InitInv
<1> QED
  BY <1>1, <1>2, <1>3, <1>4 DEF InitInv

(* An init that starts, or starts again, finds nothing of an earlier one.  *)
LEMMA StartsFromNothing ==
  ASSUME TypeOK, InitInv, RegisterClass, tree' = tree
  PROVE  InitInv'
<1>1. /\ step \in {"out", "failed"} /\ OfNode = {} /\ OnBusOfNode = {} /\ Shared = {}
      /\ node' = 1
  BY DEF RegisterClass, OfNode, OnBusOfNode, Shared
<1>2. node \in 1..Len(tree) /\ Len(tree) \in Nat /\ Nodes = 1..Len(tree) /\ Nodes' = Nodes
  BY <1>1, AtANode
<1>3. \A k \in Devices, n \in Nodes : <<k, n>> \notin allocated /\ <<k, n>> \notin registered
  <2>1. CASE step = "out"
    <3>1. node = 1
      BY <2>1 DEF InitInv
    <3>2. \A k \in Devices, n \in Nodes : ~Made(k, n, {})
      BY <1>2, <3>1 DEF Made
    <3> QED
      BY <1>1, <3>2 DEF InitInv
  <2>2. CASE step = "failed"
    <3>1. registered = {}
      BY <2>2 DEF RegisterClass
    <3> QED
      BY <1>1, <3>1 DEF InitInv
  <2> QED
    BY <1>1, <2>1, <2>2
<1>4. registered = {} /\ allocated' = allocated
  <2>1. registered \subseteq {Class, Bus} \cup (Devices \X Nodes)
    BY DEF TypeOK, Objects, Devices
  <2>2. registered \cap {Class, Bus} = {}
    BY <1>1 DEF InitInv
  <2>3. \A o \in Devices \X Nodes : o \notin registered
    BY <1>3
  <2> QED
    BY <2>1, <2>2, <2>3 DEF RegisterClass
<1>5. \/ registered' = {Class} /\ step' = "bus"
      \/ registered' = {} /\ step' = "failed"
  BY <1>4 DEF RegisterClass
<1>6. OfNode' = {} /\ OnBusOfNode' = {} /\ Shared' = registered'
  BY <1>5 DEF OfNode, OnBusOfNode, Shared
<1>7. \A k \in Devices, n \in Nodes :
        ~Made(k, n, {})' /\ <<k, n>> \notin allocated' /\ <<k, n>> \notin registered'
  BY <1>1, <1>2, <1>3, <1>4, <1>5 DEF Made, Class, Devices
<1> QED
  BY <1>1, <1>2, <1>5, <1>6, <1>7 DEF InitInv

(* Whatever fails, init has made the nodes before this one, the devices of *)
(* this one up to its step, and nothing else.                              *)
LEMMA InitStepKeeps == TypeOK /\ InitInv /\ InitStep => InitInv'
<1> SUFFICES ASSUME TypeOK, InitInv, InitStep PROVE InitInv'
  OBVIOUS
<1>1. tree' = tree
  BY DEF InitStep, RegisterClass, RegisterBus, AllocCtrl, RegisterCtrl, CtrlAttr, AllocPort,
     RegisterPort, AllocChild, RegisterChild, ChildAttr, OnlyInit
<1>2. /\ Err(0) = 7 /\ Err(1) = 6 /\ Err(2) = 5 /\ Err(3) = 4
      /\ Err(4) = 3 /\ Err(5) = 2 /\ Err(6) = 1
  BY DEF Err
<1>3. CASE RegisterClass
  BY <1>1, <1>3, StartsFromNothing
<1>4. CASE RegisterBus
  <2>1. step = "bus" /\ OfNode = {} /\ OnBusOfNode = {} /\ Shared = {Class} /\ Bus # Class
    BY <1>4 DEF RegisterBus, OfNode, OnBusOfNode, Shared, Bus, Class
  <2>2. CASE Goto(8)
    BY <1>1, <2>1, <2>2, GotoUndoes
  <2>3. CASE ~Goto(8)
    <3>1. registered' = registered \cup {Bus} /\ step' = "ctrl" /\ UNCHANGED <<node, allocated>>
      BY <1>4, <2>3 DEF RegisterBus
    <3>2. OfNode' = {} /\ OnBusOfNode' = {} /\ Shared' = {Class, Bus}
      BY <3>1 DEF OfNode, OnBusOfNode, Shared
    <3>3. registered' \cap {Class, Bus} = {Class, Bus}
      BY <2>1, <3>1 DEF InitInv
    <3>4. \A k \in Devices, n \in Nodes : <<k, n>> \in registered' <=> <<k, n>> \in registered
      BY <3>1 DEF Bus, Devices
    <3>5. Nodes' = Nodes
      BY <1>1 DEF Nodes
    <3> QED
      BY <1>1, <2>1, <3>1, <3>2, <3>3, <3>4, <3>5 DEF InitInv, Made
  <2> QED
    BY <2>2, <2>3
<1>5. CASE AllocCtrl
  <2>1. step = "ctrl" /\ OfNode = {} /\ OnBusOfNode = {} /\ Shared = {Class, Bus}
    BY <1>5 DEF AllocCtrl, OfNode, OnBusOfNode, Shared
  <2>2. CASE Goto(Err(0))
    BY <1>1, <1>2, <2>1, <2>2, GotoUndoes
  <2>3. CASE Alloc("ctrl", "ctrl_reg")
    <3>1. OfNode' = OfNode \cup {"ctrl"} /\ OnBusOfNode' = OnBusOfNode \cup {} /\ Shared' = Shared
      BY <2>1, <2>3 DEF Alloc, OfNode, OnBusOfNode, Shared
    <3> QED
      BY <1>1, <2>1, <2>3, <3>1, WithinNode DEF Alloc, Devices
  <2> QED
    BY <1>5, <2>2, <2>3 DEF AllocCtrl
<1>6. CASE RegisterCtrl
  <2>1. step = "ctrl_reg" /\ OfNode = {"ctrl"} /\ OnBusOfNode = {} /\ Shared = {Class, Bus}
    BY <1>6 DEF RegisterCtrl, OfNode, OnBusOfNode, Shared
  <2>2. CASE Goto(Err(1))
    BY <1>1, <1>2, <2>1, <2>2, GotoUndoes
  <2>3. CASE Register("ctrl", "ctrl_attr")
    <3>1. OfNode' = OfNode \cup {} /\ OnBusOfNode' = OnBusOfNode \cup {"ctrl"} /\ Shared' = Shared
      BY <2>1, <2>3 DEF Register, OfNode, OnBusOfNode, Shared
    <3> QED
      BY <1>1, <2>1, <2>3, <3>1, WithinNode DEF Register, Devices
  <2> QED
    BY <1>6, <2>2, <2>3 DEF RegisterCtrl
<1>7. CASE CtrlAttr
  <2>1. step = "ctrl_attr" /\ OfNode = {"ctrl"} /\ OnBusOfNode = {"ctrl"} /\ Shared = {Class, Bus}
    BY <1>7 DEF CtrlAttr, OfNode, OnBusOfNode, Shared
  <2>2. CASE Goto(Err(2))
    BY <1>1, <1>2, <2>1, <2>2, GotoUndoes
  <2>3. CASE GoOn("port")
    <3>1. OfNode' = OfNode /\ OnBusOfNode' = OnBusOfNode /\ Shared' = Shared
      BY <2>1, <2>3 DEF GoOn, OfNode, OnBusOfNode, Shared
    <3> QED
      BY <1>1, <2>1, <2>3, <3>1, GoesOn
  <2> QED
    BY <1>7, <2>2, <2>3 DEF CtrlAttr
<1>8. CASE AllocPort
  <2>1. step = "port" /\ OfNode = {"ctrl"} /\ OnBusOfNode = {"ctrl"} /\ Shared = {Class, Bus}
    BY <1>8 DEF AllocPort, OfNode, OnBusOfNode, Shared
  <2>2. OfNode' = OfNode \cup {"port"} /\ OnBusOfNode' = OnBusOfNode \cup {} /\ Shared' = Shared
    BY <1>8, <2>1 DEF AllocPort, Alloc, OfNode, OnBusOfNode, Shared
  <2> QED
    BY <1>1, <1>8, <2>1, <2>2, WithinNode DEF AllocPort, Alloc, Devices
<1>9. CASE RegisterPort
  <2>1. /\ step = "port_reg" /\ OfNode = {"ctrl", "port"} /\ OnBusOfNode = {"ctrl"}
        /\ Shared = {Class, Bus}
    BY <1>9 DEF RegisterPort, OfNode, OnBusOfNode, Shared
  <2>2. CASE Goto(Err(3))
    BY <1>1, <1>2, <2>1, <2>2, GotoUndoes
  <2>3. CASE GoOn("oops")
    <3>1. OfNode' = OfNode /\ OnBusOfNode' = OnBusOfNode /\ Shared' = Shared
      BY <2>1, <2>3 DEF GoOn, OfNode, OnBusOfNode, Shared
    <3> QED
      BY <1>1, <2>1, <2>3, <3>1, GoesOn
  <2>4. CASE Register("port", "child")
    <3>1. OfNode' = OfNode \cup {} /\ OnBusOfNode' = OnBusOfNode \cup {"port"} /\ Shared' = Shared
      BY <2>1, <2>4 DEF Register, OfNode, OnBusOfNode, Shared
    <3> QED
      BY <1>1, <2>1, <2>4, <3>1, WithinNode DEF Register, Devices
  <2> QED
    BY <1>9, <2>2, <2>3, <2>4 DEF RegisterPort
<1>10. CASE AllocChild
  <2>1. /\ step = "child" /\ OfNode = {"ctrl", "port"} /\ OnBusOfNode = OfNode
        /\ Shared = {Class, Bus}
    BY <1>10 DEF AllocChild, OfNode, OnBusOfNode, Shared
  <2>2. CASE Goto(Err(4))
    BY <1>1, <1>2, <2>1, <2>2, GotoUndoes
  <2>3. CASE tree[node].child = "none" /\ NextNode
    BY <1>1, <2>1, <2>3, NextNodeIsFresh DEF Devices
  <2>4. CASE GoOn("nomem")
    <3>1. OfNode' = OfNode /\ OnBusOfNode' = OnBusOfNode /\ Shared' = Shared
      BY <2>1, <2>4 DEF GoOn, OfNode, OnBusOfNode, Shared
    <3> QED
      BY <1>1, <2>1, <2>4, <3>1, GoesOn
  <2>5. CASE HasChild(node) /\ Alloc("child", "child_reg")
    <3>1. /\ OfNode' = OfNode \cup {"child"} /\ OnBusOfNode' = OnBusOfNode \cup {}
          /\ Shared' = Shared
      BY <2>1, <2>5 DEF Alloc, OfNode, OnBusOfNode, Shared, Devices
    <3> QED
      BY <1>1, <2>1, <2>5, <3>1, WithinNode DEF Alloc, Devices
  <2> QED
    BY <1>10, <2>2, <2>3, <2>4, <2>5 DEF AllocChild
<1>11. CASE RegisterChild
  <2>1. /\ step = "child_reg" /\ OfNode = Devices /\ OnBusOfNode = {"ctrl", "port"}
        /\ Shared = {Class, Bus}
    BY <1>11 DEF RegisterChild, OfNode, OnBusOfNode, Shared
  <2>2. CASE Goto(Err(5))
    BY <1>1, <1>2, <2>1, <2>2, GotoUndoes DEF Devices
  <2>3. CASE Register("child", "child_attr")
    <3>1. /\ OfNode' = OfNode \cup {} /\ OnBusOfNode' = OnBusOfNode \cup {"child"}
          /\ Shared' = Shared
      BY <2>1, <2>3 DEF Register, OfNode, OnBusOfNode, Shared, Devices
    <3>2. HasChild(node)
      BY <2>1 DEF InitInv
    <3> QED
      BY <1>1, <2>1, <2>3, <3>1, <3>2, WithinNode DEF Register, Devices
  <2> QED
    BY <1>11, <2>2, <2>3 DEF RegisterChild
<1>12. CASE ChildAttr
  <2>1. /\ step = "child_attr" /\ OfNode = Devices /\ OnBusOfNode = OfNode
        /\ Shared = {Class, Bus}
    BY <1>12 DEF ChildAttr, OfNode, OnBusOfNode, Shared
  <2>2. CASE Goto(Err(6))
    BY <1>1, <1>2, <2>1, <2>2, GotoUndoes DEF Devices
  <2>3. CASE NextNode
    <3>1. tree[node].child # "none"
      BY <2>1 DEF InitInv, HasChild
    <3> QED
      BY <1>1, <2>1, <2>3, <3>1, NextNodeIsFresh DEF Devices
  <2> QED
    BY <1>12, <2>2, <2>3 DEF ChildAttr
<1> QED
  BY <1>3, <1>4, <1>5, <1>6, <1>7, <1>8, <1>9, <1>10, <1>11, <1>12 DEF InitStep

(* The drivers and the world outside leave init alone.                     *)
LEMMA DriversLeaveInit ==
  ASSUME [Next]_vars, ~InitStep
  PROVE  UNCHANGED initVars
<1>1. ASSUME NEW k \in Kinds, LoadDriver(k) \/ UnloadDriver(k) \/ DriverGone(k)
      PROVE  UNCHANGED initVars
  BY <1>1 DEF LoadDriver, UnloadDriver, DriverGone, OnlyDrivers
<1>2. ASSUME NEW d \in Bound, DriverStep(d) PROVE UNCHANGED initVars
  BY <1>2 DEF DriverStep, StartProbe, GetFirst, GetSecond, RequestIrq, StartRemove, FreeIrq,
     PutLine, OnlyDrivers
<1>3. ASSUME NEW l \in Lines, OtherTakes(l) \/ OtherGives(l) PROVE UNCHANGED initVars
  BY <1>3 DEF OtherTakes, OtherGives, OnlyDrivers
<1>4. ASSUME NEW n \in Nodes, Plug(n) \/ ThreadStep(n) PROVE UNCHANGED initVars
  BY <1>4 DEF Plug, ThreadStep, ThreadStart, ThreadFind, ThreadRead, ThreadSend, OnlyDrivers
<1>5. CASE UNCHANGED vars
  BY <1>5 DEF vars, initVars
<1> QED
  BY <1>1, <1>2, <1>3, <1>4, <1>5 DEF Next

(* Every step keeps what is known of init.                                 *)
LEMMA InitInvStep == TypeOK /\ InitInv /\ [Next]_vars => InitInv'
<1> SUFFICES ASSUME TypeOK, InitInv, [Next]_vars, ~InitStep PROVE InitInv'
  BY InitStepKeeps
<1>1. UNCHANGED <<demo, tree, step, node, registered, allocated>> /\ Nodes' = Nodes
  BY SameWorld, DriversLeaveInit DEF initVars
<1>2. OfNode' = OfNode /\ OnBusOfNode' = OnBusOfNode /\ Shared' = Shared
  BY <1>1 DEF OfNode, OnBusOfNode, Shared
<1> QED
  BY <1>1, <1>2 DEF InitInv, Made, HasChild

(* Init names the port of a node when it allocates it, and no label takes  *)
(* the name back.                                                          *)
LEMMA NameStep == TypeOK /\ InitInv /\ NameInv /\ [Next]_vars => NameInv'
<1> SUFFICES ASSUME TypeOK, InitInv, NameInv, [Next]_vars PROVE NameInv'
  OBVIOUS
<1>1. CASE ~InitStep
  BY <1>1, DriversLeaveInit DEF initVars, NameInv
<1>2. CASE InitStep
  <2>1. node \in Nat \ {0}
    BY DataTyped DEF TypeOK
  <2>2. ASSUME NEW p, Goto(p), step # "failed" PROVE NameInv'
    BY <2>2 DEF Goto, NameInv, NamedSteps
  <2>3. ASSUME NextNode, step \in NamedSteps PROVE NameInv'
    <3>1. named' = 1..node /\ node' = node + 1 /\ step' \in {"in", "ctrl"}
      BY <2>3 DEF NextNode, NameInv, NamedSteps
    <3>2. node' - 1 = node
      BY <2>1, <3>1
    <3> QED
      BY <3>1, <3>2 DEF NameInv, NamedSteps
  <2>4. CASE RegisterClass
    <3>1. named' = {} /\ node' = 1 /\ step' \in {"bus", "failed"}
      BY <2>4 DEF RegisterClass
    <3>2. 1..(1 - 1) = {}
      OBVIOUS
    <3> QED
      BY <3>1, <3>2 DEF NameInv, NamedSteps
  <2>5. CASE RegisterBus \/ AllocCtrl \/ RegisterCtrl \/ CtrlAttr
    <3>1. CASE \E p : Goto(p)
      BY <2>2, <2>5, <3>1 DEF RegisterBus, AllocCtrl, RegisterCtrl, CtrlAttr
    <3>2. CASE ~\E p : Goto(p)
      <4>1. /\ UNCHANGED <<node, named>>
            /\ step \in {"bus", "ctrl", "ctrl_reg", "ctrl_attr"}
            /\ step' \in {"ctrl", "ctrl_reg", "ctrl_attr", "port"}
        BY <2>5, <3>2 DEF RegisterBus, AllocCtrl, RegisterCtrl, CtrlAttr, Alloc, Register, GoOn
      <4> QED
        BY <4>1 DEF NameInv, NamedSteps
    <3> QED
      BY <3>1, <3>2
  <2>6. CASE AllocPort
    <3>1. named' = (1..(node - 1)) \cup {node} /\ node' = node /\ step' = "port_reg"
      BY <2>6 DEF AllocPort, Alloc, NameInv, NamedSteps
    <3>2. (1..(node - 1)) \cup {node} = 1..node
      BY <2>1
    <3> QED
      BY <3>1, <3>2 DEF NameInv, NamedSteps
  <2>7. CASE RegisterPort \/ AllocChild \/ RegisterChild \/ ChildAttr
    <3>1. step \in {"port_reg", "child", "child_reg", "child_attr"}
      BY <2>7 DEF RegisterPort, AllocChild, RegisterChild, ChildAttr
    <3>2. \/ \E p : Goto(p)
          \/ NextNode
          \/ UNCHANGED <<node, named>> /\ step' \in NamedSteps
      BY <2>7 DEF RegisterPort, AllocChild, RegisterChild, ChildAttr, Alloc, Register, GoOn,
         NamedSteps
    <3> QED
      BY <2>2, <2>3, <3>1, <3>2 DEF NameInv, NamedSteps
  <2> QED
    BY <1>2, <2>4, <2>5, <2>6, <2>7 DEF InitStep
<1> QED
  BY <1>1, <1>2

----------------------------------------------------------------------------
(* TypeOK in two parts: init touches one of them, the drivers the other.   *)
InitTyped ==
  /\ demo \in {DummyBus, HotplugLed} /\ tree \in Trees
  /\ step \in {"out", "in", "failed", "nomem", "oops"} \cup InitSteps
  /\ node \in 1..(Len(tree) + 1)
  /\ registered \subseteq {Class, Bus} \cup (Devices \X Nodes)
  /\ allocated \subseteq Devices \X Nodes
  /\ named \subseteq Nodes

DriversTyped ==
  /\ driver \in [Kinds -> {"out", "in", "leaving"}]
  /\ pc \in [Bound -> {"unbound", "get1", "get2", "request", "bound", "free", "put1", "put2"}]
  /\ holder \in [Lines -> Bound \cup {Other, Nobody}]
  /\ lost \subseteq Bound
  /\ high \in [Nodes -> BOOLEAN] /\ edge \in [Nodes -> BOOLEAN] /\ irq \in [Nodes -> BOOLEAN]
  /\ thread \in [Nodes -> {"idle", "find", "read", "REMOVE", "ADD"}]
  /\ said \in [Nodes -> {"nothing", "REMOVE", "ADD"}]

(* The types, in the two halves init and drivers change.                   *)
LEMMA TypeParts == TypeOK <=> InitTyped /\ DriversTyped
<1>1. UNION {Objects(n) : n \in Nodes} = Devices \X Nodes
  BY DEF Objects, Devices
<1> QED
  BY <1>1 DEF TypeOK, InitTyped, DriversTyped

(* Every step keeps the types.                                             *)
LEMMA TypeStep == TypeOK /\ InitInv /\ [Next]_vars => TypeOK'
<1> SUFFICES ASSUME TypeOK, InitInv, [Next]_vars PROVE TypeOK'
  OBVIOUS
<1>1. InitTyped /\ DriversTyped
  BY TypeParts
<1>2. UNCHANGED <<demo, tree>> /\ Nodes' = Nodes /\ Bound' = Bound /\ Lines' = Lines
  BY SameWorld
<1>3. InitTyped'
  <2>1. CASE InitStep
    <3>1. Len(tree) \in Nat \ {0} /\ Nodes = 1..Len(tree)
      BY DataTyped
    <3>2. step # "in" /\ node \in Nodes
      <4>1. step # "in"
        BY <2>1 DEF InitStep, RegisterClass, RegisterBus, AllocCtrl, RegisterCtrl,
       CtrlAttr, AllocPort, RegisterPort, AllocChild, RegisterChild, ChildAttr
      <4> QED
        BY <1>1, <3>1, <4>1 DEF InitInv, InitTyped
    <3>3. step' \in {"out", "in", "failed", "nomem", "oops"} \cup InitSteps
      BY <2>1 DEF InitStep, RegisterClass, RegisterBus, AllocCtrl, RegisterCtrl,
       CtrlAttr, AllocPort, RegisterPort, AllocChild, RegisterChild, ChildAttr, Goto, NextNode, Alloc, Register, GoOn, InitSteps
    <3>4. node' \in {1, node, node + 1}
      BY <2>1 DEF InitStep, RegisterClass, RegisterBus, AllocCtrl, RegisterCtrl,
       CtrlAttr, AllocPort, RegisterPort, AllocChild, RegisterChild, ChildAttr, Goto, NextNode, Alloc, Register, GoOn
    <3>5. node' \in 1..(Len(tree) + 1)
      BY <3>1, <3>2, <3>4
    <3>6. /\ registered' \subseteq registered \cup {Class, Bus} \cup (Devices \X {node})
          /\ allocated' \subseteq allocated \cup (Devices \X {node})
          /\ named' \subseteq named \cup {node}
      BY <2>1 DEF InitStep, RegisterClass, RegisterBus, AllocCtrl, RegisterCtrl,
       CtrlAttr, AllocPort, RegisterPort, AllocChild, RegisterChild, ChildAttr, Goto, NextNode, Alloc, Register, GoOn, Devices
    <3> QED
      BY <1>1, <1>2, <3>2, <3>3, <3>5, <3>6 DEF InitTyped
  <2>2. CASE ~InitStep
    BY <1>1, <1>2, <2>2, DriversLeaveInit DEF InitTyped, initVars
  <2> QED
    BY <2>1, <2>2
<1>4. DriversTyped'
  <2>1. CASE InitStep
    BY <1>1, <1>2, <2>1 DEF InitStep, RegisterClass, RegisterBus, AllocCtrl, RegisterCtrl,
       CtrlAttr, AllocPort, RegisterPort, AllocChild, RegisterChild, ChildAttr, OnlyInit, irqVars, DriversTyped
  <2>2. ASSUME NEW k \in Kinds, LoadDriver(k) \/ UnloadDriver(k) \/ DriverGone(k)
        PROVE  DriversTyped'
    BY <1>1, <1>2, <2>2 DEF LoadDriver, UnloadDriver, DriverGone, irqVars, DriversTyped
  <2>3. ASSUME NEW d \in Bound, DriverStep(d) PROVE DriversTyped'
    <3>1. /\ UNCHANGED <<driver, high, thread>>
          /\ \E l \in {"unbound", "get1", "get2", "request", "bound", "free", "put1", "put2"} :
               pc' = [pc EXCEPT ![d] = l]
          /\ \/ holder' = holder
             \/ \E i \in {1, 2}, h \in {d, Nobody} : holder' = [holder EXCEPT ![<<d, i>>] = h]
          /\ lost' = lost \/ lost' = lost \cup {d}
          /\ irq' = irq \/ \E b \in BOOLEAN : irq' = [irq EXCEPT ![d[2]] = b]
          /\ edge' = edge \/ edge' = [edge EXCEPT ![d[2]] = FALSE]
          /\ said' = said \/ said' = [said EXCEPT ![d[2]] = "nothing"]
      <4>1. CASE StartProbe(d) \/ GetFirst(d) \/ GetSecond(d)
        BY <4>1 DEF StartProbe, GetFirst, GetSecond, Step, AfterLines, irqVars
      <4>2. CASE RequestIrq(d)
        BY <4>2 DEF RequestIrq, Step, irqVars
      <4>3. CASE StartRemove(d) \/ FreeIrq(d)
        BY <4>3 DEF StartRemove, FreeIrq, Step, irqVars
      <4>4. CASE PutLine(d, 1) \/ PutLine(d, 2)
        BY <4>4 DEF PutLine, Step, irqVars
      <4> QED
        BY <2>3, <4>1, <4>2, <4>3, <4>4 DEF DriverStep
    <3> QED
      <4>1. /\ pc' \in [Bound -> {"unbound", "get1", "get2", "request", "bound", "free", "put1",
                                 "put2"}]
            /\ holder' \in [Lines -> Bound \cup {Other, Nobody}]
        BY <1>1, <3>1 DEF DriversTyped
      <4>2. irq' \in [Nodes -> BOOLEAN] /\ edge' \in [Nodes -> BOOLEAN]
        BY <1>1, <3>1 DEF DriversTyped
      <4>3. said' \in [Nodes -> {"nothing", "REMOVE", "ADD"}] /\ lost' \subseteq Bound
        BY <1>1, <3>1 DEF DriversTyped
      <4> QED
        BY <1>1, <1>2, <3>1, <4>1, <4>2, <4>3 DEF DriversTyped
  <2>4. ASSUME NEW l \in Lines, OtherTakes(l) \/ OtherGives(l) PROVE DriversTyped'
    BY <1>1, <1>2, <2>4 DEF OtherTakes, OtherGives, irqVars, DriversTyped
  <2>5. ASSUME NEW n \in Nodes, Plug(n) PROVE DriversTyped'
    BY <1>1, <1>2, <2>5 DEF Plug, DriversTyped
  <2>6. ASSUME NEW n \in Nodes, ThreadStep(n) PROVE DriversTyped'
    <3>1. /\ UNCHANGED <<driver, pc, holder, lost, high, irq>>
          /\ edge' = edge \/ edge' = [edge EXCEPT ![n] = FALSE]
          /\ \E l \in {"idle", "find", "read", "REMOVE", "ADD"} : thread' = [thread EXCEPT ![n] = l]
      BY <2>6 DEF ThreadStep, ThreadStart, ThreadFind, ThreadRead, ThreadSend
    <3>2. said' = said \/ \E e \in {"REMOVE", "ADD"} : said' = [said EXCEPT ![n] = e]
      BY <2>6 DEF ThreadStep, ThreadStart, ThreadFind, ThreadRead, ThreadSend
    <3>3. edge' \in [Nodes -> BOOLEAN]
      BY <1>1, <3>1 DEF DriversTyped
    <3>4. thread' \in [Nodes -> {"idle", "find", "read", "REMOVE", "ADD"}]
      BY <1>1, <3>1 DEF DriversTyped
    <3>5. said' \in [Nodes -> {"nothing", "REMOVE", "ADD"}]
      BY <1>1, <3>2 DEF DriversTyped
    <3> QED
      BY <1>1, <1>2, <3>1, <3>3, <3>4, <3>5 DEF DriversTyped
  <2>7. CASE UNCHANGED vars
    BY <1>1, <1>2, <2>7 DEF vars, irqVars, DriversTyped
  <2> QED
    BY <2>1, <2>2, <2>3, <2>4, <2>5, <2>6, <2>7 DEF Next
<1> QED
  <2>1. (UNION {Objects(n) : n \in Nodes})' = Devices \X Nodes'
    BY DEF Objects, Devices
  <2> QED
    BY <1>3, <1>4, <2>1 DEF TypeOK, InitTyped, DriversTyped

----------------------------------------------------------------------------
(* A device takes and puts back its own lines only.                        *)
LEMMA OtherDevicesKeep ==
  ASSUME TypeOK, NEW d \in Bound, NEW e \in Bound, e # d, DeviceLines(e), DriverStep(d)
  PROVE  DeviceLines(e)'
<1>1. UNCHANGED <<demo, tree>>
  BY DEF DriverStep, StartProbe, GetFirst, GetSecond, RequestIrq, StartRemove, FreeIrq,
     PutLine, OnlyDrivers
<1>2. pc'[e] = pc[e]
  BY DEF DriverStep, StartProbe, GetFirst, GetSecond, RequestIrq, StartRemove, FreeIrq, PutLine,
     Step, TypeOK
<1>3. ASSUME NEW i \in DOMAIN demo[e[1]] PROVE holder'[<<e, i>>] = holder[<<e, i>>]
  <2>1. <<e, i>> \in Lines /\ <<e, i>> # <<d, 1>> /\ <<e, i>> # <<d, 2>>
    BY DevicesArePairs
  <2>2. \/ holder' = holder
        \/ \E j \in {1, 2}, h \in {d, Nobody} : holder' = [holder EXCEPT ![<<d, j>>] = h]
    BY DEF DriverStep, StartProbe, GetFirst, GetSecond, RequestIrq, StartRemove, FreeIrq, PutLine
  <2> QED
    BY <2>1, <2>2 DEF TypeOK
<1>4. e \in lost' <=> e \in lost
  BY DEF DriverStep, StartProbe, GetFirst, GetSecond, RequestIrq, StartRemove, FreeIrq, PutLine
<1> QED
  BY <1>1, <1>2, <1>3, <1>4 DEF DeviceLines, Holds

(* A device that probe or remove is at holds the lines of that step.       *)
LEMMA OwnLinesStep ==
  ASSUME TypeOK, NEW d \in Bound, DeviceLines(d), DriverStep(d)
  PROVE  DeviceLines(d)'
<1> DEFINE L == Len(demo[d[1]])
<1>1. /\ UNCHANGED <<demo, tree>>
      /\ d \notin {Nobody, Other} /\ Nobody # Other /\ d[1] \in Kinds
      /\ L \in {1, 2} /\ DOMAIN demo[d[1]] = 1..L
      /\ demo.irq /\ d[1] = "ctrl" => L = 1
      /\ L > 1 <=> L = 2
      /\ \A i \in DOMAIN demo[d[1]] : i = 1 \/ (i = 2 /\ L = 2)
  <2>1. UNCHANGED <<demo, tree>>
    BY DEF DriverStep, StartProbe, GetFirst, GetSecond, RequestIrq, StartRemove, FreeIrq,
       PutLine, OnlyDrivers
  <2>2. d \notin {Nobody, Other} /\ Nobody # Other /\ d[1] \in Kinds
    BY DevicesArePairs DEF Nobody, Other
  <2>3. /\ L \in {1, 2} /\ DOMAIN demo[d[1]] = 1..L
        /\ demo.irq /\ d[1] = "ctrl" => L = 1
    BY <2>2, DataTyped
  <2>4. \A n \in {1, 2} : (n > 1 <=> n = 2) /\ \A i \in 1..n : i = 1 \/ (i = 2 /\ n = 2)
    OBVIOUS
  <2>5. (L > 1 <=> L = 2) /\ \A i \in 1..L : i = 1 \/ (i = 2 /\ L = 2)
    <3> HIDE DEF L
    <3> QED
      BY <2>3, <2>4
  <2> QED
    BY <2>1, <2>2, <2>3, <2>5
<1>2. /\ <<d, 1>> \in Lines /\ (L = 2 => <<d, 2>> \in Lines) /\ <<d, 1>> # <<d, 2>>
      /\ holder \in [Lines -> Bound \cup {Other, Nobody}]
      /\ \A l : Step(d, l) => pc'[d] = l
  BY <1>1, DevicesArePairs DEF TypeOK, Step
<1>3. /\ holder[<<d, 1>>] \in {d, Other, Nobody}
      /\ holder[<<d, 1>>] = d <=> pc[d] \in {"get2", "request", "bound", "free", "put1"} \/ d \in lost
      /\ L = 2 => /\ holder[<<d, 2>>] \in {d, Other, Nobody}
                  /\ holder[<<d, 2>>] = d <=> pc[d] \in {"bound", "put1", "put2"}
      /\ d \in lost => pc[d] \in {"unbound", "get1"}
      /\ pc[d] \in {"request", "free"} => demo.irq /\ d[1] = "ctrl"
      /\ pc[d] \in {"get2", "put2"} => L = 2
  BY <1>1 DEF DeviceLines, Holds
<1>4. SUFFICES
        /\ holder'[<<d, 1>>] \in {d, Other, Nobody}
        /\ holder'[<<d, 1>>] = d <=>
             pc'[d] \in {"get2", "request", "bound", "free", "put1"} \/ d \in lost'
        /\ L = 2 => /\ holder'[<<d, 2>>] \in {d, Other, Nobody}
                    /\ holder'[<<d, 2>>] = d <=> pc'[d] \in {"bound", "put1", "put2"}
        /\ d \in lost' => pc'[d] \in {"unbound", "get1"}
        /\ pc'[d] \in {"request", "free"} => demo.irq /\ d[1] = "ctrl"
        /\ pc'[d] \in {"get2", "put2"} => L = 2
  BY <1>1 DEF DeviceLines, Holds
<1>5. CASE StartProbe(d)
  BY <1>2, <1>3, <1>5 DEF StartProbe
<1>6. CASE GetFirst(d)
  <2>1. pc[d] = "get1" /\ lost' = lost
    BY <1>6 DEF GetFirst
  <2>2. CASE holder[<<d, 1>>] = Nobody
    <3>1. /\ holder'[<<d, 1>>] = d /\ (L = 2 => holder'[<<d, 2>>] = holder[<<d, 2>>])
          /\ pc'[d] = IF L = 2 THEN "get2" ELSE AfterLines(d)
      BY <1>1, <1>2, <1>6, <2>2 DEF GetFirst
    <3> QED
      BY <1>1, <1>3, <2>1, <2>2, <3>1 DEF AfterLines
  <2>3. CASE holder[<<d, 1>>] # Nobody
    <3>1. pc'[d] = "unbound" /\ holder' = holder
      BY <1>2, <1>6, <2>3 DEF GetFirst
    <3> QED
      BY <1>3, <2>1, <3>1
  <2> QED
    BY <2>2, <2>3
<1>7. CASE GetSecond(d)
  <2>1. pc[d] = "get2" /\ L = 2
    BY <1>3, <1>7 DEF GetSecond
  <2>2. CASE holder[<<d, 2>>] = Nobody
    <3>1. /\ holder'[<<d, 2>>] = d /\ holder'[<<d, 1>>] = holder[<<d, 1>>]
          /\ pc'[d] = "bound" /\ lost' = lost
      BY <1>2, <1>7, <2>1, <2>2 DEF GetSecond
    <3> QED
      BY <1>1, <1>3, <2>1, <2>2, <3>1
  <2>3. CASE holder[<<d, 2>>] # Nobody
    <3>1. pc'[d] = "unbound" /\ holder' = holder /\ lost' = lost \cup {d}
      BY <1>2, <1>7, <2>3 DEF GetSecond
    <3> QED
      BY <1>3, <2>1, <3>1
  <2> QED
    BY <2>2, <2>3
<1>8. CASE RequestIrq(d)
  <2>1. /\ pc[d] = "request" /\ L = 1 /\ lost' = lost /\ d \notin lost
        /\ \/ pc'[d] = "bound" /\ holder' = holder
           \/ pc'[d] = "unbound" /\ holder'[<<d, 1>>] = Nobody
    BY <1>1, <1>2, <1>3, <1>8 DEF RequestIrq
  <2> QED
    BY <1>1, <1>3, <2>1
<1>9. CASE StartRemove(d)
  <2>1. /\ pc[d] = "bound" /\ lost' = lost /\ d \notin lost /\ holder' = holder
        /\ \/ pc'[d] = "free" /\ demo.irq /\ d[1] = "ctrl"
           \/ pc'[d] = "put1"
    BY <1>2, <1>3, <1>9 DEF StartRemove, AfterLines
  <2> QED
    BY <1>1, <1>3, <2>1
<1>10. CASE FreeIrq(d)
  <2>1. /\ pc[d] = "free" /\ lost' = lost /\ d \notin lost /\ holder' = holder /\ L = 1
        /\ pc'[d] = "put1"
    BY <1>1, <1>2, <1>3, <1>10 DEF FreeIrq
  <2> QED
    BY <1>1, <1>3, <2>1
<1>11. CASE PutLine(d, 1)
  <2>1. /\ pc[d] = "put1" /\ lost' = lost /\ d \notin lost
        /\ holder'[<<d, 1>>] = Nobody /\ (L = 2 => holder'[<<d, 2>>] = holder[<<d, 2>>])
        /\ pc'[d] = IF L = 2 THEN "put2" ELSE "unbound"
    <3>1. 1 < L <=> L = 2
      BY <1>1
    <3> QED
      BY <1>2, <1>3, <1>11, <3>1 DEF PutLine
  <2> QED
    BY <1>1, <1>3, <2>1
<1>12. CASE PutLine(d, 2)
  <2>1. /\ pc[d] = "put2" /\ L = 2 /\ lost' = lost /\ d \notin lost
        /\ holder'[<<d, 2>>] = Nobody /\ holder'[<<d, 1>>] = holder[<<d, 1>>]
        /\ pc'[d] = "unbound"
    <3>1. pc[d] = "put2" /\ L = 2
      BY <1>3, <1>12 DEF PutLine
    <3>2. ~(2 < L)
      BY <3>1
    <3> QED
      BY <1>2, <1>3, <1>12, <3>1, <3>2 DEF PutLine
  <2> QED
    BY <1>1, <1>3, <2>1
<1> QED
  BY <1>5, <1>6, <1>7, <1>8, <1>9, <1>10, <1>11, <1>12 DEF DriverStep

(* Nobody but the devices disturbs their lines: others take only lines     *)
(* that are free.                                                          *)
LEMMA LineStep == TypeOK /\ LineInv /\ [Next]_vars => LineInv'
<1> SUFFICES ASSUME TypeOK, LineInv, [Next]_vars, NEW e \in Bound PROVE DeviceLines(e)'
  BY SameWorld DEF LineInv
<1>1. DeviceLines(e) /\ UNCHANGED <<demo, tree>>
  BY SameWorld DEF LineInv
<1>2. UNCHANGED <<demo, pc, holder, lost>> => DeviceLines(e)'
  BY <1>1 DEF DeviceLines, Holds
<1>3. CASE InitStep
  BY <1>2, <1>3 DEF InitStep, RegisterClass, RegisterBus, AllocCtrl, RegisterCtrl,
       CtrlAttr, AllocPort, RegisterPort, AllocChild, RegisterChild, ChildAttr, OnlyInit
<1>4. ASSUME NEW k \in Kinds, LoadDriver(k) \/ UnloadDriver(k) \/ DriverGone(k)
      PROVE  DeviceLines(e)'
  BY <1>1, <1>2, <1>4 DEF LoadDriver, UnloadDriver, DriverGone
<1>5. ASSUME NEW d \in Bound, DriverStep(d) PROVE DeviceLines(e)'
  BY <1>1, <1>5, OtherDevicesKeep, OwnLinesStep
<1>6. ASSUME NEW l \in Lines, OtherTakes(l) \/ OtherGives(l) PROVE DeviceLines(e)'
  <2>1. /\ UNCHANGED <<pc, lost>> /\ holder[l] \in {Nobody, Other}
        /\ \E h \in {Nobody, Other} : holder' = [holder EXCEPT ![l] = h]
    BY <1>6 DEF OtherTakes, OtherGives
  <2>2. ASSUME NEW i \in DOMAIN demo[e[1]]
        PROVE  /\ holder'[<<e, i>>] \in {e, Other, Nobody}
               /\ holder'[<<e, i>>] = e <=> holder[<<e, i>>] = e
    BY <1>1, <2>1, DevicesArePairs DEF TypeOK, DeviceLines
  <2> QED
    BY <1>1, <2>1, <2>2 DEF DeviceLines, Holds
<1>7. ASSUME NEW n \in Nodes, Plug(n) \/ ThreadStep(n) PROVE DeviceLines(e)'
  BY <1>1, <1>2, <1>7 DEF Plug, ThreadStep, ThreadStart, ThreadFind, ThreadRead, ThreadSend
<1>8. CASE UNCHANGED vars
  BY <1>2, <1>8 DEF vars
<1> QED
  BY <1>3, <1>4, <1>5, <1>6, <1>7, <1>8 DEF Next

----------------------------------------------------------------------------
(* Where there is a device that probe or remove is at, or an interrupt     *)
(* thread, the driver module is loaded and the bus module's init is over.  *)
LEMMA ActiveMeansLoaded ==
  ASSUME LoadInv, IrqInv
  PROVE  /\ \A d \in Bound : pc[d] # "unbound" => driver[d[1]] # "out" /\ step = "in"
         /\ \A n \in Nodes : irq[n] \/ thread[n] # "idle" \/ said[n] # "nothing" => step = "in"
<1>1. \A d \in Bound : pc[d] # "unbound" => driver[d[1]] # "out" /\ step = "in"
  BY DevicesArePairs DEF LoadInv
<1>2. ASSUME NEW n \in Nodes, irq[n] PROVE step = "in"
  BY <1>1, <1>2, DevicesArePairs DEF IrqInv, NodeIrq
<1> QED
  BY <1>1, <1>2 DEF LoadInv, IrqInv, NodeIrq

(* Every step keeps that only loaded drivers have devices.                 *)
LEMMA LoadStep == TypeOK /\ LoadInv /\ IrqInv /\ [Next]_vars => LoadInv'
<1> SUFFICES ASSUME TypeOK, LoadInv, IrqInv, [Next]_vars PROVE LoadInv'
  OBVIOUS
<1>1. UNCHANGED <<demo, tree>> /\ Nodes' = Nodes /\ Bound' = Bound
  BY SameWorld
<1>2. \A d \in Bound : driver[d[1]] = "out" => pc[d] = "unbound"
  BY DEF LoadInv
<1>3. UNCHANGED <<step, driver, pc, said>> => LoadInv'
  BY <1>1 DEF LoadInv
<1>4. CASE InitStep
  <2>1. step # "in" /\ UNCHANGED <<driver, pc, said>>
    BY <1>4 DEF InitStep, RegisterClass, RegisterBus, AllocCtrl, RegisterCtrl,
       CtrlAttr, AllocPort, RegisterPort, AllocChild, RegisterChild, ChildAttr, OnlyInit, irqVars
  <2> QED
    BY <1>1, <2>1 DEF LoadInv
<1>5. ASSUME NEW k \in Kinds, LoadDriver(k) \/ UnloadDriver(k) \/ DriverGone(k) PROVE LoadInv'
  <2>1. /\ UNCHANGED <<step, pc, said>> /\ step = "in"
        /\ \E l \in {"in", "leaving", "out"} :
             /\ driver' = [driver EXCEPT ![k] = l]
             /\ l = "out" => \A d \in Bound : d[1] = k => pc[d] = "unbound"
    BY <1>5 DEF LoadDriver, UnloadDriver, DriverGone, OnlyDrivers, initVars, irqVars, LoadInv
  <2>2. ASSUME NEW d \in Bound, driver'[d[1]] = "out" PROVE pc[d] = "unbound"
    BY <1>2, <2>1, <2>2, DevicesArePairs DEF TypeOK
  <2> QED
    BY <1>1, <2>1, <2>2 DEF LoadInv
<1>6. ASSUME NEW d \in Bound, DriverStep(d) PROVE LoadInv'
  <2>1. driver[d[1]] # "out" /\ step = "in"
    <3>1. driver[d[1]] = "in" \/ pc[d] # "unbound"
      BY <1>6 DEF DriverStep, StartProbe, GetFirst, GetSecond, RequestIrq, StartRemove, FreeIrq,
         PutLine
    <3>2. driver[d[1]] # "out"
      BY <1>2, <3>1
    <3> QED
      BY <3>2, DevicesArePairs DEF LoadInv
  <2>2. UNCHANGED <<step, driver>> /\ \A e \in Bound \ {d} : pc'[e] = pc[e]
    BY <1>6 DEF DriverStep, StartProbe, GetFirst, GetSecond, RequestIrq, StartRemove, FreeIrq,
       PutLine, Step, OnlyDrivers, initVars, TypeOK
  <2> QED
    BY <1>1, <1>2, <2>1, <2>2 DEF LoadInv
<1>7. ASSUME NEW l \in Lines, OtherTakes(l) \/ OtherGives(l) PROVE LoadInv'
  BY <1>3, <1>7 DEF OtherTakes, OtherGives, OnlyDrivers, initVars, irqVars
<1>8. ASSUME NEW n \in Nodes, Plug(n) \/ ThreadStep(n) PROVE LoadInv'
  <2>1. UNCHANGED <<step, driver, pc>>
    BY <1>8 DEF Plug, ThreadStep, ThreadStart, ThreadFind, ThreadRead, ThreadSend, OnlyDrivers,
       initVars
  <2>2. said' = said \/ thread[n] # "idle"
    BY <1>8 DEF Plug, ThreadStep, ThreadStart, ThreadFind, ThreadRead, ThreadSend
  <2>3. said' = said \/ step = "in"
    BY <2>2, ActiveMeansLoaded
  <2> QED
    BY <1>1, <1>3, <2>1, <2>3 DEF LoadInv
<1>9. CASE UNCHANGED vars
  BY <1>3, <1>9 DEF vars, initVars, irqVars
<1> QED
  BY <1>4, <1>5, <1>6, <1>7, <1>8, <1>9 DEF Next

(* A step of a driver, as a node's interrupt sees it.                      *)
LEMMA DriverAtNode ==
  ASSUME TypeOK, LineInv, NEW n \in Nodes, NodeIrq(n), NEW d \in Bound, DriverStep(d)
  PROVE  /\ UNCHANGED <<registered, high, thread>>
         /\ \/ /\ irq'[n] = irq[n] /\ edge'[n] = edge[n] /\ said'[n] = said[n]
               /\ irq[n] => pc'[<<"ctrl", n>>] \in {"bound", "free"}
            \/ /\ irq'[n] => demo.irq /\ pc'[<<"ctrl", n>>] = "bound"
               /\ thread[n] = "idle" /\ said'[n] = "nothing"
            \/ ~irq'[n] /\ thread[n] = "idle" /\ said'[n] = said[n]
<1> DEFINE c == <<"ctrl", n>>
<1>1. /\ c \in Bound /\ c[1] = "ctrl" /\ c[2] = n
      /\ irq[n] => demo.irq /\ pc[c] \in {"bound", "free"}
      /\ thread[n] # "idle" => irq[n]
  BY DevicesArePairs DEF NodeIrq
<1>2. UNCHANGED <<registered, high, thread>>
  BY DEF DriverStep, StartProbe, GetFirst, GetSecond, RequestIrq, StartRemove, FreeIrq, PutLine,
     OnlyDrivers, initVars, irqVars
<1>3. pc[d] \in {"request", "free"} => demo.irq /\ d[1] = "ctrl"
  BY DEF LineInv, DeviceLines
<1>4. CASE d # c
  <2>1. pc'[c] = pc[c]
    BY <1>1, <1>4 DEF DriverStep, StartProbe, GetFirst, GetSecond, RequestIrq, StartRemove,
       FreeIrq, PutLine, Step, TypeOK
  <2>2. pc[d] \in {"request", "free"} => d[2] # n
    BY <1>3, <1>4, DevicesArePairs
  <2>3. irq'[n] = irq[n] /\ edge'[n] = edge[n] /\ said'[n] = said[n]
    <3>1. CASE RequestIrq(d)
      BY <2>2, <3>1 DEF RequestIrq, TypeOK
    <3>2. CASE FreeIrq(d)
      BY <2>2, <3>2 DEF FreeIrq, TypeOK
    <3>3. CASE ~RequestIrq(d) /\ ~FreeIrq(d)
      BY <3>3 DEF DriverStep, StartProbe, GetFirst, GetSecond, StartRemove, PutLine, irqVars
    <3> QED
      BY <3>1, <3>2, <3>3
  <2> QED
    BY <1>1, <1>2, <2>1, <2>3
<1>5. CASE d = c
  <2>1. \A l : Step(c, l) => pc'[c] = l
    BY <1>1 DEF Step, TypeOK
  <2>2. CASE StartProbe(c) \/ GetFirst(c) \/ GetSecond(c) \/ PutLine(c, 1) \/ PutLine(c, 2)
    <3>1. pc[c] \in {"unbound", "get1", "get2", "put1", "put2"} /\ UNCHANGED <<irq, edge, said>>
      BY <2>2 DEF StartProbe, GetFirst, GetSecond, PutLine, irqVars
    <3> QED
      BY <1>1, <1>2, <3>1
  <2>3. CASE RequestIrq(c)
    <3>1. pc[c] = "request" /\ demo.irq /\ said'[n] = "nothing"
      BY <1>1, <1>3, <1>5, <2>3 DEF RequestIrq, TypeOK
    <3>2. ~irq[n] /\ thread[n] = "idle"
      BY <1>1, <3>1
    <3>3. irq'[n] => pc'[c] = "bound"
      BY <1>1, <2>1, <2>3, <3>2 DEF RequestIrq, TypeOK
    <3> QED
      BY <1>2, <3>1, <3>2, <3>3
  <2>4. CASE StartRemove(c)
    <3>1. UNCHANGED <<irq, edge, said>>
      BY <2>4 DEF StartRemove, irqVars
    <3>2. irq[n] => pc'[c] = "free"
      BY <1>1, <2>1, <2>4 DEF StartRemove, AfterLines
    <3> QED
      BY <1>2, <3>1, <3>2
  <2>5. CASE FreeIrq(c)
    <3>1. ~irq'[n] /\ thread[n] = "idle" /\ said' = said
      BY <1>1, <2>5 DEF FreeIrq, TypeOK
    <3> QED
      BY <1>2, <3>1
  <2> QED
    BY <1>5, <2>2, <2>3, <2>4, <2>5 DEF DriverStep
<1> QED
  BY <1>4, <1>5

(* A step of the plug or of an interrupt thread, as a node sees it.        *)
LEMMA ThreadAtNode ==
  ASSUME TypeOK, NEW n \in Nodes, NEW m \in Nodes, Plug(m) \/ ThreadStep(m)
  PROVE  /\ UNCHANGED <<demo, pc, registered, irq>>
         /\ \/ /\ UNCHANGED <<high[n], edge[n], said[n], thread[n]>>
            \/ /\ edge'[n] = irq[n] /\ UNCHANGED <<said[n], thread[n]>>
            \/ /\ irq[n] /\ thread[n] = "idle" /\ thread'[n] = "find"
               /\ said'[n] = said[n]
            \/ /\ thread[n] = "find" /\ UNCHANGED <<high[n], edge[n], said[n]>>
               /\ \/ Plugged = {} /\ thread'[n] = "idle"
                  \/ Plugged # {} /\ thread'[n] = "read"
            \/ /\ thread[n] = "read" /\ UNCHANGED <<high[n], edge[n], said[n]>>
               /\ thread'[n] = Event(n)
            \/ /\ thread[n] \in {"REMOVE", "ADD"} /\ UNCHANGED <<high[n], edge[n]>>
               /\ thread'[n] = "idle" /\ said'[n] = thread[n]
<1>1. UNCHANGED <<demo, pc, registered, irq>>
  BY DEF Plug, ThreadStep, ThreadStart, ThreadFind, ThreadRead, ThreadSend, OnlyDrivers, initVars
<1>2. CASE m # n
  <2>1. UNCHANGED <<high[n], edge[n], said[n], thread[n]>>
    BY <1>2 DEF Plug, ThreadStep, ThreadStart, ThreadFind, ThreadRead, ThreadSend, TypeOK
  <2> QED
    BY <1>1, <2>1
<1>3. CASE m = n
  <2>1. CASE Plug(n)
    BY <1>1, <2>1 DEF Plug, TypeOK
  <2>2. CASE ThreadStart(n)
    BY <1>1, <2>2 DEF ThreadStart, TypeOK
  <2>3. CASE ThreadFind(n)
    BY <1>1, <2>3 DEF ThreadFind, TypeOK
  <2>4. CASE ThreadRead(n)
    BY <1>1, <2>4 DEF ThreadRead, Event, TypeOK
  <2>5. CASE ThreadSend(n)
    BY <1>1, <2>5 DEF ThreadSend, TypeOK
  <2> QED
    BY <1>3, <2>1, <2>2, <2>3, <2>4, <2>5 DEF ThreadStep
<1> QED
  BY <1>2, <1>3

(* free_irq waits for the thread; while there is one, init is over, so     *)
(* that the device it has found stays on the bus.                          *)
LEMMA IrqStep == TypeOK /\ LineInv /\ LoadInv /\ IrqInv /\ [Next]_vars => IrqInv'
<1> SUFFICES ASSUME TypeOK, LineInv, LoadInv, IrqInv, [Next]_vars, NEW n \in Nodes
             PROVE  NodeIrq(n)'
  BY SameWorld DEF IrqInv
<1>1. NodeIrq(n) /\ UNCHANGED <<demo, tree>> /\ Bound' = Bound
  BY SameWorld DEF IrqInv
<1>2. registered' = registered => Plugged' = Plugged
  BY <1>1 DEF Plugged, OnBus, NameOf
<1>3. UNCHANGED <<registered, pc, irq, thread, said>> => NodeIrq(n)'
  BY <1>1, <1>2 DEF NodeIrq
<1>4. CASE InitStep
  <2>1. step # "in" /\ UNCHANGED <<pc, irq, thread, said>>
    BY <1>4 DEF InitStep, RegisterClass, RegisterBus, AllocCtrl, RegisterCtrl,
       CtrlAttr, AllocPort, RegisterPort, AllocChild, RegisterChild, ChildAttr, OnlyInit, irqVars
  <2>2. ~irq[n] /\ thread[n] = "idle" /\ said[n] = "nothing"
    BY <2>1, ActiveMeansLoaded
  <2> QED
    BY <2>1, <2>2 DEF NodeIrq
<1>5. ASSUME NEW k \in Kinds, LoadDriver(k) \/ UnloadDriver(k) \/ DriverGone(k)
      PROVE  NodeIrq(n)'
  BY <1>3, <1>5 DEF LoadDriver, UnloadDriver, DriverGone, OnlyDrivers, initVars, irqVars
<1>6. ASSUME NEW d \in Bound, DriverStep(d) PROVE NodeIrq(n)'
  BY <1>1, <1>2, <1>6, DriverAtNode DEF NodeIrq
<1>7. ASSUME NEW l \in Lines, OtherTakes(l) \/ OtherGives(l) PROVE NodeIrq(n)'
  BY <1>3, <1>7 DEF OtherTakes, OtherGives, OnlyDrivers, initVars, irqVars
<1>8. ASSUME NEW m \in Nodes, Plug(m) \/ ThreadStep(m) PROVE NodeIrq(n)'
  BY <1>1, <1>2, <1>8, ThreadAtNode DEF NodeIrq, Event
<1>9. CASE UNCHANGED vars
  BY <1>3, <1>9 DEF vars, initVars, irqVars
<1> QED
  BY <1>4, <1>5, <1>6, <1>7, <1>8, <1>9 DEF Next

(* A change of the line leaves an edge; the thread that takes the edge     *)
(* reads the line after it.                                                *)
LEMMA EventStep == TypeOK /\ LineInv /\ IrqInv /\ EventInv /\ [Next]_vars => EventInv'
<1> SUFFICES ASSUME TypeOK, LineInv, IrqInv, EventInv, [Next]_vars, NEW n \in Nodes
             PROVE  NodeEvent(n)'
  BY SameWorld DEF EventInv
<1>1. NodeIrq(n) /\ NodeEvent(n)
  BY DEF IrqInv, EventInv
<1>2. UNCHANGED irqVars => NodeEvent(n)'
  BY <1>1 DEF NodeEvent, Event, irqVars
<1>3. CASE InitStep
  BY <1>2, <1>3 DEF InitStep, RegisterClass, RegisterBus, AllocCtrl, RegisterCtrl,
       CtrlAttr, AllocPort, RegisterPort, AllocChild, RegisterChild, ChildAttr, OnlyInit
<1>4. ASSUME NEW k \in Kinds, LoadDriver(k) \/ UnloadDriver(k) \/ DriverGone(k)
      PROVE  NodeEvent(n)'
  BY <1>2, <1>4 DEF LoadDriver, UnloadDriver, DriverGone
<1>5. ASSUME NEW d \in Bound, DriverStep(d) PROVE NodeEvent(n)'
  BY <1>1, <1>5, DriverAtNode DEF NodeEvent, Event
<1>6. ASSUME NEW l \in Lines, OtherTakes(l) \/ OtherGives(l) PROVE NodeEvent(n)'
  BY <1>2, <1>6 DEF OtherTakes, OtherGives
<1>7. ASSUME NEW m \in Nodes, Plug(m) \/ ThreadStep(m) PROVE NodeEvent(n)'
  BY <1>1, <1>7, ThreadAtNode DEF NodeIrq, NodeEvent, Event
<1>8. CASE UNCHANGED vars
  BY <1>2, <1>8 DEF vars, irqVars
<1> QED
  BY <1>3, <1>4, <1>5, <1>6, <1>7, <1>8 DEF Next

----------------------------------------------------------------------------
(* The invariant holds before anything is loaded.                          *)
LEMMA InitIInv == Init => IInv
<1> SUFFICES ASSUME Init PROVE IInv
  OBVIOUS
<1>1. tree \in Seq([name : STRING, child : STRING]) /\ tree # <<>>
  BY DtBusAssumption DEF Init
<1>2. Len(tree) \in Nat \ {0} /\ Nodes = 1..Len(tree)
  BY <1>1 DEF Nodes
<1>3. TypeOK
  BY <1>2 DEF Init, TypeOK
<1>4. InitInv /\ NameInv
  <2>1. OfNode = {} /\ OnBusOfNode = {} /\ Shared = {}
    BY DEF Init, OfNode, OnBusOfNode, Shared
  <2>2. \A k \in Devices, n \in Nodes : ~Made(k, n, {})
    BY <1>2, <2>1 DEF Init, Made
  <2>3. InitInv
    BY <1>2, <2>1, <2>2 DEF Init, InitInv
  <2>4. 1..(1 - 1) = {}
    OBVIOUS
  <2> QED
    BY <2>3, <2>4 DEF Init, NameInv, NamedSteps
<1>5. LineInv
  <2> SUFFICES ASSUME NEW d \in Bound PROVE DeviceLines(d)
    BY DEF LineInv
  <2>1. \A i \in DOMAIN demo[d[1]] : holder[<<d, i>>] = Nobody /\ Nobody # d
    BY DevicesArePairs DEF Init
  <2> QED
    BY <2>1 DEF Init, DeviceLines, Holds
<1>6. LoadInv /\ IrqInv /\ EventInv
  BY DevicesArePairs DEF Init, LoadInv, IrqInv, NodeIrq, EventInv, NodeEvent
<1> QED
  BY <1>3, <1>4, <1>5, <1>6 DEF IInv

(* The invariant of the device tree buses, for any device trees and any    *)
(* number of lines that somebody else holds.                               *)
THEOREM InvariantHolds == Spec => []IInv
<1>1. IInv /\ [Next]_vars => IInv'
  BY TypeStep, InitInvStep, NameStep, LineStep, LoadStep, IrqStep, EventStep DEF IInv
<1> QED
  BY InitIInv, <1>1, PTL DEF Spec

(* Every state of init, of the drivers and of the threads has its type.    *)
THEOREM TypeCorrect == Spec => []TypeOK
<1>1. IInv => TypeOK
  BY DEF IInv
<1> QED
  BY InvariantHolds, <1>1, PTL

(* What an init that failed leaves behind: of the node it failed at        *)
(* nothing but the name of its port, wherever it failed; the nodes before; *)
(* after "return -ENOMEM" or the oops, everything.  The memory of a        *)
(* registered device is never freed.                                       *)
THEOREM FailedInitLeavesEarlierNodes == Spec => []FailedInitLeaves
<1>1. ASSUME IInv PROVE FailedInitLeaves
  <2>1. /\ Len(tree) \in Nat \ {0} /\ Nodes = 1..Len(tree) /\ node \in 1..(Len(tree) + 1)
        /\ allocated \subseteq Devices \X Nodes
        /\ registered \subseteq {Class, Bus} \cup (Devices \X Nodes)
    BY <1>1, DataTyped, TypeParts DEF IInv, InitTyped
  <2>2. /\ Before \subseteq Devices \X Nodes
        /\ \A k \in Devices, n \in Nodes :
             <<k, n>> \in Before <=> n < node /\ (k = "child" => tree[n].child # "none")
    <3>1. UNION {Objects(n) : n \in 1..(node - 1)} = Devices \X (1..(node - 1))
      BY DEF Objects, Devices
    <3>2. \A n \in Nodes : n \in 1..(node - 1) <=> n < node
      BY <2>1
    <3>3. \A n \in 1..(node - 1) : n \in Nodes
      BY <2>1
    <3> QED
      BY <3>1, <3>2, <3>3 DEF Before
  <2>3. ASSUME NEW k \in Devices, NEW n \in Nodes
        PROVE  /\ <<k, n>> \in allocated <=> <<k, n>> \in Before \/ (n = node /\ k \in OfNode)
               /\ <<k, n>> \in registered <=> <<k, n>> \in Before \/ (n = node /\ k \in OnBusOfNode)
    BY <1>1, <2>2 DEF IInv, InitInv, Made
  <2>4. registered \cap {Class, Bus} = Shared
    BY <1>1 DEF IInv, InitInv
  <2>5. ASSUME step = "failed"
        PROVE  registered = Before /\ allocated = Before
    <3>1. OfNode = {} /\ OnBusOfNode = {} /\ Shared = {}
      BY <2>5 DEF OfNode, OnBusOfNode, Shared
    <3>2. \A o \in Devices \X Nodes :
            /\ o \in allocated <=> o \in Before
            /\ o \in registered <=> o \in Before
      BY <2>3, <3>1
    <3> QED
      BY <2>1, <2>2, <2>4, <3>1, <3>2
  <2>6. ASSUME step \in {"nomem", "oops"}
        PROVE  /\ registered = Before \cup {Class, Bus} \cup {<<k, node>> : k \in OnBusOfNode}
               /\ allocated = Before \cup {<<"ctrl", node>>, <<"port", node>>}
    <3>1. /\ OfNode = {"ctrl", "port"} /\ Shared = {Class, Bus} /\ node \in Nodes
          /\ OnBusOfNode \subseteq Devices
      BY <1>1, <2>1, <2>6 DEF OfNode, OnBusOfNode, Shared, IInv, InitInv, Devices
    <3>2. \A o \in Devices \X Nodes :
            /\ o \in allocated <=> o \in Before \cup {<<"ctrl", node>>, <<"port", node>>}
            /\ o \in registered <=> o \in Before \cup {<<k, node>> : k \in OnBusOfNode}
      BY <2>3, <3>1
    <3>3. {<<"ctrl", node>>, <<"port", node>>} \subseteq Devices \X Nodes
      BY <3>1 DEF Devices
    <3>4. {<<k, node>> : k \in OnBusOfNode} \subseteq Devices \X Nodes
      BY <3>1
    <3>5. {Class, Bus} \subseteq registered
      BY <2>4, <3>1
    <3> QED
      BY <2>1, <2>2, <3>2, <3>3, <3>4, <3>5
  <2>7. registered \ {Class, Bus} \subseteq allocated
    <3>1. OnBusOfNode \subseteq OfNode
      BY DEF OnBusOfNode, OfNode, Devices
    <3>2. \A o \in Devices \X Nodes : o \in registered => o \in allocated
      BY <2>3, <3>1
    <3> QED
      BY <2>1, <3>2
  <2>8. step = "failed" => registered = Before /\ allocated = Before /\ named \in {1..(node - 1), 1..node}
    BY <1>1, <2>5 DEF IInv, NameInv
  <2>9. ASSUME step = "nomem"
        PROVE  /\ registered = Before \cup {Class, Bus, <<"ctrl", node>>, <<"port", node>>}
               /\ allocated = registered \ {Class, Bus} /\ named = 1..node
    <3>1. {<<k, node>> : k \in OnBusOfNode} = {<<"ctrl", node>>, <<"port", node>>}
      BY <2>9 DEF OnBusOfNode
    <3>2. \A o \in Devices \X Nodes : o \notin {Class, Bus}
      BY DEF Devices, Class, Bus
    <3>3. registered = Before \cup {Class, Bus, <<"ctrl", node>>, <<"port", node>>}
      BY <2>6, <2>9, <3>1
    <3>4. allocated = registered \ {Class, Bus}
      BY <2>1, <2>6, <2>9, <3>2, <3>3
    <3>5. named = 1..node
      BY <1>1, <2>9 DEF IInv, NameInv, NamedSteps
    <3> QED
      BY <3>3, <3>4, <3>5
  <2>10. ASSUME step = "oops"
         PROVE  /\ registered = Before \cup {Class, Bus, <<"ctrl", node>>}
                /\ allocated = Before \cup {<<"ctrl", node>>, <<"port", node>>}
                /\ named = 1..node
    <3>1. {<<k, node>> : k \in OnBusOfNode} = {<<"ctrl", node>>}
      BY <2>10 DEF OnBusOfNode
    <3>2. named = 1..node
      BY <1>1, <2>10 DEF IInv, NameInv, NamedSteps
    <3> QED
      BY <2>6, <2>10, <3>1, <3>2
  <2> QED
    BY <2>7, <2>8, <2>9, <2>10 DEF FailedInitLeaves
<1> QED
  BY InvariantHolds, <1>1, PTL

(* A bound device has its lines, a device that is not bound has none but   *)
(* the one its failed probe lost, and a thread has the line it reads.      *)
THEOREM LinesAreInTheRightHands == Spec => []LinesAreAccountedFor
<1>1. ASSUME IInv PROVE LinesAreAccountedFor
  <2>1. ASSUME NEW d \in Bound
        PROVE  /\ pc[d] = "bound" => \A l \in LinesOf(d) : holder[l] = d
               /\ d \in lost => pc[d] \in {"unbound", "get1"}
               /\ (pc[d] = "unbound" /\ d \notin lost) => \A l \in LinesOf(d) : holder[l] # d
    <3>1. DeviceLines(d)
      BY <1>1 DEF IInv, LineInv
    <3> QED
      BY <3>1 DEF DeviceLines, Holds, LinesOf
  <2>2. ASSUME NEW n \in Nodes, irq[n] \/ thread[n] # "idle"
        PROVE  holder[<<<<"ctrl", n>>, 1>>] = <<"ctrl", n>>
    <3>1. pc[<<"ctrl", n>>] \in {"bound", "free"}
      BY <1>1, <2>2 DEF IInv, IrqInv, NodeIrq
    <3>2. <<"ctrl", n>> \in Bound /\ 1 \in DOMAIN demo["ctrl"]
      BY <1>1, DataTyped, DevicesArePairs DEF IInv, Kinds
    <3> QED
      BY <1>1, <3>1, <3>2 DEF IInv, LineInv, DeviceLines, Holds
  <2>3. \A k \in Kinds, d \in Bound : (driver[k] = "out" /\ d[1] = k) => pc[d] = "unbound"
    BY <1>1 DEF IInv, LoadInv
  <2> QED
    BY <2>1, <2>2, <2>3 DEF LinesAreAccountedFor
<1> QED
  BY InvariantHolds, <1>1, PTL

(* When no edge waits and the thread is idle, the last event that it sent  *)
(* is what the line says.                                                  *)
THEOREM LastEventIsRight == Spec => []LastEventTellsLine
<1>1. IInv => LastEventTellsLine
  BY DEF IInv, EventInv, NodeEvent, Event, LastEventTellsLine
<1> QED
  BY InvariantHolds, <1>1, PTL
=============================================================================
