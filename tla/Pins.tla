-------------------------------- MODULE Pins --------------------------------
(***************************************************************************)
(* The pin and GPIO controllers of part8: dummy_set_mux, which writes the  *)
(* function of a group's pins into the MUX registers without a lock, and   *)
(* the gpio_chip operations, which read and write back the CFG and DAT     *)
(* registers under chip->lock; with the drivers that use them, the LED     *)
(* driver and its two files among them.                                    *)
(*                                                                         *)
(* The registers of one kind are what they hold that is not 0: a set of    *)
(* <<pin, value>>, two bits for each pin in MUX, one in CFG and DAT.       *)
(* Loading a register takes a copy of a whole bank, storing it writes the  *)
(* whole bank.  A process is a CPU in one call of a controller.            *)
(*                                                                         *)
(* The pinctrl core (external): select finds the function's group by name, *)
(* takes every pin of it for the device and calls set_mux with no lock     *)
(* held; the pins are free again when the device is unbound, and the       *)
(* register keeps its value.  The GPIO core: a line has one holder, and    *)
(* asking for a line that does not exist fails.  It never asks the pinctrl *)
(* core, since dummy_gpio_request does not.  Probe and remove of the two   *)
(* controllers are left out: both are bound.                               *)
(***************************************************************************)
EXTENDS Naturals, Sequences

CONSTANTS
  Procs,  \* the processes
  Cells   \* the GPIO specifiers in the device tree: <<bank, pin of the bank>>

ASSUME PinsAssumption == Cells \subseteq Nat \X Nat /\ "free" \notin Procs

VARIABLES
  variant,  \* which of the two pin controllers: "groups" or "pins"
  mux,      \* the MUX registers
  cfg, dat, \* the CFG and DAT registers
  lock,     \* chip->lock: who holds it, or "free"
  pc,       \* each process: where it is
  arg,      \* each process: what it was called with
  word,     \* each process: the bank it loaded
  muxed,    \* the functions selected and not given up
  holder,   \* who holds each line: "led", "other" or "nobody"
  led_pin,  \* the LED driver's global: the line its files work on
  bound,    \* the LED driver: "no" | "probing" | "yes"
  files,    \* whether its files exist
  raced,    \* history: the functions whose set_mux overlapped another's
  out, high,\* history: the lines last told to be outputs, to be high
  removed   \* history: the LED driver has been unbound before

muxVars == <<mux, muxed, raced>>
regVars == <<cfg, dat, lock, out, high>>
ledVars == <<holder, led_pin, bound, files, removed>>
vars == <<variant, pc, arg, word, muxVars, regVars, ledVars>>

NGpio == 32
Pins == 0..(NGpio - 1)
PIN2BANK(p) == p \div 16
Bank(p) == {q \in Pins : PIN2BANK(q) = PIN2BANK(p)}
None == NGpio + 1

Load(reg, p) == {e \in reg : e[1] \in Bank(p)}
Store(reg, p, w, v) ==
  (reg \ Load(reg, p)) \cup {e \in w : e[1] # p} \cup (IF v = 0 THEN {} ELSE {<<p, v>>})

(* dummy_pinmux_functions.  The fourth is called usb_group by mistake.     *)
Function(n, g, m) == [name |-> n, group_name |-> g, mux_select |-> m]
Functions ==
  { Function("uart_func", "uart_group", 1), Function("i2c_func", "i2c_group", 2),
    Function("spi_func", "spi_group", 3), Function("usb_group", "usb_group", 1) }

(* The groups: a table, or one for every pin, called after the pin (no     *)
(* pin has the name of a function's group).                                *)
Groups ==
  IF variant = "groups"
    THEN { [name |-> "uart_group", pins |-> <<0, 1>>], [name |-> "i2c_group", pins |-> <<2, 3>>],
           [name |-> "spi_group", pins |-> <<4, 5, 6, 7>>], [name |-> "usb_pins", pins |-> <<8, 9>>] }
    ELSE { [name |-> "the pin's name", pins |-> <<p>>] : p \in Pins }

Calls == {"input", "output", "set_low", "set_high", "get"}

TypeOK ==
  /\ variant \in {"groups", "pins"}
  /\ mux \subseteq Pins \X (1..3) /\ cfg \subseteq Pins \X {1} /\ dat \subseteq Pins \X {1}
  /\ lock \in Procs \cup {"free"}
  /\ pc \in [Procs -> {"idle", "mux_load", "mux_store", "lock", "load", "store", "unlock", "files"}]
  /\ muxed \subseteq Functions /\ raced \subseteq Functions
  /\ holder \in [Pins -> {"led", "other", "nobody"}]
  /\ led_pin \in Pins \cup {None} /\ bound \in {"no", "probing", "yes"}
  /\ files \in BOOLEAN /\ removed \in BOOLEAN
  /\ out \subseteq Pins /\ high \subseteq Pins

(* Both controllers allocate their registers zeroed.                       *)
Init ==
  /\ variant \in {"groups", "pins"}
  /\ mux = {} /\ cfg = {} /\ dat = {}
  /\ lock = "free"
  /\ pc = [c \in Procs |-> "idle"]
  /\ arg = [c \in Procs |-> <<>>] /\ word = [c \in Procs |-> {}]
  /\ muxed = {} /\ raced = {}
  /\ holder = [p \in Pins |-> "nobody"]
  /\ led_pin = None /\ bound = "no" /\ files = FALSE /\ removed = FALSE
  /\ out = {} /\ high = {}

(* A process comes back: what it loaded and was called with is forgotten.  *)
Return(c) ==
  /\ pc' = [pc EXCEPT ![c] = "idle"]
  /\ arg' = [arg EXCEPT ![c] = <<>>]
  /\ word' = [word EXCEPT ![c] = {}]

Goto(c, l) == pc' = [pc EXCEPT ![c] = l]

----------------------------------------------------------------------------
(* Pin control.  arg is the function and the pins still to be set.         *)
InSetMux == {c \in Procs : pc[c] \in {"mux_load", "mux_store"}}

(* A device with this function in its default state is probed; a function  *)
(* without its group makes the probe fail.                                 *)
Select(c, f, g) ==
  /\ pc[c] = "idle" /\ f \notin muxed
  /\ g.name = f.group_name
  /\ arg' = [arg EXCEPT ![c] = <<f, g.pins>>]
  /\ muxed' = muxed \cup {f}
  /\ raced' = IF InSetMux = {} THEN raced \ {f}
              ELSE raced \cup {f} \cup {arg[d][1] : d \in InSetMux}
  /\ Goto(c, "mux_load")
  /\ UNCHANGED <<variant, mux, word, regVars, ledVars>>

(* dummy_set_mux, a pin at a time.                                         *)
SetMuxLoad(c) ==
  /\ pc[c] = "mux_load"
  /\ word' = [word EXCEPT ![c] = Load(mux, Head(arg[c][2]))]
  /\ Goto(c, "mux_store")
  /\ UNCHANGED <<variant, arg, muxVars, regVars, ledVars>>

SetMuxNext(c) ==
  /\ IF Len(arg[c][2]) = 1
       THEN Return(c)
       ELSE /\ arg' = [arg EXCEPT ![c][2] = Tail(@)]
            /\ word' = [word EXCEPT ![c] = {}]
            /\ Goto(c, "mux_load")
  /\ UNCHANGED <<variant, muxed, raced, regVars, ledVars>>

(* Mutation: the store forgets the fields of the other pins.               *)
SetMuxStoreOnly(c) ==
  /\ pc[c] = "mux_store"
  /\ mux' = Store(mux, Head(arg[c][2]), {}, arg[c][1].mux_select)
  /\ SetMuxNext(c)

SetMuxStore(c) ==
  /\ pc[c] = "mux_store"
  /\ mux' = Store(mux, Head(arg[c][2]), word[c], arg[c][1].mux_select)
  /\ SetMuxNext(c)

(* The device is unbound: dummy_free changes no register.                  *)
GiveUp(f) ==
  /\ f \in muxed /\ \A c \in InSetMux : arg[c][1] # f
  /\ muxed' = muxed \ {f} /\ raced' = raced \ {f}
  /\ UNCHANGED <<variant, mux, pc, arg, word, regVars, ledVars>>

----------------------------------------------------------------------------
(* The gpio_chip operations: direction_input and direction_output on CFG,  *)
(* set and get on DAT.  arg is the call and the pin.                       *)
Call(c, what, p) ==
  /\ pc[c] = "idle"
  /\ arg' = [arg EXCEPT ![c] = <<what, p>>]
  /\ Goto(c, "lock")
  /\ UNCHANGED <<variant, word, muxVars, regVars>>

(* Mutation: spin_lock_irqsave is missing.                                 *)
LockNothing(c) ==
  /\ pc[c] = "lock"
  /\ Goto(c, "load")
  /\ UNCHANGED <<variant, lock, arg, word, cfg, dat, out, high, muxVars, ledVars>>

Lock(c) ==
  /\ pc[c] = "lock" /\ lock = "free"
  /\ lock' = c
  /\ Goto(c, "load")
  /\ UNCHANGED <<variant, arg, word, cfg, dat, out, high, muxVars, ledVars>>

OnCfg(c) == arg[c][1] \in {"input", "output"}

Read(c) ==
  /\ pc[c] = "load"
  /\ word' = [word EXCEPT ![c] = Load(IF OnCfg(c) THEN cfg ELSE dat, arg[c][2])]
  /\ Goto(c, IF arg[c][1] = "get" THEN "unlock" ELSE "store")
  /\ UNCHANGED <<variant, arg, muxVars, regVars, ledVars>>

(* The word with the pin's bit set or cleared, stored.  direction_output   *)
(* leaves the value it is given alone.                                     *)
Write(c) ==
  LET p == arg[c][2]
      bit == IF arg[c][1] \in {"output", "set_high"} THEN 1 ELSE 0
      Tell(lines) == IF bit = 1 THEN lines \cup {p} ELSE lines \ {p}
  IN
  /\ pc[c] = "store"
  /\ IF OnCfg(c)
       THEN /\ cfg' = Store(cfg, p, word[c], bit) /\ out' = Tell(out)
            /\ UNCHANGED <<dat, high>>
       ELSE /\ dat' = Store(dat, p, word[c], bit) /\ high' = Tell(high)
            /\ UNCHANGED <<cfg, out>>
  /\ Goto(c, "unlock")
  /\ UNCHANGED <<variant, arg, word, lock, muxVars, ledVars>>

(* What dummy_gpio_get makes of its copy of DAT: it shifts the pin's bit   *)
(* down and does not mask the bits above it.                               *)
Answer(c) == \E e \in word[c] : e[1] >= arg[c][2]

Unlock(c) ==
  /\ pc[c] = "unlock"
  /\ lock' = IF lock = c THEN "free" ELSE lock
  /\ IF Len(arg[c]) = 3
       THEN Goto(c, "files") /\ UNCHANGED <<arg, word>>
       ELSE Return(c)
  /\ UNCHANGED <<variant, cfg, dat, out, high, muxVars, ledVars>>

----------------------------------------------------------------------------
(* Who holds a line.  dummy_pinctrl_gpio_of_xlate lets the pin after the   *)
(* last one through; the core refuses it.                                  *)
Xlate(cell) == 16 * cell[1] + cell[2]
Available(cell) == Xlate(cell) <= NGpio /\ Xlate(cell) \in Pins /\ holder[Xlate(cell)] = "nobody"

(* Mutation: the LED driver looks the line up without requesting it.       *)
LedProbeNoRequest(c, cell) ==
  /\ bound = "no" /\ Xlate(cell) \in Pins
  /\ bound' = "probing" /\ led_pin' = Xlate(cell)
  /\ pc[c] = "idle"
  /\ arg' = [arg EXCEPT ![c] = <<"output", Xlate(cell), "probe">>]
  /\ Goto(c, "lock")
  /\ UNCHANGED <<variant, word, holder, files, removed, muxVars, regVars>>

(* The LED driver's probe: gpiod_get, gpiod_direction_output, the files.   *)
LedProbe(c, cell) ==
  /\ bound = "no" /\ Available(cell)
  /\ holder' = [holder EXCEPT ![Xlate(cell)] = "led"]
  /\ bound' = "probing" /\ led_pin' = Xlate(cell)
  /\ pc[c] = "idle"
  /\ arg' = [arg EXCEPT ![c] = <<"output", Xlate(cell), "probe">>]
  /\ Goto(c, "lock")
  /\ UNCHANGED <<variant, word, files, removed, muxVars, regVars>>

(* The error pointer goes into led_pin; the core ignores calls with it.    *)
LedProbeFails(cell) ==
  /\ bound = "no" /\ ~Available(cell)
  /\ led_pin' = None
  /\ UNCHANGED <<variant, pc, arg, word, holder, bound, files, removed, muxVars, regVars>>

LedFiles(c) ==
  /\ pc[c] = "files"
  /\ Return(c)
  /\ files' = TRUE /\ bound' = "yes"
  /\ UNCHANGED <<variant, holder, led_pin, removed, muxVars, regVars>>

(* direct_store and value_store.                                           *)
LedStore(c) ==
  /\ files /\ led_pin # None
  /\ \E what \in Calls \ {"get"} : Call(c, what, led_pin)
  /\ UNCHANGED ledVars

(* remove puts the line and leaves the files and led_pin.                  *)
LedRemove ==
  /\ bound = "yes"
  /\ holder' = [holder EXCEPT ![led_pin] = "nobody"]
  /\ bound' = "no" /\ removed' = TRUE
  /\ UNCHANGED <<variant, pc, arg, word, led_pin, files, muxVars, regVars>>

OtherGets(cell) ==
  /\ Available(cell)
  /\ holder' = [holder EXCEPT ![Xlate(cell)] = "other"]
  /\ UNCHANGED <<variant, pc, arg, word, led_pin, bound, files, removed, muxVars, regVars>>

OtherCalls(c, p) ==
  /\ holder[p] = "other"
  /\ \E what \in Calls : Call(c, what, p)
  /\ UNCHANGED ledVars

OtherPuts(p) ==
  /\ holder[p] = "other"
  /\ holder' = [holder EXCEPT ![p] = "nobody"]
  /\ UNCHANGED <<variant, pc, arg, word, led_pin, bound, files, removed, muxVars, regVars>>

----------------------------------------------------------------------------
Next ==
  \/ \E c \in Procs, f \in Functions : \E g \in Groups : Select(c, f, g)
  \/ \E f \in Functions : GiveUp(f)
  \/ \E c \in Procs :
       \/ SetMuxLoad(c) \/ SetMuxStore(c)
       \/ Lock(c) \/ Read(c) \/ Write(c) \/ Unlock(c)
       \/ LedFiles(c) \/ LedStore(c)
       \/ \E cell \in Cells : LedProbe(c, cell)
       \/ \E p \in Pins : OtherCalls(c, p)
  \/ \E cell \in Cells : LedProbeFails(cell) \/ OtherGets(cell)
  \/ \E p \in Pins : OtherPuts(p)
  \/ LedRemove

Spec == Init /\ [][Next]_vars

----------------------------------------------------------------------------
(* dummy_set_mux loads and stores a register of sixteen pins without a     *)
(* lock.  A function that is selected has every pin of its group, unless   *)
(* its set_mux overlapped another's: one that came before or comes after   *)
(* must not take a pin from it.                                            *)
MuxIsSelected ==
  \A f \in muxed \ raced :
    (\A c \in InSetMux : arg[c][1] # f) =>
      \A g \in {h \in Groups : h.name = f.group_name} :
        \A i \in DOMAIN g.pins : <<g.pins[i], f.mux_select>> \in mux

(* chip->lock makes the read-modify-write of a shared register atomic: CFG *)
(* and DAT hold for every line what that line was last told, whatever is   *)
(* told to the other lines of its bank at the same time; and a get that is *)
(* about to give the lock back answers low only if the line still is.      *)
LinesKeepWhatTheyWereTold ==
  /\ cfg = out \X {1} /\ dat = high \X {1}
  /\ \A c \in Procs : (pc[c] = "unlock" /\ arg[c][1] = "get" /\ ~Answer(c)) => arg[c][2] \notin high

(* Whenever the LED driver is bound, for the first time or once more, its  *)
(* files drive the line it holds; they are not there before its first      *)
(* probe.  Between a remove and the next probe, left behind with led_pin,  *)
(* they may drive a line that somebody else was given since.               *)
LedDrivesItsOwnLine ==
  bound # "no" \/ (files /\ ~removed) => led_pin \in Pins /\ holder[led_pin] = "led"
=============================================================================
