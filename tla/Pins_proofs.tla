----------------------------- MODULE Pins_proofs -----------------------------
(***************************************************************************)
(* The controllers of the board: those of the pins and GPIOs, for any      *)
(* number of processes and any specifiers in the device tree, and, in the  *)
(* last part, those of the SPI buses, for any devices, rates and FIFO.     *)
(***************************************************************************)
EXTENDS Pins, SpiState, Integers, TLAPS

----------------------------------------------------------------------------
(* A pin is one of those that share its register word.                     *)
LEMMA PinIsInItsBank == \A p \in Pins : p \in Bank(p)
  BY DEF Bank

(* In a register of single bits, storing a word that was loaded and is     *)
(* still the register changes the bit of one pin only.                     *)
LEMMA StoreLoaded ==
  ASSUME NEW lines, NEW reg, reg = lines \X {1}, NEW p \in Pins, NEW v \in {0, 1}
  PROVE  Store(reg, p, Load(reg, p), v) = (IF v = 1 THEN lines \cup {p} ELSE lines \ {p}) \X {1}
  BY PinIsInItsBank DEF Store, Load

(* The fields of the other pins after a store: as they are in the word, in *)
(* its bank, and as they were, in another.                                 *)
LEMMA StoreKeeps ==
  ASSUME NEW reg, NEW p \in Pins, NEW w, NEW v, NEW q, NEW x, q # p, <<q, x>> \in reg,
         q \in Bank(p) => <<q, x>> \in w
  PROVE  <<q, x>> \in Store(reg, p, w, v)
  BY DEF Store, Load

(* The pin's own field gets the value.                                     *)
LEMMA StoreSets ==
  ASSUME NEW reg, NEW p, NEW w, NEW v \in Nat \ {0}
  PROVE  <<p, v>> \in Store(reg, p, w, v)
  BY DEF Store

(* A register holds fields of pins, whatever word is stored.               *)
LEMMA StoreTyped ==
  ASSUME NEW reg, NEW p \in Pins, NEW w, NEW v \in 1..3, reg \subseteq Pins \X (1..3),
         w \subseteq Pins \X (1..3)
  PROVE  Store(reg, p, w, v) \subseteq Pins \X (1..3)
  BY DEF Store, Load

----------------------------------------------------------------------------
(* The inductive invariant.                                                *)

(* The pins of the group a function names, and those a call still has to   *)
(* set.                                                                    *)
PinsOf(f) == UNION {{g.pins[i] : i \in DOMAIN g.pins} : g \in {h \in Groups : h.name = f.group_name}}
Left(c) == {arg[c][2][i] : i \in DOMAIN arg[c][2]}

(* What a process has in hand, where it is.                                *)
InCall(c) == pc[c] \in {"lock", "load", "store", "unlock", "files"}

Calling ==
  /\ arg = [c \in Procs |-> arg[c]] /\ word = [c \in Procs |-> word[c]]
  /\ \A c \in InSetMux :
       /\ {1, 2} \subseteq DOMAIN arg[c]
       /\ \E f \in Functions : arg[c][1] = f /\ Left(c) \subseteq PinsOf(f)
       /\ arg[c][2] \in Seq(Pins) /\ arg[c][2] # <<>>
  /\ \A c \in Procs : /\ pc[c] = "mux_store" => word[c] \subseteq Pins \X (1..3)
                      /\ InCall(c) => arg[c][1] \in Calls /\ arg[c][2] \in Pins

(* chip->lock is held from before the load until after the store.          *)
Locked == \A c \in Procs : pc[c] \in {"load", "store", "unlock"} <=> lock = c

(* So a word in hand is the register still.                                *)
Registers ==
  /\ cfg = out \X {1} /\ dat = high \X {1}
  /\ \A c \in Procs :
       /\ pc[c] = "store" => /\ arg[c][1] # "get"
                             /\ word[c] = Load(IF OnCfg(c) THEN cfg ELSE dat, arg[c][2])
       /\ pc[c] = "unlock" /\ arg[c][1] = "get" => word[c] = Load(dat, arg[c][2])

(* A function in the making that is not raced is alone.                    *)
Alone ==
  \A c \in InSetMux :
    /\ arg[c][1] \in muxed
    /\ \A d \in InSetMux \ {c} : arg[c][1] # arg[d][1] /\ arg[c][1] \in raced

(* A pin of a function that is not raced, once set, is in the register and *)
(* in every copy of its bank.                                              *)
Selected ==
  \A f \in muxed \ raced : \A p \in PinsOf(f) :
    \/ \E c \in InSetMux : arg[c][1] = f /\ p \in Left(c)
    \/ /\ <<p, f.mux_select>> \in mux
       /\ \A c \in Procs : pc[c] = "mux_store" /\ p \in Bank(Head(arg[c][2]))
                             => <<p, f.mux_select>> \in word[c]

(* One process at most is in the LED driver's probe, and the driver holds  *)
(* its line from there on until it is unbound.                             *)
InProbe(c) == pc[c] = "files" \/ (InCall(c) /\ Len(arg[c]) = 3)

Led ==
  /\ bound # "no" => led_pin \in Pins /\ holder[led_pin] = "led"
  /\ files /\ ~removed => bound = "yes"
  /\ \A c \in Procs : InProbe(c) => /\ bound = "probing"
                                    /\ \A d \in Procs \ {c} : ~InProbe(d)

IInv == TypeOK /\ Calling /\ Locked /\ Registers /\ Alone /\ Selected /\ Led

----------------------------------------------------------------------------
(* The tables: each function has a group of its own, or none at all.       *)
LEMMA TablesMatch ==
  /\ \A f, g \in Functions : f # g => f.group_name # g.group_name
  /\ \A f \in Functions :
       /\ f.group_name \in {"uart_group", "i2c_group", "spi_group", "usb_group"}
       /\ f.mux_select \in 1..3
  /\ \A g \in Groups : /\ g.name # "usb_group"
                       /\ g.name = "uart_group" => g.pins = <<0, 1>>
                       /\ g.name = "i2c_group" => g.pins = <<2, 3>>
                       /\ g.name = "spi_group" => g.pins = <<4, 5, 6, 7>>
<1>1. \A f, g \in Functions : f # g => f.group_name # g.group_name
  BY DEF Functions, Function
<1>2. \A f \in Functions :
        /\ f.group_name \in {"uart_group", "i2c_group", "spi_group", "usb_group"}
        /\ f.mux_select \in 1..3
  BY DEF Functions, Function
<1>3. ASSUME NEW g \in Groups
      PROVE  /\ g.name # "usb_group"
             /\ g.name = "uart_group" => g.pins = <<0, 1>>
             /\ g.name = "i2c_group" => g.pins = <<2, 3>>
             /\ g.name = "spi_group" => g.pins = <<4, 5, 6, 7>>
  <2>1. CASE variant = "groups"
    BY <2>1 DEF Groups
  <2>2. CASE variant # "groups"
    <3>1. PICK p \in Pins : g = [name |-> "the pin's name", pins |-> <<p>>]
      BY <2>2 DEF Groups
    <3>2. g.name = "the pin's name"
      BY <3>1
    <3> QED
      BY <3>2
  <2> QED
    BY <2>1, <2>2
<1> QED
  BY <1>1, <1>2, <1>3

(* Every group is a sequence of pins.                                      *)
LEMMA GroupsHavePins ==
  ASSUME NEW f \in Functions, NEW g \in Groups, g.name = f.group_name
  PROVE  /\ g.pins \in Seq(Pins) /\ g.pins # <<>>
         /\ PinsOf(f) = {g.pins[i] : i \in DOMAIN g.pins}
<1>1. g.pins \in {<<0, 1>>, <<2, 3>>, <<4, 5, 6, 7>>}
  BY TablesMatch
<1>2. \A h \in Groups : h.name = f.group_name => h.pins = g.pins
  BY TablesMatch
<1>3. PinsOf(f) = {g.pins[i] : i \in DOMAIN g.pins}
  BY <1>2 DEF PinsOf
<1>4. g.pins \in Seq(Pins) /\ g.pins # <<>>
  <2>1. \A q \in {0, 1, 2, 3, 4, 5, 6, 7} : q \in Pins
    BY DEF Pins, NGpio
  <2>2. <<0, 1>> \in Seq(Pins) /\ <<2, 3>> \in Seq(Pins) /\ <<4, 5, 6, 7>> \in Seq(Pins)
    BY <2>1
  <2>3. <<0, 1>> # <<>> /\ <<2, 3>> # <<>> /\ <<4, 5, 6, 7>> # <<>>
    OBVIOUS
  <2> QED
    BY <1>1, <2>2, <2>3
<1> QED
  BY <1>3, <1>4

(* No pin belongs to two functions.                                        *)
LEMMA FunctionsDiffer ==
  \A f, g \in Functions : f # g => PinsOf(f) \cap PinsOf(g) = {}
<1> SUFFICES ASSUME NEW f \in Functions, NEW g \in Functions, f # g,
                    NEW p \in PinsOf(f), p \in PinsOf(g)
             PROVE  FALSE
  OBVIOUS
<1>1. PICK k \in Groups : k.name = f.group_name /\ \E i \in DOMAIN k.pins : p = k.pins[i]
  BY DEF PinsOf
<1>2. PICK l \in Groups : l.name = g.group_name /\ \E i \in DOMAIN l.pins : p = l.pins[i]
  BY DEF PinsOf
<1>3. k.name # l.name
  BY <1>1, <1>2, TablesMatch
<1>4. ASSUME NEW h \in Groups, NEW e \in Functions, h.name = e.group_name,
             NEW i \in DOMAIN h.pins
      PROVE  \/ h.name = "uart_group" /\ h.pins[i] \in {0, 1}
             \/ h.name = "i2c_group" /\ h.pins[i] \in {2, 3}
             \/ h.name = "spi_group" /\ h.pins[i] \in {4, 5, 6, 7}
  <2>1. h.name \in {"uart_group", "i2c_group", "spi_group"}
    BY <1>4, TablesMatch
  <2>2. CASE h.name = "uart_group"
    <3>1. h.pins = <<0, 1>>
      BY <2>2, TablesMatch
    <3> QED
      BY <2>2, <3>1
  <2>3. CASE h.name = "i2c_group"
    <3>1. h.pins = <<2, 3>>
      BY <2>3, TablesMatch
    <3> QED
      BY <2>3, <3>1
  <2>4. CASE h.name = "spi_group"
    <3>1. h.pins = <<4, 5, 6, 7>>
      BY <2>4, TablesMatch
    <3> QED
      BY <2>4, <3>1
  <2> QED
    BY <2>1, <2>2, <2>3, <2>4
<1>5. \A h \in {k, l} : \/ h.name = "uart_group" /\ p \in {0, 1}
                        \/ h.name = "i2c_group" /\ p \in {2, 3}
                        \/ h.name = "spi_group" /\ p \in {4, 5, 6, 7}
  <2>1. \/ k.name = "uart_group" /\ p \in {0, 1}
        \/ k.name = "i2c_group" /\ p \in {2, 3}
        \/ k.name = "spi_group" /\ p \in {4, 5, 6, 7}
    BY <1>1, <1>4
  <2>2. \/ l.name = "uart_group" /\ p \in {0, 1}
        \/ l.name = "i2c_group" /\ p \in {2, 3}
        \/ l.name = "spi_group" /\ p \in {4, 5, 6, 7}
    BY <1>2, <1>4
  <2> QED
    BY <2>1, <2>2
<1> QED
  BY <1>3, <1>5

(* The invariant holds at first.                                           *)
LEMMA IInvInit == Init => IInv
<1> SUFFICES ASSUME Init PROVE IInv
  OBVIOUS
<1>1. TypeOK
  BY DEF Init, TypeOK, None, Pins, NGpio
<1>2. Calling /\ Locked /\ Registers
  BY PinsAssumption DEF Init, Calling, InSetMux, InCall, Locked, Registers
<1>3. Alone /\ Selected /\ Led
  BY DEF Init, Alone, Selected, Led, InSetMux, InProbe, InCall
<1> QED
  BY <1>1, <1>2, <1>3 DEF IInv

----------------------------------------------------------------------------
(* A step of one process that is not in dummy_set_mux, and one of a        *)
(* process that is: each leaves the other half of the invariant alone.     *)
OnlyMoves(c) == \A d \in Procs \ {c} : pc'[d] = pc[d] /\ arg'[d] = arg[d] /\ word'[d] = word[d]

(* The pins of a function depend on the driver only.                       *)
LEMMA SamePins == UNCHANGED variant => \A f : PinsOf(f)' = PinsOf(f)
  BY DEF PinsOf, Groups

(* What the GPIO calls leave alone of the multiplexer...                   *)
LEMMA MuxUntouched ==
  ASSUME IInv, NEW c \in Procs, OnlyMoves(c), UNCHANGED <<variant, muxVars>>,
         pc[c] \notin {"mux_load", "mux_store"}, pc'[c] \notin {"mux_load", "mux_store"}
  PROVE  /\ InSetMux' = InSetMux /\ \A d \in InSetMux : Left(d)' = Left(d) /\ arg'[d] = arg[d]
         /\ Alone' /\ Selected'
<1>1. InSetMux' = InSetMux /\ \A d \in InSetMux : Left(d)' = Left(d) /\ arg'[d] = arg[d]
  BY DEF OnlyMoves, InSetMux, Left
<1>2. Alone'
  BY <1>1 DEF IInv, Alone, muxVars
<1>3. ASSUME NEW d \in Procs, pc'[d] = "mux_store"
      PROVE  pc[d] = "mux_store" /\ arg'[d] = arg[d] /\ word'[d] = word[d]
  BY <1>3 DEF OnlyMoves
<1>4. Selected'
  <2> SUFFICES ASSUME NEW f \in muxed' \ raced', NEW p \in PinsOf(f),
                      \A d \in InSetMux' : ~(arg'[d][1] = f /\ p \in Left(d)')
               PROVE  /\ <<p, f.mux_select>> \in mux'
                      /\ \A d \in Procs : pc'[d] = "mux_store" /\ p \in Bank(Head(arg'[d][2]))
                                            => <<p, f.mux_select>> \in word'[d]
    BY SamePins DEF Selected
  <2>1. UNCHANGED <<mux, muxed, raced>>
    BY DEF muxVars
  <2>2. \A d \in InSetMux : ~(arg[d][1] = f /\ p \in Left(d))
    BY <1>1
  <2> QED
    BY <1>3, <2>1, <2>2 DEF IInv, Selected
<1> QED
  BY <1>1, <1>2, <1>4

(* ...and what set_mux leaves alone of the GPIO controller.                *)
LEMMA GpioUntouched ==
  ASSUME IInv, NEW c \in Procs, OnlyMoves(c), UNCHANGED <<regVars, ledVars>>,
         pc[c] \in {"idle", "mux_load", "mux_store"}, pc'[c] \in {"idle", "mux_load", "mux_store"}
  PROVE  Locked' /\ Registers' /\ Led'
<1>1. UNCHANGED <<cfg, dat, lock, out, high, holder, led_pin, bound, files, removed>>
  BY DEF regVars, ledVars
<1>2. \A d \in Procs : pc'[d] \in {"lock", "load", "store", "unlock", "files"} =>
        d # c /\ pc'[d] = pc[d] /\ arg'[d] = arg[d] /\ word'[d] = word[d]
  BY DEF OnlyMoves
<1>3. Locked'
  BY <1>1, <1>2 DEF IInv, Locked, OnlyMoves
<1>4. Registers'
  BY <1>1, <1>2 DEF IInv, Registers, OnCfg
<1>5. Led'
  BY <1>1, <1>2 DEF IInv, Led, InProbe, InCall
<1> QED
  BY <1>3, <1>4, <1>5

----------------------------------------------------------------------------
(* dummy_set_mux begins with the first pin of the group.                   *)
LEMMA SelectKeeps ==
  ASSUME IInv, NEW c \in Procs, NEW f \in Functions, NEW g \in Groups, Select(c, f, g)
  PROVE  IInv'
<1>1. /\ pc[c] = "idle" /\ pc'[c] = "mux_load" /\ arg'[c] = <<f, g.pins>>
      /\ OnlyMoves(c) /\ c \notin InSetMux /\ InSetMux' = InSetMux \cup {c}
      /\ arg' = [d \in Procs |-> arg'[d]] /\ word' = word
      /\ UNCHANGED <<variant, mux, regVars, ledVars>>
  BY DEF Select, Goto, OnlyMoves, InSetMux, IInv, TypeOK, Calling
<1>2. /\ muxed' = muxed \cup {f} /\ f \notin muxed
      /\ raced' = IF InSetMux = {} THEN raced \ {f}
                  ELSE raced \cup {f} \cup {arg[d][1] : d \in InSetMux}
  BY DEF Select
<1>3. /\ g.pins \in Seq(Pins) /\ g.pins # <<>> /\ PinsOf(f) = {g.pins[i] : i \in DOMAIN g.pins}
  BY GroupsHavePins DEF Select
<1>4. arg'[c][1] = f /\ arg'[c][2] = g.pins /\ {1, 2} \subseteq DOMAIN arg'[c]
  BY <1>1
<1>5. Left(c)' = PinsOf(f) /\ \A d \in InSetMux : d # c /\ Left(d)' = Left(d) /\ arg'[d] = arg[d]
  BY <1>1, <1>3, <1>4 DEF Left, OnlyMoves, InSetMux
<1>6. TypeOK'
  <2>1. raced' \subseteq Functions
    <3>1. \A d \in InSetMux : arg[d][1] \in Functions
      BY DEF IInv, Calling
    <3> QED
      BY <1>2, <3>1 DEF IInv, TypeOK
  <2>2. muxed' \subseteq Functions
    BY <1>2 DEF IInv, TypeOK
  <2>3. pc' \in [Procs -> {"idle", "mux_load", "mux_store", "lock", "load", "store", "unlock",
                          "files"}]
    BY DEF Select, Goto, IInv, TypeOK
  <2> QED
    BY <1>1, <2>1, <2>2, <2>3 DEF IInv, TypeOK, regVars, ledVars
<1>7. Calling'
  <2>1. \A d \in InSetMux' :
          /\ {1, 2} \subseteq DOMAIN arg'[d]
          /\ \E e \in Functions : arg'[d][1] = e /\ Left(d)' \subseteq PinsOf(e)'
          /\ arg'[d][2] \in Seq(Pins) /\ arg'[d][2] # <<>>
    <3>1. \A e : PinsOf(e)' = PinsOf(e)
      BY <1>1, SamePins
    <3>2. ASSUME NEW d \in InSetMux
          PROVE  /\ {1, 2} \subseteq DOMAIN arg'[d]
                 /\ \E e \in Functions : arg'[d][1] = e /\ Left(d)' \subseteq PinsOf(e)'
                 /\ arg'[d][2] \in Seq(Pins) /\ arg'[d][2] # <<>>
      BY <1>5, <3>1, <3>2 DEF IInv, Calling
    <3> QED
      BY <1>1, <1>3, <1>4, <1>5, <3>1, <3>2
  <2>2. \A d \in Procs : /\ pc'[d] = "mux_store" => word'[d] \subseteq Pins \X (1..3)
                         /\ InCall(d)' => arg'[d][1] \in Calls /\ arg'[d][2] \in Pins
    BY <1>1 DEF IInv, Calling, InCall, OnlyMoves
  <2> QED
    BY <1>1, <2>1, <2>2 DEF IInv, Calling
<1>8. Locked' /\ Registers' /\ Led'
  BY <1>1, GpioUntouched
<1>9. Alone'
  BY <1>1, <1>2, <1>4, <1>5 DEF IInv, Alone
<1>10. Selected'
  <2> SUFFICES ASSUME NEW e \in muxed' \ raced', NEW p \in PinsOf(e),
                      \A d \in InSetMux' : ~(arg'[d][1] = e /\ p \in Left(d)')
               PROVE  /\ <<p, e.mux_select>> \in mux'
                      /\ \A d \in Procs : pc'[d] = "mux_store" /\ p \in Bank(Head(arg'[d][2]))
                                            => <<p, e.mux_select>> \in word'[d]
    BY <1>1, SamePins DEF Selected
  <2>1. e # f
    BY <1>1, <1>4, <1>5
  <2>2. e \in muxed \ raced
    BY <1>2, <2>1
  <2>3. \A d \in InSetMux : ~(arg[d][1] = e /\ p \in Left(d))
    BY <1>1, <1>5
  <2>4. \A d \in Procs : pc'[d] = "mux_store" => pc[d] = "mux_store" /\ arg'[d] = arg[d]
    BY <1>1 DEF OnlyMoves
  <2> QED
    BY <1>1, <2>2, <2>3, <2>4 DEF IInv, Selected
<1> QED
  BY <1>6, <1>7, <1>8, <1>9, <1>10 DEF IInv

(* A function that is given up is selected no longer.                      *)
LEMMA GiveUpKeeps ==
  ASSUME IInv, NEW f \in Functions, GiveUp(f)
  PROVE  IInv'
<1>1. /\ muxed' = muxed \ {f} /\ raced' = raced \ {f}
      /\ UNCHANGED <<variant, mux, pc, arg, word, cfg, dat, lock, out, high,
                     holder, led_pin, bound, files, removed>>
      /\ \A c \in InSetMux : arg[c][1] # f
  BY DEF GiveUp, regVars, ledVars
<1>2. InSetMux' = InSetMux /\ \A c \in InSetMux : Left(c)' = Left(c)
  BY <1>1 DEF InSetMux, Left
<1>3. TypeOK' /\ Locked' /\ Registers' /\ Led'
  BY <1>1 DEF IInv, TypeOK, Locked, Registers, OnCfg, Led, InProbe, InCall
<1>4. Calling'
  BY <1>1, <1>2, SamePins DEF IInv, Calling, InCall
<1>5. Alone'
  BY <1>1, <1>2 DEF IInv, Alone
<1>6. Selected'
  <2> SUFFICES ASSUME NEW e \in muxed' \ raced', NEW p \in PinsOf(e),
                      \A d \in InSetMux' : ~(arg'[d][1] = e /\ p \in Left(d)')
               PROVE  /\ <<p, e.mux_select>> \in mux'
                      /\ \A d \in Procs : pc'[d] = "mux_store" /\ p \in Bank(Head(arg'[d][2]))
                                            => <<p, e.mux_select>> \in word'[d]
    BY <1>1, SamePins DEF Selected
  <2>1. \A d \in InSetMux : ~(arg[d][1] = e /\ p \in Left(d))
    BY <1>1, <1>2
  <2> QED
    BY <1>1, <2>1 DEF IInv, Selected
<1> QED
  BY <1>3, <1>4, <1>5, <1>6 DEF IInv

(* set_mux loads the register, which others may do as well.                *)
LEMMA SetMuxLoadKeeps ==
  ASSUME IInv, NEW c \in Procs, SetMuxLoad(c)
  PROVE  IInv'
<1> DEFINE h == Head(arg[c][2])
<1>1. /\ pc[c] = "mux_load" /\ pc'[c] = "mux_store" /\ word'[c] = Load(mux, h)
      /\ \A d \in Procs \ {c} : pc'[d] = pc[d] /\ word'[d] = word[d]
      /\ word' = [d \in Procs |-> word'[d]] /\ InSetMux' = InSetMux
      /\ UNCHANGED <<variant, arg, muxVars, regVars, ledVars>>
  BY DEF SetMuxLoad, Goto, InSetMux, IInv, TypeOK, Calling
<1>2. UNCHANGED <<mux, muxed, raced>> /\ \A d \in Procs : Left(d)' = Left(d)
  BY <1>1 DEF muxVars, Left
<1>3. TypeOK'
  <2>1. pc' \in [Procs -> {"idle", "mux_load", "mux_store", "lock", "load", "store", "unlock",
                          "files"}]
    BY DEF SetMuxLoad, Goto, IInv, TypeOK
  <2> QED
    BY <1>1, <1>2, <2>1 DEF IInv, TypeOK, regVars, ledVars
<1>4. Calling'
  <2>1. \A d \in InSetMux' :
          /\ {1, 2} \subseteq DOMAIN arg'[d]
          /\ \E f \in Functions : arg'[d][1] = f /\ Left(d)' \subseteq PinsOf(f)'
          /\ arg'[d][2] \in Seq(Pins) /\ arg'[d][2] # <<>>
    BY <1>1, <1>2, SamePins DEF IInv, Calling, InSetMux
  <2>2. word'[c] \subseteq Pins \X (1..3)
    BY <1>1 DEF Load, IInv, TypeOK
  <2>3. \A d \in Procs : /\ pc'[d] = "mux_store" => word'[d] \subseteq Pins \X (1..3)
                         /\ InCall(d)' => arg'[d][1] \in Calls /\ arg'[d][2] \in Pins
    BY <1>1, <2>2 DEF IInv, Calling, InCall
  <2>4. arg' = [d \in Procs |-> arg'[d]]
    BY <1>1 DEF IInv, Calling
  <2> QED
    BY <1>1, <2>1, <2>3, <2>4 DEF Calling
<1>5. Locked' /\ Registers' /\ Led'
  BY <1>1, GpioUntouched DEF OnlyMoves
<1>6. Alone'
  BY <1>1, <1>2 DEF IInv, Alone
<1>7. Selected'
  <2> SUFFICES ASSUME NEW f \in muxed' \ raced', NEW p \in PinsOf(f),
                      \A d \in InSetMux' : ~(arg'[d][1] = f /\ p \in Left(d)')
               PROVE  /\ <<p, f.mux_select>> \in mux'
                      /\ \A d \in Procs : pc'[d] = "mux_store" /\ p \in Bank(Head(arg'[d][2]))
                                            => <<p, f.mux_select>> \in word'[d]
    BY <1>1, SamePins DEF Selected
  <2>1. \A d \in InSetMux : ~(arg[d][1] = f /\ p \in Left(d))
    BY <1>1, <1>2 DEF InSetMux
  <2>2. /\ <<p, f.mux_select>> \in mux
        /\ \A d \in Procs : pc[d] = "mux_store" /\ p \in Bank(Head(arg[d][2]))
                              => <<p, f.mux_select>> \in word[d]
    BY <1>2, <2>1 DEF IInv, Selected
  <2>3. p \in Bank(h) => <<p, f.mux_select>> \in word'[c]
    BY <1>1, <2>2 DEF Load
  <2> QED
    BY <1>1, <1>2, <2>2, <2>3
<1> QED
  BY <1>3, <1>4, <1>5, <1>6, <1>7 DEF IInv

(* What is in a sequence is its head or in its tail.                       *)
LEMMA HeadAndTail ==
  ASSUME NEW S, NEW s \in Seq(S), s # <<>>
  PROVE  /\ Head(s) \in S /\ Head(s) \in {s[i] : i \in DOMAIN s}
         /\ Len(s) = 1 => {s[i] : i \in DOMAIN s} = {Head(s)}
         /\ Len(s) # 1 => /\ Tail(s) \in Seq(S) /\ Tail(s) # <<>>
                          /\ {s[i] : i \in DOMAIN s}
                               = {Head(s)} \cup {Tail(s)[i] : i \in DOMAIN Tail(s)}
<1>1. Len(s) \in Nat \ {0} /\ DOMAIN s = 1..Len(s) /\ Head(s) = s[1] /\ s[1] \in S
  OBVIOUS
<1>2. CASE Len(s) # 1
  <2>1. Tail(s) \in Seq(S) /\ Len(Tail(s)) = Len(s) - 1 /\ Tail(s) # <<>>
    BY <1>1, <1>2
  <2>2. DOMAIN Tail(s) = 1..(Len(s) - 1) /\ \A i \in 1..(Len(s) - 1) : Tail(s)[i] = s[i + 1]
    BY <1>1, <2>1
  <2>3. \A i \in 2..Len(s) : i - 1 \in 1..(Len(s) - 1) /\ s[i] = Tail(s)[i - 1]
    BY <1>1, <2>2
  <2> DEFINE A == {s[i] : i \in DOMAIN s}
             B == {Tail(s)[i] : i \in DOMAIN Tail(s)}
  <2>4. ASSUME NEW i \in 1..Len(s) PROVE s[i] \in {Head(s)} \cup B
    <3>1. CASE i = 1
      BY <1>1, <3>1
    <3>2. CASE i # 1
      <4>1. i \in 2..Len(s)
        BY <1>1, <3>2
      <4>2. i - 1 \in DOMAIN Tail(s) /\ s[i] = Tail(s)[i - 1]
        BY <2>2, <2>3, <4>1
      <4> QED
        BY <4>2
    <3> QED
      BY <3>1, <3>2
  <2>5. A \subseteq {Head(s)} \cup B
    BY <1>1, <2>4
  <2>6. B \subseteq A /\ Head(s) \in A
    BY <1>1, <2>2
  <2>7. A = {Head(s)} \cup B
    <3> HIDE DEF A, B
    <3> QED
      BY <2>5, <2>6
  <2> QED
    BY <1>1, <1>2, <2>1, <2>7
<1>3. CASE Len(s) = 1
  BY <1>1, <1>3
<1> QED
  BY <1>1, <1>2, <1>3

(* set_mux stores the register, for one pin after the other.               *)
LEMMA SetMuxStoreKeeps ==
  ASSUME IInv, NEW c \in Procs, SetMuxStore(c)
  PROVE  IInv'
<1> DEFINE s == arg[c][2]
           h == Head(s)
<1>1. PICK f \in Functions : arg[c][1] = f /\ Left(c) \subseteq PinsOf(f)
  BY DEF SetMuxStore, IInv, Calling, InSetMux
<1>2. /\ pc[c] = "mux_store" /\ c \in InSetMux
      /\ mux' = Store(mux, h, word[c], f.mux_select)
      /\ UNCHANGED <<variant, muxed, raced, regVars, ledVars>>
  BY <1>1 DEF SetMuxStore, SetMuxNext, InSetMux
<1>3. /\ s \in Seq(Pins) /\ s # <<>> /\ {1, 2} \subseteq DOMAIN arg[c]
      /\ word[c] \subseteq Pins \X (1..3)
  BY <1>2 DEF IInv, Calling
<1>4. h \in Pins /\ h \in Left(c) /\ f.mux_select \in 1..3
  BY <1>3, HeadAndTail, TablesMatch DEF Left
<1>5. /\ OnlyMoves(c) /\ word'[c] = {}
      /\ arg' = [d \in Procs |-> arg'[d]] /\ word' = [d \in Procs |-> word'[d]]
      /\ pc' \in [Procs -> {"idle", "mux_load", "mux_store", "lock", "load", "store", "unlock",
                          "files"}]
  BY DEF SetMuxStore, SetMuxNext, Return, Goto, OnlyMoves, IInv, TypeOK, Calling
<1>6. \/ pc'[c] = "idle" /\ Len(s) = 1
      \/ /\ pc'[c] = "mux_load" /\ Len(s) # 1
         /\ arg'[c][1] = f /\ arg'[c][2] = Tail(s) /\ {1, 2} \subseteq DOMAIN arg'[c]
  BY <1>1, <1>3 DEF SetMuxStore, SetMuxNext, Return, Goto, IInv, TypeOK, Calling
<1>7. \/ /\ InSetMux' = InSetMux \ {c} /\ Left(c) = {h}
      \/ /\ InSetMux' = InSetMux /\ arg'[c][1] = f /\ Left(c) = Left(c)' \cup {h}
         /\ {1, 2} \subseteq DOMAIN arg'[c] /\ arg'[c][2] \in Seq(Pins) /\ arg'[c][2] # <<>>
  <2>1. CASE pc'[c] = "idle" /\ Len(s) = 1
    <3>1. InSetMux' = InSetMux \ {c}
      BY <1>5, <2>1 DEF InSetMux, OnlyMoves
    <3>2. Left(c) = {h}
      BY <1>3, <2>1, HeadAndTail DEF Left
    <3> QED
      BY <3>1, <3>2
  <2>2. CASE /\ pc'[c] = "mux_load" /\ Len(s) # 1
             /\ arg'[c][1] = f /\ arg'[c][2] = Tail(s) /\ {1, 2} \subseteq DOMAIN arg'[c]
    <3>1. InSetMux' = InSetMux
      BY <1>2, <1>5, <2>2 DEF InSetMux, OnlyMoves
    <3>2. Left(c)' = {Tail(s)[i] : i \in DOMAIN Tail(s)}
      BY <2>2 DEF Left
    <3>3. /\ Left(c) = {h} \cup {Tail(s)[i] : i \in DOMAIN Tail(s)}
          /\ Tail(s) \in Seq(Pins) /\ Tail(s) # <<>>
      BY <1>3, <2>2, HeadAndTail DEF Left
    <3> QED
      BY <2>2, <3>1, <3>2, <3>3
  <2> QED
    BY <1>6, <2>1, <2>2
<1>8. \A d \in InSetMux \ {c} : Left(d)' = Left(d) /\ arg'[d] = arg[d]
  BY <1>5 DEF OnlyMoves, Left, InSetMux
<1> HIDE DEF h, s
<1>9. TypeOK'
  <2>1. mux' \subseteq Pins \X (1..3)
    BY <1>2, <1>3, <1>4, StoreTyped DEF IInv, TypeOK
  <2> QED
    BY <1>2, <1>5, <2>1 DEF IInv, TypeOK, regVars, ledVars
<1>10. Calling'
  <2>1. \A e : PinsOf(e)' = PinsOf(e)
    BY <1>2, SamePins
  <2>2. ASSUME NEW d \in InSetMux' \ {c}
        PROVE  /\ {1, 2} \subseteq DOMAIN arg'[d]
               /\ \E e \in Functions : arg'[d][1] = e /\ Left(d)' \subseteq PinsOf(e)'
               /\ arg'[d][2] \in Seq(Pins) /\ arg'[d][2] # <<>>
    <3>1. d \in InSetMux /\ Left(d)' = Left(d) /\ arg'[d] = arg[d]
      BY <1>7, <1>8
    <3> QED
      BY <2>1, <3>1 DEF IInv, Calling
  <2>3. c \in InSetMux' =>
          /\ {1, 2} \subseteq DOMAIN arg'[c]
          /\ \E e \in Functions : arg'[c][1] = e /\ Left(c)' \subseteq PinsOf(e)'
          /\ arg'[c][2] \in Seq(Pins) /\ arg'[c][2] # <<>>
    BY <1>1, <1>7, <2>1
  <2>4. \A d \in Procs : /\ pc'[d] = "mux_store" => word'[d] \subseteq Pins \X (1..3)
                         /\ InCall(d)' => arg'[d][1] \in Calls /\ arg'[d][2] \in Pins
    BY <1>5, <1>6 DEF IInv, Calling, InCall, OnlyMoves
  <2> QED
    BY <1>5, <2>2, <2>3, <2>4 DEF Calling
<1>11. Locked' /\ Registers' /\ Led'
  BY <1>2, <1>5, <1>6, GpioUntouched
<1>12. Alone'
  BY <1>1, <1>2, <1>7, <1>8 DEF IInv, Alone
<1>13. Selected'
  <2> SUFFICES ASSUME NEW e \in muxed \ raced, NEW p \in PinsOf(e),
                      \A d \in InSetMux' : ~(arg'[d][1] = e /\ p \in Left(d)')
               PROVE  /\ <<p, e.mux_select>> \in mux'
                      /\ \A d \in Procs : pc'[d] = "mux_store" /\ p \in Bank(Head(arg'[d][2]))
                                            => <<p, e.mux_select>> \in word'[d]
    BY <1>2, SamePins DEF Selected
  <2>1. \A d \in Procs : pc'[d] = "mux_store" =>
          d # c /\ pc[d] = "mux_store" /\ arg'[d] = arg[d] /\ word'[d] = word[d]
    BY <1>5, <1>6 DEF OnlyMoves
  <2>2. CASE e = f /\ p = h
    <3>1. <<p, e.mux_select>> \in mux'
      BY <1>2, <1>4, <2>2, StoreSets
    <3>2. \A d \in Procs : pc'[d] # "mux_store"
      BY <1>1, <1>2, <2>1, <2>2 DEF IInv, Alone, InSetMux
    <3> QED
      BY <3>1, <3>2
  <2>3. CASE ~(e = f /\ p = h)
    <3>1. \A d \in InSetMux : ~(arg[d][1] = e /\ p \in Left(d))
      BY <1>1, <1>7, <1>8, <2>3
    <3>2. /\ <<p, e.mux_select>> \in mux
          /\ \A d \in Procs : pc[d] = "mux_store" /\ p \in Bank(Head(arg[d][2]))
                                => <<p, e.mux_select>> \in word[d]
      BY <3>1 DEF IInv, Selected
    <3>3. e \in Functions /\ p # h
      BY <1>1, <1>4, <2>3, FunctionsDiffer DEF IInv, TypeOK
    <3>4. <<p, e.mux_select>> \in mux'
      BY <1>2, <1>4, <3>2, <3>3, StoreKeeps DEF h, s
    <3> QED
      BY <2>1, <3>2, <3>4
  <2> QED
    BY <2>2, <2>3
<1> QED
  BY <1>9, <1>10, <1>11, <1>12, <1>13 DEF IInv

----------------------------------------------------------------------------
(* The gpio_chip operations and the LED driver.                            *)

(* The part of the invariant that set_mux and these share.                 *)
LEMMA CallingKept ==
  ASSUME IInv, NEW c \in Procs, OnlyMoves(c), UNCHANGED <<variant, muxVars>>,
         pc[c] \notin {"mux_load", "mux_store"}, pc'[c] \notin {"mux_load", "mux_store"},
         arg' = [d \in Procs |-> arg'[d]], word' = [d \in Procs |-> word'[d]],
         InCall(c)' => arg'[c][1] \in Calls /\ arg'[c][2] \in Pins
  PROVE  Calling'
<1>1. InSetMux' = InSetMux /\ \A d \in InSetMux : Left(d)' = Left(d) /\ arg'[d] = arg[d]
  BY MuxUntouched
<1>2. \A e : PinsOf(e)' = PinsOf(e)
  BY SamePins
<1>3. ASSUME NEW d \in InSetMux'
      PROVE  /\ {1, 2} \subseteq DOMAIN arg'[d]
             /\ \E e \in Functions : arg'[d][1] = e /\ Left(d)' \subseteq PinsOf(e)'
             /\ arg'[d][2] \in Seq(Pins) /\ arg'[d][2] # <<>>
  <2>1. d \in InSetMux /\ Left(d)' = Left(d) /\ arg'[d] = arg[d]
    BY <1>1
  <2> QED
    BY <1>2, <2>1 DEF IInv, Calling
<1>4. \A d \in Procs : /\ pc'[d] = "mux_store" => word'[d] \subseteq Pins \X (1..3)
                       /\ InCall(d)' => arg'[d][1] \in Calls /\ arg'[d][2] \in Pins
  BY DEF IInv, Calling, InCall, OnlyMoves
<1> QED
  BY <1>3, <1>4 DEF Calling

(* A call of a gpio_chip operation, by whoever holds the line.             *)
LEMMA CallKeeps ==
  ASSUME IInv, NEW c \in Procs, NEW what \in Calls, NEW p \in Pins, Call(c, what, p),
         UNCHANGED ledVars
  PROVE  IInv'
<1>1. /\ pc[c] = "idle" /\ pc'[c] = "lock" /\ OnlyMoves(c)
      /\ arg'[c] = <<what, p>> /\ arg' = [d \in Procs |-> arg'[d]]
      /\ word' = [d \in Procs |-> word'[d]]
      /\ UNCHANGED <<variant, muxVars, cfg, dat, lock, out, high, holder, led_pin, bound, files,
                     removed>>
  BY DEF Call, Goto, OnlyMoves, IInv, TypeOK, Calling, regVars, ledVars
<1>2. TypeOK'
  BY <1>1 DEF IInv, TypeOK, Call, Goto, muxVars
<1>3. Calling' /\ Alone' /\ Selected'
  BY <1>1, CallingKept, MuxUntouched
<1>4. Locked' /\ Registers'
  BY <1>1 DEF IInv, Locked, Registers, OnlyMoves, OnCfg
<1>5. Led'
  BY <1>1 DEF IInv, Led, InProbe, InCall, OnlyMoves
<1> QED
  BY <1>2, <1>3, <1>4, <1>5 DEF IInv

(* The LED driver takes its line and calls the controller.                 *)
LEMMA LedProbeKeeps ==
  ASSUME IInv, NEW c \in Procs, NEW cell \in Cells, LedProbe(c, cell)
  PROVE  IInv'
<1> DEFINE p == Xlate(cell)
<1>1. /\ pc[c] = "idle" /\ pc'[c] = "lock" /\ OnlyMoves(c)
      /\ arg'[c] = <<"output", p, "probe">> /\ arg' = [d \in Procs |-> arg'[d]]
      /\ word' = [d \in Procs |-> word'[d]]
      /\ UNCHANGED <<variant, muxVars, cfg, dat, lock, out, high, files, removed>>
  BY DEF LedProbe, Goto, OnlyMoves, IInv, TypeOK, Calling, regVars
<1>2. /\ p \in Pins /\ bound = "no" /\ bound' = "probing" /\ led_pin' = p
      /\ holder' = [holder EXCEPT ![p] = "led"]
  BY DEF LedProbe, Available
<1>3. arg'[c][1] = "output" /\ arg'[c][2] = p /\ Len(arg'[c]) = 3
  BY <1>1
<1> HIDE DEF p
<1>4. TypeOK'
  BY <1>1, <1>2 DEF IInv, TypeOK, LedProbe, Goto, muxVars
<1>5. Calling' /\ Alone' /\ Selected'
  BY <1>1, <1>2, <1>3, CallingKept, MuxUntouched DEF Calls
<1>6. Locked' /\ Registers'
  BY <1>1 DEF IInv, Locked, Registers, OnlyMoves, OnCfg
<1>7. Led'
  BY <1>1, <1>2 DEF IInv, TypeOK, Led, InProbe, InCall, OnlyMoves
<1> QED
  BY <1>4, <1>5, <1>6, <1>7 DEF IInv

(* A GPIO call takes the lock...                                           *)
LEMMA LockKeeps ==
  ASSUME IInv, NEW c \in Procs, Lock(c)
  PROVE  IInv'
<1>1. /\ pc[c] = "lock" /\ pc'[c] = "load" /\ OnlyMoves(c) /\ lock = "free" /\ lock' = c
      /\ UNCHANGED <<variant, arg, word, muxVars, cfg, dat, out, high, holder, led_pin, bound,
                     files, removed>>
  BY DEF Lock, Goto, OnlyMoves, IInv, TypeOK, ledVars
<1>2. TypeOK'
  BY <1>1 DEF IInv, TypeOK, Lock, Goto, muxVars
<1>3. Calling' /\ Alone' /\ Selected'
  BY <1>1, CallingKept, MuxUntouched DEF IInv, Calling, InCall
<1>4. Locked'
  BY <1>1, PinsAssumption DEF IInv, Locked, OnlyMoves
<1>5. Registers'
  BY <1>1 DEF IInv, Registers, OnlyMoves, OnCfg
<1>6. Led'
  BY <1>1 DEF IInv, Led, InProbe, InCall, OnlyMoves
<1> QED
  BY <1>2, <1>3, <1>4, <1>5, <1>6 DEF IInv

(* ...loads the register...                                                *)
LEMMA ReadKeeps ==
  ASSUME IInv, NEW c \in Procs, Read(c)
  PROVE  IInv'
<1>1. /\ pc[c] = "load" /\ OnlyMoves(c)
      /\ pc'[c] = IF arg[c][1] = "get" THEN "unlock" ELSE "store"
      /\ word'[c] = Load(IF OnCfg(c) THEN cfg ELSE dat, arg[c][2])
      /\ word' = [d \in Procs |-> word'[d]]
      /\ UNCHANGED <<variant, arg, muxVars, cfg, dat, lock, out, high, holder, led_pin, bound,
                     files, removed>>
  BY DEF Read, Goto, OnlyMoves, IInv, TypeOK, Calling, regVars, ledVars
<1>2. TypeOK'
  BY <1>1 DEF IInv, TypeOK, Read, Goto, muxVars
<1>3. Calling' /\ Alone' /\ Selected'
  BY <1>1, CallingKept, MuxUntouched DEF IInv, Calling, InCall
<1>4. Locked'
  BY <1>1 DEF IInv, Locked, OnlyMoves
<1>5. Registers'
  BY <1>1 DEF IInv, Registers, OnlyMoves, OnCfg
<1>6. Led'
  BY <1>1 DEF IInv, Led, InProbe, InCall, OnlyMoves
<1> QED
  BY <1>2, <1>3, <1>4, <1>5, <1>6 DEF IInv

(* ...stores it...                                                         *)
LEMMA WriteKeeps ==
  ASSUME IInv, NEW c \in Procs, Write(c)
  PROVE  IInv'
<1> DEFINE p == arg[c][2]
           bit == IF arg[c][1] \in {"output", "set_high"} THEN 1 ELSE 0
           Tell(lines) == IF bit = 1 THEN lines \cup {p} ELSE lines \ {p}
<1>1. /\ pc[c] = "store" /\ pc'[c] = "unlock" /\ OnlyMoves(c)
      /\ UNCHANGED <<variant, arg, word, lock, muxVars, holder, led_pin, bound, files, removed>>
  BY DEF Write, Goto, OnlyMoves, IInv, TypeOK, ledVars
<1>2. IF OnCfg(c)
        THEN /\ cfg' = Store(cfg, p, word[c], bit) /\ out' = Tell(out)
             /\ UNCHANGED <<dat, high>>
        ELSE /\ dat' = Store(dat, p, word[c], bit) /\ high' = Tell(high)
             /\ UNCHANGED <<cfg, out>>
  BY DEF Write
<1>3. p \in Pins /\ bit \in {0, 1} /\ cfg = out \X {1} /\ dat = high \X {1}
      /\ word[c] = Load(IF OnCfg(c) THEN cfg ELSE dat, p)
  BY <1>1 DEF IInv, Calling, InCall, Registers
<1>4. /\ out' \subseteq Pins /\ high' \subseteq Pins
      /\ cfg' = out' \X {1} /\ dat' = high' \X {1}
  <2> HIDE DEF p, bit
  <2>1. Store(cfg, p, Load(cfg, p), bit) = Tell(out) \X {1}
    BY <1>3, StoreLoaded
  <2>5. Store(dat, p, Load(dat, p), bit) = Tell(high) \X {1}
    BY <1>3, StoreLoaded
  <2>2. out \subseteq Pins /\ high \subseteq Pins
    BY DEF IInv, TypeOK
  <2>3. Tell(out) \subseteq Pins /\ Tell(high) \subseteq Pins
    BY <1>3, <2>2
  <2> HIDE DEF Tell
  <2> QED
    BY <1>2, <1>3, <2>1, <2>2, <2>3, <2>5
<1>5. \A d \in Procs \ {c} : pc'[d] \notin {"load", "store", "unlock"}
  BY <1>1 DEF IInv, Locked, OnlyMoves
<1>6. arg[c][1] # "get"
  BY <1>1 DEF IInv, Registers
<1> HIDE DEF p, bit, Tell
<1>7. TypeOK'
  <2>1. cfg' \subseteq Pins \X {1} /\ dat' \subseteq Pins \X {1}
    BY <1>4
  <2> QED
    BY <1>1, <1>4, <2>1 DEF IInv, TypeOK, Write, Goto, muxVars
<1>8. Calling' /\ Alone' /\ Selected'
  BY <1>1, CallingKept, MuxUntouched DEF IInv, Calling, InCall
<1>9. Locked'
  BY <1>1 DEF IInv, Locked, OnlyMoves
<1>10. Registers'
  BY <1>1, <1>4, <1>5, <1>6 DEF Registers
<1>11. Led'
  BY <1>1 DEF IInv, Led, InProbe, InCall, OnlyMoves
<1> QED
  BY <1>7, <1>8, <1>9, <1>10, <1>11 DEF IInv

(* ...and gives the lock back.                                             *)
LEMMA UnlockKeeps ==
  ASSUME IInv, NEW c \in Procs, Unlock(c)
  PROVE  IInv'
<1>1. /\ pc[c] = "unlock" /\ OnlyMoves(c)
      /\ \/ pc'[c] = "files" /\ Len(arg[c]) = 3 /\ arg'[c] = arg[c]
         \/ pc'[c] = "idle" /\ Len(arg[c]) # 3
      /\ arg' = [d \in Procs |-> arg'[d]] /\ word' = [d \in Procs |-> word'[d]]
      /\ UNCHANGED <<variant, muxVars, cfg, dat, out, high, holder, led_pin, bound, files,
                     removed>>
  BY DEF Unlock, Return, Goto, OnlyMoves, IInv, TypeOK, Calling, ledVars
<1>2. lock = c /\ lock' = "free"
  BY <1>1 DEF Unlock, IInv, Locked
<1>3. TypeOK'
  <2>1. pc' \in [Procs -> {"idle", "mux_load", "mux_store", "lock", "load", "store", "unlock",
                          "files"}]
    BY DEF Unlock, Return, Goto, IInv, TypeOK
  <2> QED
    BY <1>1, <1>2, <2>1 DEF IInv, TypeOK, muxVars
<1>4. Calling' /\ Alone' /\ Selected'
  BY <1>1, CallingKept, MuxUntouched DEF IInv, Calling, InCall
<1>5. Locked'
  BY <1>1, <1>2, PinsAssumption DEF IInv, Locked, OnlyMoves
<1>6. Registers'
  BY <1>1 DEF IInv, Registers, OnlyMoves, OnCfg
<1>7. Led'
  BY <1>1 DEF IInv, Led, InProbe, InCall, OnlyMoves
<1> QED
  BY <1>3, <1>4, <1>5, <1>6, <1>7 DEF IInv

(* The LED driver's probe ends with its files.                             *)
LEMMA LedFilesKeeps ==
  ASSUME IInv, NEW c \in Procs, LedFiles(c)
  PROVE  IInv'
<1>1. /\ pc[c] = "files" /\ pc'[c] = "idle" /\ OnlyMoves(c)
      /\ arg' = [d \in Procs |-> arg'[d]] /\ word' = [d \in Procs |-> word'[d]]
      /\ files' = TRUE /\ bound' = "yes"
      /\ UNCHANGED <<variant, muxVars, cfg, dat, lock, out, high, holder, led_pin, removed>>
  BY DEF LedFiles, Return, OnlyMoves, IInv, TypeOK, Calling, regVars
<1>2. TypeOK'
  BY <1>1 DEF IInv, TypeOK, LedFiles, Return, muxVars
<1>3. Calling' /\ Alone' /\ Selected'
  BY <1>1, CallingKept, MuxUntouched DEF InCall
<1>4. Locked' /\ Registers'
  BY <1>1 DEF IInv, Locked, Registers, OnlyMoves, OnCfg
<1>5. Led'
  BY <1>1 DEF IInv, Led, InProbe, InCall, OnlyMoves
<1> QED
  BY <1>2, <1>3, <1>4, <1>5 DEF IInv

(* Where nobody calls a controller, only what is known of the LED may      *)
(* change.                                                                 *)
LEMMA NobodyMoves ==
  ASSUME IInv, UNCHANGED <<variant, pc, arg, word, mux, muxed, raced, cfg, dat, lock, out, high>>
  PROVE  Calling' /\ Locked' /\ Registers' /\ Alone' /\ Selected'
<1>1. InSetMux' = InSetMux /\ \A d \in Procs : Left(d)' = Left(d)
  BY DEF InSetMux, Left
<1>2. \A f : PinsOf(f)' = PinsOf(f)
  BY SamePins
<1>3. Calling'
  <2> SUFFICES ASSUME NEW d \in InSetMux
               PROVE  \E f \in Functions : arg[d][1] = f /\ Left(d)' \subseteq PinsOf(f)'
    BY <1>1 DEF IInv, Calling, InCall
  <2> QED
    BY <1>1, <1>2 DEF IInv, Calling, InSetMux
<1>4. Locked' /\ Registers' /\ Alone'
  BY <1>1 DEF IInv, Alone, Locked, Registers, OnCfg
<1>5. Selected'
  <2> SUFFICES ASSUME NEW f \in muxed \ raced, NEW p \in PinsOf(f),
                      \A d \in InSetMux' : ~(arg[d][1] = f /\ p \in Left(d)')
               PROVE  /\ <<p, f.mux_select>> \in mux
                      /\ \A d \in Procs : pc[d] = "mux_store" /\ p \in Bank(Head(arg[d][2]))
                                            => <<p, f.mux_select>> \in word[d]
    BY <1>2 DEF Selected
  <2> QED
    BY <1>1 DEF IInv, Selected, InSetMux
<1> QED
  BY <1>3, <1>4, <1>5

(* Lines that change hands while nobody calls a controller.                *)
LEMMA HoldersKeep ==
  ASSUME IInv,
         \/ \E cell \in Cells : LedProbeFails(cell) \/ OtherGets(cell)
         \/ \E p \in Pins : OtherPuts(p)
         \/ LedRemove
  PROVE  IInv'
<1>1. UNCHANGED <<variant, pc, arg, word, mux, muxed, raced, cfg, dat, lock, out, high, files>>
  BY DEF LedProbeFails, OtherGets, OtherPuts, LedRemove, muxVars, regVars
<1>2. TypeOK'
  BY <1>1 DEF IInv, TypeOK, LedProbeFails, OtherGets, OtherPuts, LedRemove
<1>3. Led'
  BY <1>1 DEF IInv, TypeOK, Led, InProbe, InCall, LedProbeFails, OtherGets, OtherPuts,
              LedRemove, Available
<1> QED
  BY <1>1, <1>2, <1>3, NobodyMoves DEF IInv

(* Every step keeps the invariant.                                         *)
LEMMA IInvStep == IInv /\ [Next]_vars => IInv'
<1> SUFFICES ASSUME IInv, [Next]_vars PROVE IInv'
  OBVIOUS
<1>1. ASSUME NEW c \in Procs, NEW f \in Functions, NEW g \in Groups, Select(c, f, g) PROVE IInv'
  BY <1>1, SelectKeeps
<1>2. ASSUME NEW f \in Functions, GiveUp(f) PROVE IInv'
  BY <1>2, GiveUpKeeps
<1>3. ASSUME NEW c \in Procs,
             \/ SetMuxLoad(c) \/ SetMuxStore(c)
             \/ Lock(c) \/ Read(c) \/ Write(c) \/ Unlock(c) \/ LedFiles(c)
      PROVE  IInv'
  BY <1>3, SetMuxLoadKeeps, SetMuxStoreKeeps, LockKeeps, ReadKeeps, WriteKeeps, UnlockKeeps,
     LedFilesKeeps
<1>4. ASSUME NEW c \in Procs, LedStore(c) PROVE IInv'
  <2>1. led_pin \in Pins
    BY <1>4 DEF LedStore, IInv, TypeOK
  <2> QED
    BY <1>4, <2>1, CallKeeps DEF LedStore
<1>5. ASSUME NEW c \in Procs, NEW p \in Pins, OtherCalls(c, p) PROVE IInv'
  BY <1>5, CallKeeps DEF OtherCalls
<1>6. ASSUME NEW c \in Procs, NEW cell \in Cells, LedProbe(c, cell) PROVE IInv'
  BY <1>6, LedProbeKeeps
<1>7. CASE \/ \E cell \in Cells : LedProbeFails(cell) \/ OtherGets(cell)
           \/ \E p \in Pins : OtherPuts(p)
           \/ LedRemove
  BY <1>7, HoldersKeep
<1>8. CASE UNCHANGED vars
  <2>1. UNCHANGED <<variant, pc, arg, word, mux, muxed, raced, cfg, dat, lock, out, high, holder,
                    led_pin, bound, files, removed>>
    BY <1>8 DEF vars, muxVars, regVars, ledVars
  <2>2. TypeOK' /\ Led'
    BY <2>1 DEF IInv, TypeOK, Led, InProbe, InCall
  <2> QED
    BY <2>1, <2>2, NobodyMoves DEF IInv
<1> QED
  BY <1>1, <1>2, <1>3, <1>4, <1>5, <1>6, <1>7, <1>8 DEF Next

----------------------------------------------------------------------------
(* Locks, words in hand, selected functions and the LED's line fit         *)
(* together in every state.                                                *)
THEOREM InvariantHolds == Spec => []IInv
  BY IInvInit, IInvStep, PTL DEF Spec

(* Every reachable state is well typed.                                    *)
THEOREM TypeCorrect == Spec => []TypeOK
<1>1. IInv => TypeOK
  BY DEF IInv
<1> QED
  BY <1>1, InvariantHolds, PTL

(* A function that is selected has every pin of its group, unless its      *)
(* set_mux overlapped another's: whatever the other processes select, give *)
(* up and store back afterwards.                                           *)
THEOREM SelectedFunctionsKeepTheirPins == Spec => []MuxIsSelected
<1>1. ASSUME IInv, NEW f \in muxed \ raced, \A c \in InSetMux : arg[c][1] # f,
             NEW g \in Groups, g.name = f.group_name, NEW i \in DOMAIN g.pins
      PROVE  <<g.pins[i], f.mux_select>> \in mux
  <2>1. g.pins[i] \in PinsOf(f)
    BY <1>1 DEF PinsOf
  <2> QED
    BY <1>1, <2>1 DEF IInv, Selected
<1>2. IInv => MuxIsSelected
  BY <1>1 DEF MuxIsSelected
<1> QED
  BY <1>2, InvariantHolds, PTL

(* Under chip->lock, for any number of processes: the registers hold what  *)
(* every line was last told, and a get answers low only if the line is.    *)
THEOREM RegistersAreNotTorn == Spec => []LinesKeepWhatTheyWereTold
<1>1. ASSUME IInv, NEW c \in Procs, pc[c] = "unlock", arg[c][1] = "get", arg[c][2] \in high
      PROVE  Answer(c)
  <2>1. arg[c][2] \in Pins /\ word[c] = Load(dat, arg[c][2]) /\ dat = high \X {1}
    BY <1>1 DEF IInv, Calling, InCall, Registers
  <2>2. <<arg[c][2], 1>> \in word[c]
    BY <1>1, <2>1, PinIsInItsBank DEF Load
  <2>3. arg[c][2] >= arg[c][2]
    BY <2>1 DEF Pins, NGpio
  <2> QED
    BY <2>2, <2>3 DEF Answer
<1>2. IInv => LinesKeepWhatTheyWereTold
  BY <1>1 DEF IInv, Registers, LinesKeepWhatTheyWereTold
<1> QED
  BY <1>2, InvariantHolds, PTL

(* The LED's files drive the line the driver holds whenever it is bound.   *)
THEOREM FilesDriveTheLed == Spec => []LedDrivesItsOwnLine
<1>1. IInv => LedDrivesItsOwnLine
  BY DEF IInv, Led, LedDrivesItsOwnLine
<1> QED
  BY <1>1, InvariantHolds, PTL

-----------------------------------------------------------------------------
(* The SPI drivers.                                                        *)

Spi == INSTANCE Spi

(* The least of two numbers.                                               *)
LEMMA LeastOfTwo ==
  ASSUME NEW a \in Int, NEW b \in Int
  PROVE  Spi!Min({a, b}) = IF a <= b THEN a ELSE b
  BY DEF Spi!Min

(* A set of integers that holds 30 and, with each positive number of it,   *)
(* the one before, holds 0.                                                *)
LEMMA Descends ==
  ASSUME NEW P \in SUBSET Int, 30 \in P,
         \A k \in Int : 1 <= k /\ k <= 30 /\ k \in P => k - 1 \in P
  PROVE  0 \in P
<1>1. 24 \in P
  OBVIOUS
<1>2. 16 \in P
  BY <1>1
<1>3. 8 \in P
  BY <1>2
<1> QED
  BY <1>3

(* order_base_2 of a rate is one of the exponents considered, and its      *)
(* power of two is not below the rate: among the exponents that are large  *)
(* enough one has none before it.                                          *)
LEMMA Order2Fits ==
  ASSUME NEW n \in 1..Spi!HzMax
  PROVE  Spi!Order2(n) \in 0..30 /\ n <= 2^Spi!Order2(n)
<1> DEFINE P == {k \in 0..30 : n <= 2^k}
<1>1. 30 \in P
  BY DEF Spi!HzMax
<1>2. ASSUME \A k \in P : k # 0 /\ k - 1 \in P PROVE FALSE
  <2>1. \A k \in Int : 1 <= k /\ k <= 30 /\ k \in P => k - 1 \in P
    BY <1>2
  <2>2. P \in SUBSET Int
    OBVIOUS
  <2> HIDE DEF P
  <2> QED
    BY <1>1, <1>2, <2>1, <2>2, Descends
<1>3. PICK k \in P : k = 0 \/ k - 1 \notin P
  BY <1>2
<1>4. \A j \in 0..30 : 2^j \in Int
  OBVIOUS
<1>5. 2^k >= n /\ (k = 0 \/ 2^(k - 1) < n)
  BY <1>3, <1>4
<1> QED
  BY <1>5 DEF Spi!Order2

(* DIV_ROUND_UP: the quotient times the divisor is not below the dividend. *)
LEMMA RoundsUp ==
  ASSUME NEW n \in Nat \ {0}, NEW d \in Nat \ {0}
  PROVE  Spi!RoundUp(n, d) \in 1..n /\ n <= Spi!RoundUp(n, d) * d
  BY DEF Spi!RoundUp

(* The divider transfer_one computes: one that CLK_CTL can say, and never  *)
(* one that leaves the clock above what was asked for, if CDR1 can divide  *)
(* by that much at all.                                                    *)
LEMMA DividerDivides ==
  ASSUME NEW rate \in 1..Spi!HzMax, NEW hz \in 1..Spi!HzMax
  PROVE  /\ Spi!Divider(rate, hz) \in [by : {"CDR1", "CDR2"}, div : Nat \ {0}]
         /\ Spi!RoundUp(rate, hz) <= 2^15 => rate <= Spi!Divider(rate, hz).div * hz
<1> DEFINE n == Spi!RoundUp(rate, hz)
<1> DEFINE m == Spi!RoundUp(n, 2)
<1>0. rate \in Nat \ {0} /\ hz \in Nat \ {0} /\ Spi!HzMax \in Nat
  BY DEF Spi!HzMax
<1>1. n \in 1..rate /\ n <= Spi!HzMax /\ rate <= n * hz
  BY <1>0, RoundsUp
<1>2. m \in Nat \ {0} /\ n <= m * 2
  BY <1>1, RoundsUp
<1>3. Spi!Order2(n) \in 0..30 /\ n <= 2^Spi!Order2(n)
  BY <1>0, <1>1, Order2Fits
<1>4. ASSUME NEW d \in Nat, n <= d PROVE rate <= d * hz
  BY <1>0, <1>1, <1>4
<1> HIDE DEF n, m
<1>5. CASE m <= 256
  <2>1. Spi!Divider(rate, hz) = [by |-> "CDR2", div |-> 2 * m]
    BY <1>5 DEF Spi!Divider, n, m
  <2> QED
    BY <2>1, <1>2, <1>4
<1>6. CASE ~(m <= 256)
  <2>1. Spi!Divider(rate, hz) = [by |-> "CDR1", div |-> 2^Spi!Min({15, Spi!Order2(n)})]
    BY <1>6 DEF Spi!Divider, n, m
  <2>2. Spi!Min({15, Spi!Order2(n)}) = IF 15 <= Spi!Order2(n) THEN 15 ELSE Spi!Order2(n)
    BY <1>3, LeastOfTwo
  <2>3. 2^15 = 32768 /\ \A k \in 0..30 : 2^k \in Int
    OBVIOUS
  <2>4. 2^Spi!Min({15, Spi!Order2(n)}) \in Nat \ {0}
    <3>1. CASE 15 <= Spi!Order2(n)
      BY <2>2, <2>3, <3>1
    <3>2. CASE ~(15 <= Spi!Order2(n))
      <4>1. n \in Nat \ {0}
        BY <1>1
      <4>2. 2^Spi!Order2(n) \in Int /\ n <= 2^Spi!Order2(n)
        BY <1>3, <2>3
      <4> QED
        BY <2>2, <3>2, <4>1, <4>2
    <3> QED
      BY <3>1, <3>2
  <2>5. n <= 2^15 => n <= 2^Spi!Min({15, Spi!Order2(n)})
    BY <1>3, <2>2
  <2> QED
    BY <2>1, <2>4, <2>5, <1>4 DEF n
<1> QED
  BY <1>5, <1>6

----------------------------------------------------------------------------
(* A FIFO with n bytes of c.                                               *)
LEMMA BytesOf ==
  ASSUME NEW n \in Nat, NEW c \in Clients
  PROVE  /\ [i \in 1..n |-> c] \in Seq(Clients) /\ Len([i \in 1..n |-> c]) = n
         /\ <<>> \o [i \in 1..n |-> c] = [i \in 1..n |-> c]
<1>1. [i \in 1..n |-> c] \in Seq(Clients)
  OBVIOUS
<1> QED
  BY <1>1

(* Nobody sends before probe has ended, and a controller that is off has   *)
(* no bytes...                                                             *)
PhaseInv ==
  /\ phase \in Spi!ProbeSteps \cup {"failed"} =>
       /\ fifo = <<>> /\ exchange = 0 /\ selected = Nobody
       /\ \A c \in Clients : place[c] = "idle"
  /\ phase = "clocks" => off
  /\ controller = "dummy" => clocks = {} /\ phase \notin {"hclk", "mclk", "rstc"}
  /\ ~Spi!On => fifo = <<>>

(* ...nor has one whose FIFO a message has reset and not yet filled.       *)
FifoInv ==
  /\ Len(fifo) <= FifoSize
  /\ \A i, j \in 1..Len(fifo) : fifo[i] = fifo[j]
  /\ \A c \in Clients :
       /\ place[c] \in {"mode", "moding", "fill", "loop"} => fifo = <<>>
       /\ place[c] \in {"start", "starting", "deselect", "deselecting"} =>
            \A i \in 1..Len(fifo) : fifo[i] = c

(* The device of the message on the bus is selected from its set_cs on.    *)
(* If an exchange runs at its reset of the FIFO, one did when set_cs read  *)
(* TFR_CTL: either that one, or one that XCH written back has started.     *)
SelectInv ==
  /\ Spi!On => selected = IF bus # Nobody /\ place[bus] \notin {"select", "selecting"}
                          THEN bus ELSE Nobody
  /\ ~Spi!On => exchange = 0
  /\ \A c \in Clients : place[c] \in {"selecting", "reset"} /\ exchange > 0 => xch

(* The divider is the one of the message's device, once it is set.         *)
ClkInv ==
  \A c \in Clients :
    Spi!On /\ place[c] \in {"fill", "start", "starting"} => clk = Spi!Divider(mclk, Speed[c])

SpiInv == Spi!TypeOK /\ PhaseInv /\ FifoInv /\ ClkInv /\ SelectInv

(* TypeOK by the parts of the system.                                      *)
DriverTyped ==
  /\ controller \in Controllers
  /\ phase \in Spi!ProbeSteps \cup {"bound", "devm", "gone", "failed"} \cup Spi!RemoveSteps
  /\ master \in {"new", "registered", "gone", "misused"}
  /\ clocks \subseteq {"hclk", "mclk"}
  /\ off \in BOOLEAN

CoreTyped ==
  /\ place \in [Clients -> Spi!Labels]
  /\ bus \in Clients \cup {Nobody}
  /\ msg \in [tx : BOOLEAN, len : 1..MaxLen] \cup {Spi!NoMessage}
  /\ \A c \in Clients : place[c] \notin {"idle", "sync"} <=> c = bus

ChipTyped ==
  /\ selected \in Clients \cup {Nobody}
  /\ xch \in BOOLEAN
  /\ fifo \in Seq(Clients)
  /\ mclk \in Rates
  /\ clk \in [by : {"CDR1", "CDR2"}, div : Nat \ {0}]

CountsTyped == burst \in 0..MaxLen /\ exchange \in 0..MaxLen

(* The parts together.                                                     *)
LEMMA SpiTypes == Spi!TypeOK <=> DriverTyped /\ CoreTyped /\ ChipTyped /\ CountsTyped
  BY DEF Spi!TypeOK, DriverTyped, CoreTyped, ChipTyped, CountsTyped

(* The invariant holds before probe.                                       *)
LEMMA SpiInvInit == Spi!SpiAssumption /\ Spi!Init => SpiInv
<1> SUFFICES ASSUME Spi!SpiAssumption, Spi!Init PROVE SpiInv
  OBVIOUS
<1>1. DriverTyped
  BY DEF Spi!Init, DriverTyped, Spi!ProbeSteps
<1>2. CoreTyped
  BY DEF Spi!SpiAssumption, Spi!Init, CoreTyped, Spi!Labels
<1>3. ChipTyped
  <2>1. clk \in [by : {"CDR1", "CDR2"}, div : Nat \ {0}]
    BY DEF Spi!Init
  <2>2. fifo \in Seq(Clients)
    BY DEF Spi!Init
  <2>3. xch \in BOOLEAN
    BY DEF Spi!Init
  <2> QED
    BY <2>1, <2>2, <2>3 DEF Spi!Init, ChipTyped
<1>4. CountsTyped
  BY DEF Spi!SpiAssumption, Spi!Init, CountsTyped
<1>5. PhaseInv
  BY DEF Spi!Init, PhaseInv
<1>6. FifoInv
  BY DEF Spi!SpiAssumption, Spi!Init, FifoInv
<1>7. ClkInv
  BY DEF Spi!Init, ClkInv
<1>8. SelectInv
  BY DEF Spi!Init, SelectInv
<1> QED
  BY <1>1, <1>2, <1>3, <1>4, <1>5, <1>6, <1>7, <1>8, SpiTypes DEF SpiInv

(* probe and remove.                                                       *)
LEMMA ProbeRemoveKeep ==
  ASSUME Spi!SpiAssumption, SpiInv,
         Spi!Probe \/ Spi!ProbeFails \/ Spi!Remove \/ Spi!RemoveStep \/ Spi!Devres
  PROVE  SpiInv'
<1> USE DEF SpiInv, Spi!driver, Spi!core, Spi!chip
<1>0. DriverTyped /\ CoreTyped /\ ChipTyped /\ CountsTyped
  BY SpiTypes
<1>1. UNCHANGED <<controller, place, bus, msg, selected, xch, mclk, clk>>
  BY DEF Spi!Probe, Spi!ProbeFails, Spi!Remove, Spi!RemoveStep, Spi!AssertReset,
     Spi!StopClocks, Spi!Unregister, Spi!Drain, Spi!Devres
<1>2. /\ phase' \in Spi!ProbeSteps \cup {"bound", "devm", "gone", "failed"} \cup Spi!RemoveSteps
      /\ master' \in {"new", "registered", "gone", "misused"}
  BY DEF Spi!Probe, Spi!ProbeFails, Spi!Remove, Spi!RemoveStep, Spi!AssertReset,
     Spi!StopClocks, Spi!Unregister, Spi!Drain, Spi!Devres,
     Spi!TypeOK, Spi!ProbeSteps, Spi!RemoveSteps
<1>3. clocks' \subseteq {"hclk", "mclk"} /\ off' \in BOOLEAN
  BY DEF Spi!Probe, Spi!ProbeFails, Spi!Remove, Spi!RemoveStep, Spi!AssertReset,
     Spi!StopClocks, Spi!Unregister, Spi!Drain, Spi!Devres,
     Spi!TypeOK, Spi!ProbeSteps, Spi!RemoveSteps
<1>4. \/ fifo' = fifo /\ burst' = burst /\ exchange' = exchange
      \/ fifo' = <<>> /\ burst' = 0 /\ exchange' = 0
  BY DEF Spi!Probe, Spi!ProbeFails, Spi!Remove, Spi!RemoveStep, Spi!AssertReset,
     Spi!StopClocks, Spi!Unregister, Spi!Drain, Spi!Devres
<1>5. Spi!TypeOK'
  <2>1. DriverTyped'
    BY <1>0, <1>1, <1>2, <1>3 DEF DriverTyped
  <2>2. CoreTyped'
    BY <1>0, <1>1 DEF CoreTyped
  <2>3. ChipTyped'
    <3>1. fifo' \in Seq(Clients)
      <4>1. fifo \in Seq(Clients)
        BY <1>0 DEF ChipTyped
      <4>2. <<>> \in Seq(Clients)
        OBVIOUS
      <4>3. fifo' = fifo \/ fifo' = <<>>
        BY <1>4
      <4> QED
        BY <4>1, <4>2, <4>3
    <3> QED
      BY <1>0, <1>1, <3>1 DEF ChipTyped
  <2>4. CountsTyped'
    BY <1>0, <1>4 DEF CountsTyped, Spi!SpiAssumption
  <2> QED
    BY <2>1, <2>2, <2>3, <2>4, SpiTypes, PTL
<1>6. PhaseInv'
  BY <1>1 DEF Spi!Probe, Spi!ProbeFails, Spi!Remove, Spi!RemoveStep, Spi!AssertReset,
     Spi!StopClocks, Spi!Unregister, Spi!Drain, Spi!Devres,
     PhaseInv, Spi!On, Spi!ProbeSteps, Spi!RemoveSteps
<1>7. FifoInv'
  BY <1>1, <1>4 DEF FifoInv, Spi!SpiAssumption
<1>8. ClkInv'
  <2>1. CASE phase \in Spi!ProbeSteps
    BY <1>1, <2>1 DEF PhaseInv, ClkInv
  <2>2. CASE phase \notin Spi!ProbeSteps
    <3>1. Spi!On' => Spi!On
      BY <2>2 DEF Spi!Probe, Spi!ProbeFails, Spi!Remove, Spi!RemoveStep, Spi!AssertReset,
         Spi!StopClocks, Spi!Unregister,
         Spi!Drain, Spi!Devres, Spi!On
    <3> QED
      BY <1>1, <3>1 DEF ClkInv
  <2> QED
    BY <2>1, <2>2
<1>9. SelectInv'
  <2>1. CASE phase \in Spi!ProbeSteps
    <3>1. /\ exchange = 0 /\ selected = Nobody /\ \A c \in Clients : place[c] = "idle"
          /\ bus \in Clients \cup {Nobody}
          /\ \A c \in Clients : place[c] \notin {"idle", "sync"} <=> c = bus
      BY <1>0, <2>1 DEF PhaseInv, CoreTyped
    <3>2. bus = Nobody
      BY <3>1
    <3> QED
      BY <1>1, <1>4, <3>1, <3>2 DEF SelectInv
  <2>2. CASE phase \notin Spi!ProbeSteps
    <3>1. Spi!On' => Spi!On
      BY <2>2 DEF Spi!Probe, Spi!ProbeFails, Spi!Remove, Spi!RemoveStep, Spi!AssertReset,
         Spi!StopClocks, Spi!Unregister, Spi!Drain, Spi!Devres, Spi!On
    <3>2. ~Spi!On' => exchange' = 0
      BY <2>2 DEF Spi!Probe, Spi!ProbeFails, Spi!Remove, Spi!RemoveStep, Spi!AssertReset,
         Spi!StopClocks, Spi!Unregister, Spi!Drain, Spi!Devres, Spi!On, SelectInv, PhaseInv
    <3>3. exchange' > 0 => exchange > 0
      BY <1>4
    <3> QED
      BY <1>1, <3>1, <3>2, <3>3 DEF SelectInv
  <2> QED
    BY <2>1, <2>2
<1> QED
  BY <1>5, <1>6, <1>7, <1>8, <1>9

(* The controller sends a byte.                                            *)
LEMMA ShiftKeeps ==
  ASSUME Spi!SpiAssumption, SpiInv, Spi!Shift
  PROVE  SpiInv'
<1> USE DEF SpiInv, Spi!driver, Spi!core, Spi!chip
<1>0. DriverTyped /\ CoreTyped /\ ChipTyped /\ CountsTyped
  BY SpiTypes
<1>1. UNCHANGED <<Spi!driver, Spi!core, selected, xch, burst, mclk, clk>>
  BY DEF Spi!Shift
<1>2. /\ fifo # <<>> /\ fifo \in Seq(Clients)
      /\ fifo' = Tail(fifo) /\ exchange > 0 /\ exchange' = exchange - 1
  BY DEF Spi!Shift, Spi!TypeOK
<1>3. /\ fifo' \in Seq(Clients) /\ Len(fifo') = Len(fifo) - 1
      /\ \A i \in 1..Len(fifo') : i + 1 \in 1..Len(fifo) /\ fifo'[i] = fifo[i + 1]
  BY <1>2
<1>4. Spi!TypeOK'
  <2>1. DriverTyped' /\ CoreTyped'
    BY <1>0, <1>1 DEF DriverTyped, CoreTyped
  <2>2. ChipTyped'
    BY <1>0, <1>1, <1>3 DEF ChipTyped
  <2>3. CountsTyped'
    BY <1>0, <1>1, <1>2 DEF CountsTyped, Spi!SpiAssumption
  <2> QED
    BY <2>1, <2>2, <2>3, SpiTypes, PTL
<1>5. PhaseInv'
  BY <1>1, <1>2 DEF PhaseInv, Spi!On
<1>6. FifoInv'
  <2>1. Len(fifo') <= FifoSize
    BY <1>2, <1>3 DEF FifoInv, Spi!SpiAssumption
  <2>2. \A i, j \in 1..Len(fifo') : fifo'[i] = fifo'[j]
    BY <1>3 DEF FifoInv
  <2>3. ASSUME NEW c \in Clients, place'[c] \in {"start", "starting", "deselect", "deselecting"}
        PROVE  \A i \in 1..Len(fifo') : fifo'[i] = c
    BY <1>1, <1>3, <2>3 DEF FifoInv
  <2>4. ASSUME NEW c \in Clients PROVE place'[c] \notin {"mode", "moding", "fill", "loop"}
    BY <1>1, <1>2 DEF FifoInv
  <2> QED
    BY <2>1, <2>2, <2>3, <2>4 DEF FifoInv
<1>7. ClkInv'
  BY <1>1 DEF ClkInv, Spi!On
<1>8. SelectInv'
  <2>1. Spi!On' = Spi!On /\ Spi!On
    BY <1>1, <1>2 DEF Spi!On, PhaseInv
  <2> QED
    BY <1>1, <1>2, <2>1 DEF SelectInv
<1> QED
  BY <1>4, <1>5, <1>6, <1>7, <1>8

(* While a message is on the bus its sender goes from step to step...      *)
LEMMA MessageGoes ==
  ASSUME Spi!SpiAssumption, CoreTyped, NEW c \in Clients, NEW l \in Spi!Labels \ {"idle", "sync"},
         place[c] \notin {"idle", "sync"}, Spi!Goto(c, l), UNCHANGED <<bus, msg>>
  PROVE  CoreTyped'
  BY DEF CoreTyped, Spi!Goto

(* ...and in the end gives the bus up.                                     *)
LEMMA MessageEnds ==
  ASSUME Spi!SpiAssumption, CoreTyped, NEW c \in Clients, place[c] \notin {"idle", "sync"},
         Spi!GiveBus(c)
  PROVE  CoreTyped'
<1>1. place' = [place EXCEPT ![c] = "idle"] /\ bus' = Nobody /\ msg' = Spi!NoMessage
  BY DEF Spi!GiveBus, Spi!Goto
<1>2. "idle" \in Spi!Labels
  BY DEF Spi!Labels
<1>3. c = bus /\ Nobody \notin Clients
  BY DEF CoreTyped, Spi!SpiAssumption
<1> QED
  BY <1>1, <1>2, <1>3 DEF CoreTyped

(* The bytes transfer_one starts to send are of at most its length.        *)
LEMMA StartFits ==
  ASSUME CountsTyped, NEW start \in BOOLEAN, Spi!WriteTfrCtl(start), burst' = burst
  PROVE  CountsTyped'
  BY DEF CountsTyped, Spi!WriteTfrCtl

(* Steps that touch neither FIFO nor divider, but where a message is.      *)
LEMMA MessageStepKeeps ==
  ASSUME SpiInv, NEW c \in Clients, NEW l \in Spi!Labels, Spi!Goto(c, l),
         UNCHANGED <<Spi!driver, fifo, mclk, clk>>, CoreTyped', CountsTyped',
         selected' \in Clients \cup {Nobody}, xch' \in BOOLEAN,
         place[c] = "idle" => phase \notin Spi!ProbeSteps \cup {"failed"}, SelectInv',
         l \notin {"mode", "fill", "start"},
         l = "loop" => fifo = <<>>,
         l = "deselect" => place[c] \in {"starting", "loop"},
         l = "deselecting" => place[c] = "deselect",
         l = "moding" => place[c] = "mode",
         l = "starting" => place[c] = "start"
  PROVE  SpiInv'
<1> USE DEF SpiInv, Spi!driver, Spi!Goto
<1>1. place' = [place EXCEPT ![c] = l] /\ place \in [Clients -> Spi!Labels]
  BY DEF Spi!TypeOK
<1>2. Spi!On' = Spi!On
  BY DEF Spi!On
<1>3. PhaseInv'
  BY <1>1, <1>2 DEF PhaseInv
<1>4. FifoInv'
  BY <1>1 DEF FifoInv
<1>5. ClkInv'
  BY <1>1, <1>2 DEF ClkInv
<1>6. DriverTyped /\ ChipTyped
  BY SpiTypes
<1>7. DriverTyped' /\ ChipTyped'
  BY <1>6 DEF DriverTyped, ChipTyped
<1>8. Spi!TypeOK'
  BY <1>7, SpiTypes, PTL
<1> QED
  BY <1>3, <1>4, <1>5, <1>8

(* The steps of the core, and those that read and write TFR_CTL, keep what *)
(* is known of the selected device and of XCH.                             *)
LEMMA SpiSelectKeeps ==
  ASSUME Spi!SpiAssumption, CoreTyped, CountsTyped, PhaseInv, SelectInv, NEW c \in Clients,
         \/ Spi!Call(c) \/ Spi!TakeBus(c)
         \/ Spi!DummySelect(c) \/ Spi!DummyTransfer(c) \/ Spi!DummyDeselect(c)
         \/ Spi!ReadTfrCtl(c) \/ Spi!SetCs(c) \/ Spi!Start(c)
  PROVE  SelectInv'
<1> USE DEF Spi!driver, Spi!core, Spi!chip, Spi!Goto
<1>1. /\ place \in [Clients -> Spi!Labels] /\ bus \in Clients \cup {Nobody}
      /\ \A d \in Clients : place[d] \notin {"idle", "sync"} <=> d = bus
      /\ Nobody \notin Clients /\ exchange \in Nat /\ burst \in Nat
  BY DEF CoreTyped, CountsTyped, Spi!SpiAssumption
<1>2. Spi!On' = Spi!On
  <2>1. UNCHANGED <<off, clocks>>
    BY DEF Spi!Call, Spi!TakeBus, Spi!DummySelect, Spi!DummyTransfer, Spi!DummyDeselect,
       Spi!ReadTfrCtl, Spi!SetCs, Spi!Start
  <2> QED
    BY <2>1 DEF Spi!On
<1>3. CASE Spi!Call(c) \/ Spi!TakeBus(c)
  BY <1>1, <1>2, <1>3 DEF SelectInv, Spi!Call, Spi!TakeBus
<1>4. CASE Spi!DummySelect(c) \/ Spi!DummyTransfer(c) \/ Spi!DummyDeselect(c)
  BY <1>1, <1>2, <1>4 DEF SelectInv, Spi!DummySelect, Spi!DummyTransfer, Spi!DummyDeselect,
     Spi!GiveBus, PhaseInv, Spi!On
<1>5. CASE Spi!ReadTfrCtl(c)
  <2>1. PICK l \in {"selecting", "moding", "starting", "deselecting"} :
           /\ place[c] \in {"select", "mode", "start", "deselect"}
           /\ l = "selecting" <=> place[c] = "select"
           /\ place' = [place EXCEPT ![c] = l]
    BY <1>5 DEF Spi!ReadTfrCtl
  <2>2. UNCHANGED <<bus, selected, exchange>>
    BY <1>5 DEF Spi!ReadTfrCtl
  <2>3. exchange > 0 => xch'
    <3>1. exchange > 0 => Spi!On
      BY <1>1 DEF SelectInv
    <3>2. xch' = (Spi!On /\ exchange > 0)
      BY <1>5 DEF Spi!ReadTfrCtl
    <3> QED
      BY <3>1, <3>2, Zenon
  <2>4. Spi!On' => selected' = IF bus' # Nobody /\ place'[bus'] \notin {"select", "selecting"}
                              THEN bus' ELSE Nobody
    BY <1>1, <1>2, <2>1, <2>2 DEF SelectInv
  <2> QED
    BY <1>2, <2>2, <2>3, <2>4 DEF SelectInv
<1>6. CASE Spi!SetCs(c)
  BY <1>1, <1>2, <1>6 DEF SelectInv, Spi!SetCs, Spi!WriteTfrCtl, Spi!GiveBus
<1>7. CASE Spi!Start(c)
  BY <1>1, <1>2, <1>7 DEF SelectInv, Spi!Start, Spi!WriteTfrCtl
<1> QED
  BY <1>3, <1>4, <1>5, <1>6, <1>7

(* What the core does between transfers, and what set_cs and the readings  *)
(* of TFR_CTL do.                                                          *)
LEMMA TransferKeeps ==
  ASSUME Spi!SpiAssumption, SpiInv, NEW c \in Clients,
         \/ Spi!Call(c) \/ Spi!TakeBus(c)
         \/ Spi!DummySelect(c) \/ Spi!DummyTransfer(c) \/ Spi!DummyDeselect(c)
         \/ Spi!ReadTfrCtl(c) \/ Spi!SetCs(c) \/ Spi!Start(c)
  PROVE  SpiInv'
<1> USE DEF Spi!driver, Spi!core, Spi!chip, Spi!Labels
<1>0. DriverTyped /\ CoreTyped /\ ChipTyped /\ CountsTyped
  BY SpiTypes DEF SpiInv
<1>8. SelectInv'
  BY <1>0, SpiSelectKeeps DEF SpiInv
<1>1. CASE Spi!Call(c)
  <2>1. CoreTyped'
    BY <1>0, <1>1 DEF Spi!Call, Spi!Goto, CoreTyped
  <2>2. CountsTyped'
    BY <1>0, <1>1 DEF Spi!Call, CountsTyped
  <2>3. selected' \in Clients \cup {Nobody} /\ xch' \in BOOLEAN
    BY <1>0, <1>1 DEF Spi!Call, ChipTyped
  <2>4. Spi!Goto(c, "sync") /\ UNCHANGED <<Spi!driver, fifo, mclk, clk>>
    BY <1>1 DEF Spi!Call
  <2>5. phase \notin Spi!ProbeSteps \cup {"failed"}
    BY <1>1 DEF Spi!Call, Spi!ProbeSteps, Spi!RemoveSteps
  <2> QED
    BY <2>1, <2>2, <2>3, <2>4, <2>5, <1>8, MessageStepKeeps
<1>2. CASE Spi!TakeBus(c)
  <2>1. CoreTyped'
    BY <1>0, <1>2 DEF Spi!TakeBus, Spi!Goto, CoreTyped, Spi!SpiAssumption
  <2>2. CountsTyped'
    BY <1>0, <1>2 DEF Spi!TakeBus, CountsTyped
  <2>3. selected' \in Clients \cup {Nobody} /\ xch' \in BOOLEAN
    BY <1>0, <1>2 DEF Spi!TakeBus, ChipTyped
  <2>4. place[c] = "sync" /\ Spi!Goto(c, "select") /\ UNCHANGED <<Spi!driver, fifo, mclk, clk>>
    BY <1>2 DEF Spi!TakeBus
  <2> QED
    BY <2>1, <2>2, <2>3, <2>4, <1>8, MessageStepKeeps
<1>3. CASE Spi!DummySelect(c) \/ Spi!DummyTransfer(c)
  <2>1. PICK l \in {"loop", "deselect"} :
           /\ place[c] \in {"select", "loop"} /\ Spi!Goto(c, l)
           /\ l = "loop" => fifo = <<>>
           /\ l = "deselect" => place[c] = "loop"
           /\ UNCHANGED <<Spi!driver, bus, msg, xch, fifo, burst, exchange, mclk, clk>>
           /\ selected' \in {c, selected}
    BY <1>3 DEF Spi!DummySelect, Spi!DummyTransfer, SpiInv, PhaseInv, Spi!On
  <2>2. CoreTyped'
    BY <1>0, <2>1, MessageGoes
  <2>3. CountsTyped'
    BY <1>0, <2>1 DEF CountsTyped
  <2>4. selected' \in Clients \cup {Nobody} /\ xch' \in BOOLEAN
    BY <1>0, <2>1 DEF ChipTyped
  <2> QED
    BY <2>1, <2>2, <2>3, <2>4, <1>8, MessageStepKeeps
<1>4. CASE Spi!DummyDeselect(c)
  <2>1. CoreTyped'
    BY <1>0, <1>4, MessageEnds DEF Spi!DummyDeselect
  <2>2. CountsTyped'
    BY <1>0, <1>4 DEF Spi!DummyDeselect, CountsTyped
  <2>3. selected' \in Clients \cup {Nobody} /\ xch' \in BOOLEAN
    BY <1>0, <1>4 DEF Spi!DummyDeselect, ChipTyped
  <2>4. place[c] = "deselect" /\ Spi!Goto(c, "idle") /\ UNCHANGED <<Spi!driver, fifo, mclk, clk>>
    BY <1>4 DEF Spi!DummyDeselect, Spi!GiveBus
  <2> QED
    BY <2>1, <2>2, <2>3, <2>4, <1>8, MessageStepKeeps
<1>5. CASE Spi!ReadTfrCtl(c)
  <2>1. PICK l \in {"selecting", "moding", "starting", "deselecting"} :
           /\ place[c] \in {"select", "mode", "start", "deselect"} /\ Spi!Goto(c, l)
           /\ l = "moding" => place[c] = "mode"
           /\ l = "starting" => place[c] = "start"
           /\ l = "deselecting" => place[c] = "deselect"
    BY <1>5 DEF Spi!ReadTfrCtl
  <2>2. UNCHANGED <<Spi!driver, bus, msg, selected, fifo, burst, exchange, mclk, clk>>
    BY <1>5 DEF Spi!ReadTfrCtl
  <2>3. CoreTyped'
    BY <1>0, <2>1, <2>2, MessageGoes
  <2>4. CountsTyped'
    BY <1>0, <2>2 DEF CountsTyped
  <2>5. xch' \in BOOLEAN
    BY <1>5 DEF Spi!ReadTfrCtl
  <2>6. selected' \in Clients \cup {Nobody}
    BY <1>0, <2>2 DEF ChipTyped
  <2> QED
    BY <2>1, <2>2, <2>3, <2>4, <2>5, <2>6, <1>8, MessageStepKeeps
<1>6. CASE Spi!SetCs(c)
  <2>1. UNCHANGED <<Spi!driver, xch, fifo, burst, mclk, clk>> /\ Spi!WriteTfrCtl(xch)
    BY <1>6 DEF Spi!SetCs
  <2>2. selected' \in Clients \cup {Nobody} /\ xch' \in BOOLEAN
    BY <1>0, <1>6 DEF Spi!SetCs, ChipTyped
  <2>3. CountsTyped'
    BY <1>0, <2>1, StartFits DEF ChipTyped
  <2>4. \/ place[c] = "selecting" /\ Spi!Goto(c, "reset") /\ UNCHANGED <<bus, msg>>
        \/ place[c] = "deselecting" /\ Spi!GiveBus(c)
    BY <1>6 DEF Spi!SetCs
  <2>5. CASE place[c] = "selecting" /\ Spi!Goto(c, "reset") /\ UNCHANGED <<bus, msg>>
    <3>1. CoreTyped'
      BY <1>0, <2>5, MessageGoes
    <3> QED
      BY <2>1, <2>2, <2>3, <2>5, <3>1, <1>8, MessageStepKeeps
  <2>6. CASE place[c] = "deselecting" /\ Spi!GiveBus(c)
    <3>1. CoreTyped' /\ Spi!Goto(c, "idle")
      BY <1>0, <2>6, MessageEnds DEF Spi!GiveBus
    <3> QED
      BY <2>1, <2>2, <2>3, <2>6, <3>1, <1>8, MessageStepKeeps
  <2> QED
    BY <2>4, <2>5, <2>6
<1>7. CASE Spi!Start(c)
  <2>1. /\ place[c] = "starting" /\ Spi!Goto(c, "deselect") /\ Spi!WriteTfrCtl(TRUE)
        /\ UNCHANGED <<Spi!driver, bus, msg, selected, xch, fifo, burst, mclk, clk>>
    BY <1>7 DEF Spi!Start
  <2>2. CoreTyped'
    BY <1>0, <2>1, MessageGoes
  <2>3. CountsTyped'
    BY <1>0, <2>1, StartFits
  <2>4. selected' \in Clients \cup {Nobody} /\ xch' \in BOOLEAN
    BY <1>0, <2>1 DEF ChipTyped
  <2> QED
    BY <2>1, <2>2, <2>3, <2>4, <1>8, MessageStepKeeps
<1> QED
  BY <1>1, <1>2, <1>3, <1>4, <1>5, <1>6, <1>7

(* Both FIFOs are reset.                                                   *)
LEMMA ResetFifoKeeps ==
  ASSUME Spi!SpiAssumption, SpiInv, NEW c \in Clients, Spi!ResetFifo(c)
  PROVE  SpiInv'
<1> USE DEF Spi!driver, Spi!core, Spi!chip
<1>0. DriverTyped /\ CoreTyped /\ ChipTyped /\ CountsTyped
  BY SpiTypes DEF SpiInv
<1>1. /\ place[c] = "reset" /\ Spi!Goto(c, "mode")
      /\ UNCHANGED <<Spi!driver, bus, msg, selected, xch, burst, exchange, mclk, clk>>
  BY DEF Spi!ResetFifo
<1>2. fifo' = <<>>
  BY DEF Spi!ResetFifo, SpiInv, PhaseInv
<1>3. Spi!On' = Spi!On
  BY <1>1 DEF Spi!On
<1>4. place' = [place EXCEPT ![c] = "mode"] /\ place \in [Clients -> Spi!Labels]
  BY <1>0, <1>1 DEF Spi!Goto, CoreTyped
<1>5. Spi!TypeOK'
  <2>1. DriverTyped' /\ CountsTyped'
    BY <1>0, <1>1 DEF DriverTyped, CountsTyped
  <2>2. CoreTyped'
    BY <1>0, <1>1, MessageGoes DEF Spi!Labels
  <2>3. ChipTyped'
    BY <1>0, <1>1, <1>2 DEF ChipTyped
  <2> QED
    BY <2>1, <2>2, <2>3, SpiTypes, PTL
<1>6. PhaseInv'
  BY <1>1, <1>2, <1>3, <1>4 DEF SpiInv, PhaseInv
<1>7. FifoInv'
  BY <1>2 DEF FifoInv, Spi!SpiAssumption
<1>8. ClkInv'
  BY <1>1, <1>3, <1>4 DEF SpiInv, ClkInv
<1>9. SelectInv'
  BY <1>0, <1>1, <1>3, <1>4 DEF SpiInv, SelectInv, CoreTyped
<1> QED
  BY <1>5, <1>6, <1>7, <1>8, <1>9 DEF SpiInv

(* The mode and the divider are set.                                       *)
LEMMA SetModeKeeps ==
  ASSUME Spi!SpiAssumption, SpiInv, NEW c \in Clients, Spi!SetMode(c)
  PROVE  SpiInv'
<1> USE DEF Spi!driver, Spi!core, Spi!chip
<1>0. DriverTyped /\ CoreTyped /\ ChipTyped /\ CountsTyped
  BY SpiTypes DEF SpiInv
<1>1. /\ place[c] = "moding" /\ Spi!Goto(c, "fill") /\ Spi!WriteTfrCtl(xch)
      /\ UNCHANGED <<Spi!driver, bus, msg, selected, xch, fifo, burst>>
      /\ clk' = IF Spi!On THEN Spi!Divider(mclk', Speed[c]) ELSE clk
  BY DEF Spi!SetMode
<1>2. mclk' \in Rates /\ mclk' \in 1..Spi!HzMax /\ Speed[c] \in 1..Spi!HzMax
  BY <1>0 DEF Spi!SetMode, ChipTyped, Spi!SpiAssumption
<1>3. Spi!On' = Spi!On
  BY <1>1 DEF Spi!On
<1>4. place' = [place EXCEPT ![c] = "fill"] /\ place \in [Clients -> Spi!Labels]
  BY <1>0, <1>1 DEF Spi!Goto, CoreTyped
<1>5. \A d \in Clients : place[d] \notin {"idle", "sync"} => d = c
  BY <1>0, <1>1 DEF CoreTyped
<1>6. Spi!TypeOK'
  <2>1. DriverTyped'
    BY <1>0, <1>1 DEF DriverTyped
  <2>2. CoreTyped'
    BY <1>0, <1>1, MessageGoes DEF Spi!Labels
  <2>3. CountsTyped'
    BY <1>0, <1>1, StartFits DEF ChipTyped
  <2>4. clk' \in [by : {"CDR1", "CDR2"}, div : Nat \ {0}]
    BY <1>0, <1>1, <1>2, DividerDivides DEF ChipTyped
  <2>5. ChipTyped'
    BY <1>0, <1>1, <1>2, <2>4 DEF ChipTyped
  <2> QED
    BY <2>1, <2>2, <2>3, <2>5, SpiTypes, PTL
<1>7. PhaseInv'
  BY <1>1, <1>3, <1>4 DEF SpiInv, PhaseInv
<1>8. FifoInv'
  BY <1>1, <1>4 DEF SpiInv, FifoInv
<1>9. ClkInv'
  BY <1>1, <1>3, <1>4, <1>5 DEF ClkInv
<1>10. SelectInv'
  BY <1>0, <1>1, <1>3, <1>4, <1>5 DEF SpiInv, SelectInv, CoreTyped, Spi!WriteTfrCtl
<1> QED
  BY <1>6, <1>7, <1>8, <1>9, <1>10 DEF SpiInv

(* The FIFO that a message fills is empty: it then holds its bytes only.   *)
LEMMA FillKeeps ==
  ASSUME Spi!SpiAssumption, SpiInv, NEW c \in Clients, Spi!Fill(c)
  PROVE  SpiInv'
<1> USE DEF Spi!driver, Spi!core, Spi!chip
<1>0. DriverTyped /\ CoreTyped /\ ChipTyped /\ CountsTyped
  BY SpiTypes DEF SpiInv
<1>1. /\ place[c] = "fill" /\ Spi!Goto(c, "start")
      /\ UNCHANGED <<Spi!driver, bus, msg, selected, xch, mclk, clk>>
  BY DEF Spi!Fill
<1>2. fifo = <<>> /\ Len(fifo) = 0
  BY <1>1 DEF SpiInv, FifoInv
<1>3. Spi!On' = Spi!On
  BY <1>1 DEF Spi!On
<1>4. place' = [place EXCEPT ![c] = "start"] /\ place \in [Clients -> Spi!Labels]
  BY <1>0, <1>1 DEF Spi!Goto, CoreTyped
<1>5. \A d \in Clients : place[d] \notin {"idle", "sync"} => d = c
  BY <1>0, <1>1 DEF CoreTyped
<1>6. msg.len \in 0..MaxLen /\ MaxLen \in Nat /\ FifoSize \in Nat
  BY <1>0 DEF CoreTyped, Spi!NoMessage, Spi!SpiAssumption
<1>7. Spi!Room(msg.len) \in Nat /\ Spi!Room(msg.len) <= FifoSize
  BY <1>2, <1>6, LeastOfTwo DEF Spi!Room
<1>8. \/ fifo' = <<>>
      \/ Spi!On /\ fifo' = [i \in 1..Spi!Room(msg.len) |-> c]
  BY <1>2, <1>7, BytesOf DEF Spi!Fill
<1>9. /\ fifo' \in Seq(Clients) /\ Len(fifo') <= FifoSize
      /\ \A i \in 1..Len(fifo') : fifo'[i] = c
  <2>1. CASE fifo' = <<>>
    BY <1>6, <2>1
  <2> DEFINE n == Spi!Room(msg.len)
  <2>2. CASE fifo' = [i \in 1..n |-> c]
    <3>1. n \in Nat /\ n <= FifoSize
      BY <1>7
    <3> HIDE DEF n
    <3>2. [i \in 1..n |-> c] \in Seq(Clients) /\ Len([i \in 1..n |-> c]) = n
      BY <3>1, BytesOf
    <3> QED
      BY <2>2, <3>1, <3>2
  <2> QED
    BY <1>8, <2>1, <2>2
<1>10. Spi!TypeOK'
  <2>1. DriverTyped'
    BY <1>0, <1>1 DEF DriverTyped
  <2>2. CoreTyped'
    BY <1>0, <1>1, MessageGoes DEF Spi!Labels
  <2>3. CountsTyped'
    BY <1>0, <1>6 DEF Spi!Fill, CountsTyped
  <2>4. ChipTyped'
    BY <1>0, <1>1, <1>9 DEF ChipTyped
  <2> QED
    BY <2>1, <2>2, <2>3, <2>4, SpiTypes, PTL
<1>11. PhaseInv'
  BY <1>1, <1>3, <1>4, <1>8 DEF SpiInv, PhaseInv, Spi!On
<1>12. FifoInv'
  BY <1>4, <1>5, <1>9 DEF FifoInv
<1>13. ClkInv'
  BY <1>1, <1>3, <1>4 DEF SpiInv, ClkInv
<1>14. SelectInv'
  <2>1. ~Spi!On => exchange' = exchange
    BY DEF Spi!Fill
  <2> QED
    BY <1>0, <1>1, <1>3, <1>4, <1>5, <2>1 DEF SpiInv, SelectInv, CoreTyped
<1> QED
  BY <1>10, <1>11, <1>12, <1>13, <1>14 DEF SpiInv

(* Every step of the driver, the core and the controller keeps the         *)
(* invariant.                                                              *)
LEMMA SpiInvStep ==
  ASSUME Spi!SpiAssumption, SpiInv, [Spi!Next]_Spi!vars
  PROVE  SpiInv'
<1>1. CASE Spi!Probe \/ Spi!ProbeFails \/ Spi!Remove \/ Spi!RemoveStep \/ Spi!Devres
  BY <1>1, ProbeRemoveKeep
<1>2. CASE Spi!Shift
  BY <1>2, ShiftKeeps
<1>3. ASSUME NEW c \in Clients, Spi!Call(c) \/ Spi!Step(c) PROVE SpiInv'
  BY <1>3, TransferKeeps, ResetFifoKeeps, SetModeKeeps, FillKeeps DEF Spi!Step
<1>4. CASE UNCHANGED Spi!vars
  <2> USE DEF Spi!vars, Spi!driver, Spi!core, Spi!chip
  <2>1. DriverTyped' /\ CoreTyped' /\ ChipTyped' /\ CountsTyped'
    BY <1>4, SpiTypes DEF SpiInv, DriverTyped, CoreTyped, ChipTyped, CountsTyped
  <2>2. Spi!TypeOK'
    BY <2>1, SpiTypes, PTL
  <2>3. PhaseInv' /\ FifoInv' /\ ClkInv' /\ SelectInv'
    BY <1>4 DEF SpiInv, PhaseInv, FifoInv, ClkInv, SelectInv, Spi!On
  <2> QED
    BY <2>2, <2>3 DEF SpiInv
<1> QED
  BY <1>1, <1>2, <1>3, <1>4 DEF Spi!Next

(* What is assumed of the constants is assumed of the instance.            *)
LEMMA AssumedOfSpi == Spi!SpiAssumption
  BY SpiAssumption DEF Spi!SpiAssumption, Spi!HzMax, HzMax

(* The invariant, for any devices, rates, FIFO and lengths of messages.    *)
THEOREM SpiInvariantHolds == Spi!Spec => []SpiInv
<1>1. Spi!Init => SpiInv
  BY SpiInvInit, AssumedOfSpi
<1>2. SpiInv /\ [Spi!Next]_Spi!vars => SpiInv'
  BY SpiInvStep, AssumedOfSpi
<1> QED
  BY <1>1, <1>2, PTL DEF Spi!Spec

(* Type correctness of the SPI drivers.                                    *)
THEOREM SpiTypeCorrect == Spi!Spec => []Spi!TypeOK
<1>1. SpiInv => Spi!TypeOK
  BY DEF SpiInv
<1> QED
  BY <1>1, SpiInvariantHolds, PTL

(* transfer_one returns while the controller still sends, and a change of  *)
(* TFR_CTL can start the exchange again, but every message resets the FIFO *)
(* before it fills it: the FIFO never holds bytes of two messages, nor     *)
(* more than it has room for, nor any but the message's own once that has  *)
(* reset it.  What is left there reaches another device only between its   *)
(* set_cs and that reset, if an exchange still ran when set_cs looked.     *)
THEOREM FifoIsNotMixed == Spi!Spec => []FifoHoldsOneMessage
<1>1. SpiInv => FifoHoldsOneMessage
  <2> SUFFICES ASSUME SpiInv, NEW i \in 1..Len(fifo)
               PROVE  /\ bus # Nobody /\ place[bus] \notin BeforeReset => fifo[i] = bus
                      /\ exchange > 0 /\ selected \notin {Nobody, fifo[i]} =>
                           place[selected] = "reset" /\ xch
    BY DEF SpiInv, FifoInv, FifoHoldsOneMessage
  <2>1. /\ bus \in Clients \cup {Nobody} /\ \A c \in Clients : place[c] \in Spi!Labels
        /\ \A c \in Clients : place[c] \notin {"idle", "sync"} <=> c = bus
    BY DEF SpiInv, Spi!TypeOK
  <2>2. fifo # <<>> /\ Spi!On
    BY DEF SpiInv, PhaseInv
  <2>3. bus # Nobody /\ place[bus] \notin BeforeReset => fifo[i] = bus
    BY <2>1, <2>2 DEF SpiInv, FifoInv, BeforeReset, Spi!Labels
  <2>4. ASSUME exchange > 0, selected \notin {Nobody, fifo[i]}
        PROVE  place[selected] = "reset" /\ xch
    <3>1. selected = bus /\ bus \in Clients /\ place[bus] \notin {"select", "selecting"}
      BY <2>1, <2>2, <2>4 DEF SpiInv, SelectInv
    <3>2. place[bus] = "reset"
      BY <2>3, <2>4, <3>1 DEF BeforeReset
    <3> QED
      BY <2>4, <3>1, <3>2 DEF SpiInv, SelectInv
  <2> QED
    BY <2>3, <2>4
<1> QED
  BY <1>1, SpiInvariantHolds, PTL

(* Whatever rate the module clock is set to, an exchange is never faster   *)
(* than its device allows, unless CDR1 cannot divide by so much.           *)
THEOREM DividersFit == Spi!Spec => []NeverTooFast
<1>1. SpiInv => NeverTooFast
  <2> SUFFICES ASSUME SpiInv, NEW c \in Clients,
                      Spi!On, place[c] \in {"fill", "start", "starting"},
                      Spi!RoundUp(mclk, Speed[c]) <= 2^15
               PROVE  mclk <= clk.div * Speed[c]
    BY DEF NeverTooFast, On, RoundUp, Spi!On, Spi!RoundUp
  <2>1. mclk \in 1..Spi!HzMax /\ Speed[c] \in 1..Spi!HzMax
    BY AssumedOfSpi DEF SpiInv, Spi!TypeOK, Spi!SpiAssumption
  <2>2. clk = Spi!Divider(mclk, Speed[c])
    BY DEF SpiInv, ClkInv
  <2> QED
    BY <2>1, <2>2, DividerDivides, AssumedOfSpi
<1> QED
  BY <1>1, SpiInvariantHolds, PTL
==============================================================================
