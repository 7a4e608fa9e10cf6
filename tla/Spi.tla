-------------------------------- MODULE Spi --------------------------------
(***************************************************************************)
(* The SPI drivers of part9: the two controllers, dummy-spimaster and the  *)
(* H616's, under messages of one transfer each, as data_show and           *)
(* data_store of dummy-spidev and the display drivers of part7 send them.  *)
(*                                                                         *)
(* The SPI core lets one message at a time onto the bus: it selects the    *)
(* device, calls transfer_one, waits only if transfer_one says so, and     *)
(* deselects the device.  transfer_one of the H616 fills the FIFO once,    *)
(* starts the exchange and returns: the controller goes on sending while   *)
(* the core takes the next message.                                        *)
(*                                                                         *)
(* The core and the controller itself are modelled from how the drivers    *)
(* use them.  XCH of TFR_CTL reads 1 while an exchange runs, and a 1       *)
(* written to it starts one; an exchange that finds the FIFO empty waits.  *)
(***************************************************************************)
EXTENDS SpiState, FiniteSetsExt

driver == <<controller, phase, master, clocks, off>>
core == <<place, bus, msg>>
chip == <<selected, xch, fifo, burst, exchange, mclk, clk>>
vars == <<driver, core, chip>>

ProbeSteps == {"probe", "hclk", "mclk", "rstc", "register"}
RemoveSteps == {"assert", "clocks", "unregister", "drain"}
NoMessage == [tx |-> FALSE, len |-> 0]
Labels == {"idle", "sync", "select", "selecting", "reset", "mode", "moding", "fill",
           "start", "starting", "loop", "deselect", "deselecting"}

TypeOK ==
  /\ controller \in Controllers
  /\ phase \in ProbeSteps \cup {"bound", "devm", "gone", "failed"} \cup RemoveSteps
  /\ master \in {"new", "registered", "gone", "misused"}
  /\ clocks \subseteq {"hclk", "mclk"}
  /\ off \in BOOLEAN
  /\ place \in [Clients -> Labels]
  /\ bus \in Clients \cup {Nobody}
  /\ msg \in [tx : BOOLEAN, len : 1..MaxLen] \cup {NoMessage}
  /\ \A c \in Clients : place[c] \notin {"idle", "sync"} <=> c = bus
  /\ selected \in Clients \cup {Nobody}
  /\ xch \in BOOLEAN
  /\ fifo \in Seq(Clients)
  /\ burst \in 0..MaxLen
  /\ exchange \in 0..MaxLen
  /\ mclk \in Rates
  /\ clk \in [by : {"CDR1", "CDR2"}, div : Nat \ {0}]

Init ==
  /\ controller \in Controllers
  /\ phase = "probe" /\ master = "new"
  /\ clocks = {} /\ off = TRUE
  /\ place = [c \in Clients |-> "idle"]
  /\ bus = Nobody /\ msg = NoMessage
  /\ selected = Nobody
  /\ xch = FALSE
  /\ fifo = <<>>
  /\ burst = 0 /\ exchange = 0
  /\ mclk \in Rates
  /\ clk = [by |-> "CDR2", div |-> 2]

----------------------------------------------------------------------------
(* probe of the H616: two clocks, the reset line, registration.  Of the    *)
(* dummy: registration only.                                               *)
Probe ==
  /\ phase \in ProbeSteps
  /\ phase' = CASE phase = "probe" -> IF controller = "h616" THEN "hclk" ELSE "register"
                [] phase = "hclk" -> "mclk"
                [] phase = "mclk" -> "rstc"
                [] phase = "rstc" -> "register"
                [] phase = "register" -> "bound"
  /\ clocks' = IF phase \in {"hclk", "mclk"} THEN clocks \cup {phase} ELSE clocks
  /\ off' = (off /\ phase # "rstc")
  /\ master' = IF phase = "register" THEN "registered" ELSE master
  /\ UNCHANGED <<controller, core, chip>>

(* The labels err_2 and err_1 stop the clocks that run; err_0 unregisters  *)
(* a master that never was registered.  The dummy puts it.  Neither does   *)
(* anything about one that was not allocated.                              *)
ProbeFails ==
  /\ phase \in ProbeSteps
  /\ phase' = "failed"
  /\ clocks' = {}
  /\ \/ phase = "probe" /\ UNCHANGED master
     \/ controller = "h616" /\ master' = "misused"
     \/ controller = "dummy" /\ phase = "register" /\ master' = "gone"
  /\ UNCHANGED <<controller, off, core, chip>>

(* remove of the H616 stops the controller before it unregisters it.       *)
Remove ==
  /\ phase = "bound"
  /\ phase' = IF controller = "h616" THEN "assert" ELSE "unregister"
  /\ UNCHANGED <<controller, master, clocks, off, core, chip>>

AssertReset ==
  /\ phase = "assert"
  /\ off' = TRUE
  /\ fifo' = <<>> /\ exchange' = 0 /\ burst' = 0
  /\ phase' = "clocks"
  /\ UNCHANGED <<controller, master, clocks, core, selected, xch, mclk, clk>>

StopClocks ==
  /\ phase = "clocks"
  /\ clocks' = {}
  /\ phase' = "unregister"
  /\ UNCHANGED <<controller, master, off, core, chip>>

(* spi_unregister_master unbinds the devices: nobody gets at them any      *)
(* more, and those who have are waited for.                                *)
Unregister ==
  /\ phase = "unregister"
  /\ phase' = "drain"
  /\ UNCHANGED <<controller, master, clocks, off, core, chip>>

Drain ==
  /\ phase = "drain"
  /\ \A c \in Clients : place[c] = "idle"
  /\ phase' = "devm" /\ master' = "gone"
  /\ UNCHANGED <<controller, clocks, off, core, chip>>

(* remove has returned; devm_spi_register_master undoes itself, and        *)
(* unregisters once more what remove has unregistered.                     *)
Devres ==
  /\ phase = "devm"
  /\ phase' = "gone" /\ master' = "misused"
  /\ UNCHANGED <<controller, clocks, off, core, chip>>

RemoveStep == AssertReset \/ StopClocks \/ Unregister \/ Drain

----------------------------------------------------------------------------
(* The core.                                                               *)
Goto(c, l) == place' = [place EXCEPT ![c] = l]

(* data_show and data_store, or an update of a display.                    *)
Call(c) ==
  /\ phase \in {"bound"} \cup (RemoveSteps \ {"drain"})
  /\ place[c] = "idle"
  /\ Goto(c, "sync")
  /\ UNCHANGED <<driver, bus, msg, chip>>

(* data_show reads into a buffer, data_store and the displays write one.   *)
TakeBus(c) ==
  /\ place[c] = "sync"
  /\ bus = Nobody
  /\ bus' = c
  /\ msg' \in [tx : BOOLEAN, len : 1..MaxLen]
  /\ Goto(c, "select")
  /\ UNCHANGED <<driver, chip>>

(* The device is deselected: spi_sync returns.                             *)
GiveBus(c) ==
  /\ bus' = Nobody /\ msg' = NoMessage
  /\ Goto(c, "idle")

----------------------------------------------------------------------------
(* dummy-spimaster: set_cs prints, transfer_one goes through the bytes.    *)
DummySelect(c) ==
  /\ controller = "dummy"
  /\ place[c] = "select"
  /\ selected' = c
  /\ Goto(c, "loop")
  /\ UNCHANGED <<driver, bus, msg, xch, fifo, burst, exchange, mclk, clk>>

DummyTransfer(c) ==
  /\ place[c] = "loop"
  /\ Goto(c, "deselect")
  /\ UNCHANGED <<driver, bus, msg, chip>>

DummyDeselect(c) ==
  /\ controller = "dummy"
  /\ place[c] = "deselect"
  /\ selected' = Nobody
  /\ GiveBus(c)
  /\ UNCHANGED <<driver, xch, fifo, burst, exchange, mclk, clk>>

----------------------------------------------------------------------------
(* The H616.                                                               *)

(* Reading TFR_CTL, to change some of its bits: in set_cs, for the mode of *)
(* the device, and to set XCH.                                             *)
ReadTfrCtl(c) ==
  /\ controller = "h616"
  /\ \/ place[c] = "select" /\ Goto(c, "selecting")
     \/ place[c] = "mode" /\ Goto(c, "moding")
     \/ place[c] = "start" /\ Goto(c, "starting")
     \/ place[c] = "deselect" /\ Goto(c, "deselecting")
  /\ xch' = (On /\ exchange > 0)
  /\ UNCHANGED <<driver, bus, msg, selected, fifo, burst, exchange, mclk, clk>>

(* Writing it back: a XCH that was read as 1 starts an exchange if the one *)
(* that was seen has ended.                                                *)
WriteTfrCtl(start) ==
  exchange' = IF On /\ start /\ exchange = 0 THEN burst ELSE exchange

SetCs(c) ==
  /\ \/ place[c] = "selecting" /\ Goto(c, "reset") /\ UNCHANGED <<bus, msg>>
     \/ place[c] = "deselecting" /\ GiveBus(c)
  /\ selected' = IF ~On THEN selected ELSE IF place[c] = "selecting" THEN c ELSE Nobody
  /\ WriteTfrCtl(xch)
  /\ UNCHANGED <<driver, xch, fifo, burst, mclk, clk>>

(* Mutation: the FIFO is left as it is.                                    *)
ResetNoFifo(c) ==
  /\ place[c] = "reset"
  /\ Goto(c, "mode")
  /\ UNCHANGED <<driver, bus, msg, chip>>

(* Both FIFOs are reset.  The next value of FIFO_CTL is that of a variable *)
(* nothing has been assigned to: it may reset the empty FIFOs once more.   *)
ResetFifo(c) ==
  /\ place[c] = "reset"
  /\ fifo' = IF On THEN <<>> ELSE fifo
  /\ Goto(c, "mode")
  /\ UNCHANGED <<driver, bus, msg, selected, xch, burst, exchange, mclk, clk>>

(* order_base_2: the least power of two that is not below n.               *)
Order2(n) == CHOOSE k \in 0..30 : 2^k >= n /\ (k = 0 \/ 2^(k - 1) < n)

(* Mutation: the quotient is rounded down.                                 *)
DividerRoundDown(rate, hz) ==
  LET div_cdr1 == rate \div hz
      div_cdr2 == RoundUp(div_cdr1, 2)
  IN IF div_cdr2 <= 256
     THEN [by |-> "CDR2", div |-> 2 * div_cdr2]
     ELSE [by |-> "CDR1", div |-> 2^Min({15, Order2(div_cdr1)})]

(* The divider of the module clock: by CDR2, twice what its eight bits say *)
(* plus one, or by CDR1, a power of two that its four bits can say.        *)
Divider(rate, hz) ==
  LET div_cdr1 == RoundUp(rate, hz)
      div_cdr2 == RoundUp(div_cdr1, 2)
  IN IF div_cdr2 <= 256
     THEN [by |-> "CDR2", div |-> 2 * div_cdr2]
     ELSE [by |-> "CDR1", div |-> 2^Min({15, Order2(div_cdr1)})]

(* A module clock that is too slow is set to another rate, or stays.       *)
SetMode(c) ==
  /\ place[c] = "moding"
  /\ WriteTfrCtl(xch)
  /\ mclk' \in IF mclk < 2 * Speed[c] THEN Rates ELSE {mclk}
  /\ clk' = IF On THEN Divider(mclk', Speed[c]) ELSE clk
  /\ Goto(c, "fill")
  /\ UNCHANGED <<driver, bus, msg, selected, xch, fifo, burst>>

(* The bytes transfer_one can write of a message of len bytes.             *)
Room(len) == Min({FifoSize - Len(fifo), len})

(* The counters, and as many bytes as the FIFO has room for: all of them   *)
(* the first byte of the buffer, for tx_buff does not advance.  A read     *)
(* has no buffer to send from, and puts nothing there.  An exchange that   *)
(* still runs goes on, by the old count or by the new one.                 *)
Fill(c) ==
  /\ place[c] = "fill"
  /\ IF On
     THEN /\ burst' = msg.len
          /\ fifo' = IF msg.tx
                     THEN fifo \o [i \in 1..Room(msg.len) |-> c]
                     ELSE fifo
          /\ exchange' \in {exchange, IF exchange > 0 THEN msg.len ELSE 0}
     ELSE UNCHANGED <<burst, fifo, exchange>>
  /\ Goto(c, "start")
  /\ UNCHANGED <<driver, bus, msg, selected, xch, mclk, clk>>

(* Mutation: transfer_one asks the core to wait for an interrupt nobody    *)
(* handles.                                                                *)
StartAndWait(c) ==
  /\ place[c] = "starting"
  /\ WriteTfrCtl(TRUE)
  /\ UNCHANGED <<driver, core, selected, xch, fifo, burst, mclk, clk>>

(* transfer_one returns 0: the core takes the transfer for complete.       *)
Start(c) ==
  /\ place[c] = "starting"
  /\ WriteTfrCtl(TRUE)
  /\ Goto(c, "deselect")
  /\ UNCHANGED <<driver, bus, msg, selected, xch, fifo, burst, mclk, clk>>

(* The controller sends a byte.                                            *)
Shift ==
  /\ exchange > 0
  /\ fifo # <<>>
  /\ fifo' = Tail(fifo)
  /\ exchange' = exchange - 1
  /\ UNCHANGED <<driver, core, selected, xch, burst, mclk, clk>>

Step(c) ==
  \/ TakeBus(c) \/ DummySelect(c) \/ DummyTransfer(c) \/ DummyDeselect(c)
  \/ ReadTfrCtl(c) \/ SetCs(c) \/ ResetFifo(c) \/ SetMode(c) \/ Fill(c) \/ Start(c)

Next ==
  \/ Probe \/ ProbeFails \/ Remove \/ RemoveStep \/ Devres \/ Shift
  \/ \E c \in Clients : Call(c) \/ Step(c)

(* The core serves the messages that wait in turn, and remove goes on.     *)
(* Nothing is asked of the controller.                                     *)
Fairness == WF_vars(RemoveStep) /\ \A c \in Clients : SF_vars(Step(c))

Spec == Init /\ [][Next]_vars /\ Fairness

----------------------------------------------------------------------------
(* Every message gets its turn and returns, even while remove stops the    *)
(* controller under it; so remove returns too.  (What becomes of the freed *)
(* master when devm unregisters it again is beyond this.)                  *)
EveryCallReturns ==
  /\ \A c \in Clients : place[c] = "sync" ~> place[c] = "idle"
  /\ phase \in RemoveSteps ~> phase \in {"devm", "gone"}
=============================================================================
