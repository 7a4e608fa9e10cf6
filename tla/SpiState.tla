------------------------------ MODULE SpiState ------------------------------
(***************************************************************************)
(* The state of the SPI drivers of part9, the core and the controller, and *)
(* what has to hold of it at all times.  Spi says how it changes.          *)
(***************************************************************************)
EXTENDS Integers, Sequences

CONSTANTS Controllers,  \* which of the two controllers are considered
          Clients,      \* who sends messages; each has a chip select
          Speed,        \* the maximal speed of each client's device, in Hz
          Rates,        \* the rates the module clock can run at, in Hz
          FifoSize,     \* the bytes the FIFO holds: 64
          MaxLen,       \* the longest message
          Nobody        \* no client

(* Up to a GHz, far more than these clocks run at, nothing transfer_one    *)
(* computes exceeds its unsigned int.                                      *)
HzMax == 2^30

ASSUME SpiAssumption ==
  /\ Controllers \subseteq {"dummy", "h616"}
  /\ Speed \in [Clients -> 1..HzMax]
  /\ Rates \subseteq 1..HzMax
  /\ FifoSize \in Nat \ {0} /\ MaxLen \in Nat \ {0}
  /\ Nobody \notin Clients

VARIABLES
  controller,
  phase,     \* the controller's driver: a step of probe, "bound", a step of
             \* remove, "devm", "gone", or "failed", which probe has
  master,    \* the core's master: "new", "registered", "gone", or "misused",
             \* unregistered when it was not registered
  clocks,    \* the clocks that run
  off,       \* the reset line holds the controller
  place,     \* where each client's message is
  bus,       \* whose message is on the bus
  msg,       \* that message: whether it is sent or received, and its length
  selected,  \* whose chip select is active
  xch,       \* the XCH bit in the value of TFR_CTL last read
  fifo,      \* whose bytes the FIFO holds, the next to be sent first
  burst,     \* BURST_CNT
  exchange,  \* the bytes the running exchange has to go, or 0: none runs
  mclk,      \* the rate of the module clock
  clk        \* CLK_CTL: which divider divides it, and by what

(* The controller runs.  In reset, or without its clocks, it takes no      *)
(* value.                                                                  *)
On == ~off /\ clocks = {"hclk", "mclk"}

(* DIV_ROUND_UP.                                                           *)
RoundUp(n, d) == (n + d - 1) \div d

----------------------------------------------------------------------------
(* A message on the bus comes to the reset of the FIFO after these.        *)
BeforeReset == {"select", "selecting", "reset"}

(* transfer_one does not wait for the exchange before, and a change of     *)
(* TFR_CTL can start one again.  Still, the FIFO never holds bytes of two  *)
(* messages' owners, nor more than it has room for, and once a message has *)
(* reset it, only its own.  So whatever an exchange that goes on, or is    *)
(* started, or started again has to send goes to the device it is for, or  *)
(* to none, with one exception: what a message has left there goes to the  *)
(* next one's device between its set_cs and its reset of the FIFO, if an   *)
(* exchange still ran when set_cs read TFR_CTL.                            *)
FifoHoldsOneMessage ==
  /\ Len(fifo) <= FifoSize
  /\ \A i, j \in 1..Len(fifo) : fifo[i] = fifo[j]
  /\ \A i \in 1..Len(fifo) :
       /\ bus # Nobody /\ place[bus] \notin BeforeReset => fifo[i] = bus
       /\ exchange > 0 /\ selected \notin {Nobody, fifo[i]} => place[selected] = "reset" /\ xch

(* A message is started at no more than its device's maximal speed,        *)
(* whatever rate the module clock could be set to, unless that is more     *)
(* than 2^15 times too fast, which is more than CDR1 can divide by.        *)
NeverTooFast ==
  \A c \in Clients :
    (On /\ place[c] \in {"fill", "start", "starting"} /\ RoundUp(mclk, Speed[c]) <= 2^15) =>
      mclk <= clk.div * Speed[c]
=============================================================================
