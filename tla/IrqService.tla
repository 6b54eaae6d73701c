----------------------------- MODULE IrqService -----------------------------
(***************************************************************************)
(* What interrupt dispatch promises to drivers: every request of a device  *)
(* stays pending until the handler of the driver bound to its line is      *)
(* called for it, once; handlers are called one at a time, in the order of *)
(* priority, and no driver is bound or unbound while one runs.             *)
(***************************************************************************)
EXTENDS Integers

CONSTANTS
  Irq,      \* the interrupt lines
  NoDriver

VARIABLES
  up,       \* whether the service has been set up
  pending,  \* the lines whose request has not been served
  bound,    \* line -> the driver whose handler serves it, or NoDriver
  active    \* <<line, driver>> of the handler that runs, or <<>>

ivars == <<up, pending, bound, active>>

\* Priority, with the lines 8 to 15 in the place of line 2.
Rank(i) == IF i < 2 THEN i ELSE IF i >= 8 THEN i - 6 ELSE i + 7

IInit ==
  /\ up = FALSE
  /\ pending = {}
  /\ bound = [i \in Irq |-> NoDriver]
  /\ active = <<>>

\* A device makes a request; another one of the same line changes nothing.
Signal(i) ==
  /\ pending' = pending \union {i}
  /\ UNCHANGED <<up, bound, active>>

\* While the service is set up, requests may be forgotten.
SetUp ==
  /\ ~ up
  /\ up' \in BOOLEAN
  /\ pending' \in SUBSET pending
  /\ UNCHANGED <<bound, active>>

\* A driver is bound to a line, unbound from it or replaced.
Bind(i) ==
  /\ active = <<>>
  /\ \A j \in Irq \ {i} : bound'[j] = bound[j]
  /\ DOMAIN bound' = Irq
  /\ UNCHANGED <<up, pending, active>>

\* The pending line of highest priority is served.
Call(i) ==
  /\ up
  /\ active = <<>>
  /\ i \in pending
  /\ bound[i] # NoDriver
  /\ \A j \in pending : bound[j] # NoDriver => Rank(i) <= Rank(j)
  /\ active' = <<i, bound[i]>>
  /\ pending' = pending \ {i}
  /\ UNCHANGED <<up, bound>>

\* The handler is over.
Return ==
  /\ active' = <<>>
  /\ UNCHANGED <<up, pending, bound>>

INext ==
  \/ \E i \in Irq : Signal(i) \/ Bind(i) \/ Call(i)
  \/ SetUp
  \/ Return

ISpec == IInit /\ [][INext]_ivars
=============================================================================
