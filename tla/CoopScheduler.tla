---------------------------- MODULE CoopScheduler ----------------------------
(***************************************************************************)
(* What a cooperative scheduler promises: a thread that has been created   *)
(* waits, runs once to its end without interruption by another, and then   *)
(* is over; when a thread ends, the one that has waited longest runs next, *)
(* and the processor idles only when none waits.                           *)
(***************************************************************************)
EXTENDS Integers

CONSTANTS
  Thread,   \* what may become a thread
  NoThread  \* stands for the idle processor and for the time before the start

VARIABLES
  ticket,   \* created thread -> its place in the order of creation
  waiting,  \* the threads that have not run yet
  running,  \* the thread that runs
  open      \* whether the scheduler has been started

cvars == <<ticket, waiting, running, open>>

CInit ==
  /\ ticket = <<>>
  /\ waiting = {}
  /\ running = NoThread
  /\ open = FALSE

\* A thread is created, by the boot code or by the running thread, and gets a
\* higher ticket than every thread before it.
Create(t) ==
  /\ open => running # NoThread
  /\ t \notin DOMAIN ticket
  /\ DOMAIN ticket' = DOMAIN ticket \union {t}
  /\ \A u \in DOMAIN ticket : ticket'[u] = ticket[u] /\ ticket[u] < ticket'[t]
  /\ waiting' = waiting \union {t}
  /\ UNCHANGED <<running, open>>

\* The thread that has waited longest, or none, takes the processor.
Dispatch ==
  /\ \/ /\ waiting = {}
        /\ running' = NoThread
        /\ waiting' = waiting
     \/ \E t \in waiting :
          /\ \A u \in waiting : ticket[t] <= ticket[u]
          /\ running' = t
          /\ waiting' = waiting \ {t}
  /\ UNCHANGED ticket

Open ==
  /\ ~ open
  /\ open' = TRUE
  /\ Dispatch

\* The running thread ends.
Finish ==
  /\ open
  /\ running # NoThread
  /\ Dispatch
  /\ UNCHANGED open

CNext ==
  \/ \E t \in Thread : Create(t)
  \/ Open
  \/ Finish

CSpec == CInit /\ [][CNext]_cvars
=============================================================================
