---------------------------- MODULE ConfirmedCall ----------------------------
(***************************************************************************)
(* What the configuration page may rely on when it asks a board, over two  *)
(* boards and a lossy link, to change or save its settings: the board      *)
(* decides a call at most once, possibly after the page has given up, and  *)
(* the page hears that decision or nothing.  A client that repeats a call  *)
(* does not make the board decide it again, but then nothing is promised   *)
(* of the answer.                                                          *)
(***************************************************************************)
EXTENDS Integers

CONSTANTS
  Call,      \* calls: the tokens the page draws
  Outcome,   \* what a board may decide
  None       \* no call, no outcome

VARIABLES
  call,      \* the last call the page made
  open,      \* the page waits for its answer
  again,     \* the page has repeated it
  outcome,   \* what the board decided about it
  answer,    \* what the page heard about it
  late       \* earlier calls nobody has decided yet

callVars == <<call, open, again, outcome, answer, late>>

Undecided == IF call # None /\ outcome = None THEN {call} ELSE {}

CallInit ==
  /\ call = None /\ open = FALSE /\ again = FALSE
  /\ outcome = None /\ answer = None /\ late = {}

Ask(c) ==
  /\ ~open /\ c # call /\ c \notin late
  /\ call' = c /\ open' = TRUE /\ again' = FALSE
  /\ outcome' = None /\ answer' = None
  /\ late' = late \cup Undecided

Repeat ==
  /\ call # None /\ open' = TRUE /\ again' = TRUE /\ answer' = None
  /\ UNCHANGED <<call, outcome, late>>

Decide ==
  /\ call # None /\ outcome = None
  /\ outcome' \in Outcome
  /\ UNCHANGED <<call, open, again, answer, late>>

DecideLate ==
  /\ \E c \in late : late' = late \ {c}
  /\ UNCHANGED <<call, open, again, outcome, answer>>

Answer ==
  /\ open /\ open' = FALSE
  /\ \/ outcome # None /\ answer' = outcome
     \/ again /\ answer' \in Outcome
  /\ UNCHANGED <<call, again, outcome, late>>

GiveUp ==
  /\ open /\ open' = FALSE
  /\ UNCHANGED <<call, again, outcome, answer, late>>

CallNext ==
  (\E c \in Call : Ask(c)) \/ Repeat \/ Decide \/ DecideLate \/ Answer \/ GiveUp

CallSpec == CallInit /\ [][CallNext]_callVars
=============================================================================
