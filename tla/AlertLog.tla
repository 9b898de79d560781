------------------------------ MODULE AlertLog ------------------------------
(***************************************************************************)
(* What the record of security events promises: an event is opened once,   *)
(* on as many failures of its subject as it claims (and, where failures    *)
(* are counted, on no fewer than the threshold); every further record of   *)
(* it adds one; and it is told to each reader at most once, all of them by *)
(* one call that failed.  Nothing that was recorded or told is taken back. *)
(***************************************************************************)
EXTENDS Naturals, FiniteSets

CONSTANTS
  Subjects,
  Counted,     \* the subjects whose failures are counted
  Calls,
  Readers,
  Windows,     \* of time; an event is a subject in one of them
  Threshold

Events == Subjects \X Windows

VARIABLES
  failures,    \* the calls that reported a failure of a subject
  seen,        \* how often an event was recorded
  attempts,    \* the failures it last claimed
  letters      \* <<call, reader>>: by whom it was told to whom

vars == <<failures, seen, attempts, letters>>

Init ==
  /\ failures = [s \in Subjects |-> {}]
  /\ seen = [e \in Events |-> 0] /\ attempts = [e \in Events |-> 0]
  /\ letters = [e \in Events |-> {}]

Fail(c, s) ==
  /\ \A t \in Subjects : c \notin failures[t]
  /\ failures' = [failures EXCEPT ![s] = @ \cup {c}]
  /\ UNCHANGED <<seen, attempts, letters>>

\* Event e is recorded, as the n-th failure of its subject.
Claim(e, n) ==
  /\ n <= Cardinality(failures[e[1]])
  /\ e[1] \in Counted => n >= Threshold
  /\ attempts' = [attempts EXCEPT ![e] = n]
  /\ UNCHANGED <<failures, letters>>

Open(e, n) ==
  /\ seen[e] = 0 /\ Claim(e, n)
  /\ seen' = [seen EXCEPT ![e] = 1]

Repeat(e, n) ==
  /\ seen[e] > 0 /\ Claim(e, n)
  /\ seen' = [seen EXCEPT ![e] = @ + 1]

Tell(e, c, r) ==
  /\ seen[e] > 0 /\ c \in failures[e[1]]
  /\ <<c, r>> \notin letters[e] /\ letters[e] \subseteq {c} \X Readers
  /\ letters' = [letters EXCEPT ![e] = @ \cup {<<c, r>>}]
  /\ UNCHANGED <<failures, seen, attempts>>

Next ==
  \/ \E c \in Calls, s \in Subjects : Fail(c, s)
  \/ \E e \in Events :
       \/ \E n \in 0 .. Cardinality(Calls) : Open(e, n) \/ Repeat(e, n)
       \/ \E c \in Calls, r \in Readers : Tell(e, c, r)

Spec == Init /\ [][Next]_vars
=============================================================================
