--------------------------- MODULE SecurityEvents ---------------------------
(***************************************************************************)
(* Brute-force detection (SecurityEventsService): failures are counted in  *)
(* Redis, a count over the threshold becomes a row of security_events, and *)
(* the call that creates the row mails the administrators.                 *)
(*                                                                         *)
(* AuthService does not await these calls (`void ...`), so they overlap    *)
(* freely; an action is one effect on Redis, on the database or on the     *)
(* mail service.  Any of them may fail, which ends the call (the error is  *)
(* caught and logged), and the process may die between two of them.  A     *)
(* subject is a kind of failure with an identifier: a key of Redis.        *)
(***************************************************************************)
EXTENDS Naturals, FiniteSets

CONSTANTS
  Subjects,     \* <type, identifier> pairs
  Counted,      \* those of recordFailedLogin and recordFailedTwoFactor
  Records,      \* the calls of the service
  Reports,      \* Reports[c]: the subjects call c may record
  Admins,       \* accounts with role admin or super
  Threshold,    \* LOGIN_THRESHOLD, TWO_FACTOR_THRESHOLD
  Window,       \* WINDOW_SECONDS
  MaxTime,      \* bound: the last instant
  NoSubject

ASSUME SecurityEventsAssumption ==
  /\ Counted \subseteq Subjects /\ NoSubject \notin Subjects
  /\ IsFiniteSet(Records) /\ Reports \in [Records -> SUBSET Subjects]
  /\ Threshold \in Nat \ {0, 1} /\ Window \in Nat \ {0} /\ MaxTime \in Nat

Times == 0 .. MaxTime
Buckets == {t \div Window : t \in Times}
Fingerprints == Subjects \X Buckets

VARIABLES
  now,          \* Date.now(), and the clock of Redis
  counter,      \* security:login_fail:*, security:2fa_fail:*
  deadline,     \* when the counter expires; 0 if it has no expiry
  occurrences,  \* security_events.occurrence_count; 0 if there is no row
  attempts,     \* security_events.attempts
  flagUntil,    \* security:alert_sent:*: when it expires
  pc,           \* where a call is suspended, or how it ended
  subject, at,  \* what a call records, and when it came
  count,        \* the answer of its INCR
  bucket,       \* its windowBucket
  pending,      \* the administrators it has yet to mail
  told          \* ... and those it has mailed

redis == <<counter, deadline, flagUntil>>
rows == <<occurrences, attempts>>
call == <<subject, at, count, bucket, pending, told>>
vars == <<now, redis, rows, pc, call>>

Suspended == {"expire", "counted", "find", "update", "create", "flag",
              "recipients", "send"}
Ended == {"below", "updated", "refused", "muted", "alerted", "lost", "cut"}

Init ==
  /\ now = 0
  /\ counter = [s \in Subjects |-> 0] /\ deadline = [s \in Subjects |-> 0]
  /\ occurrences = [f \in Fingerprints |-> 0]
  /\ attempts = [f \in Fingerprints |-> 0]
  /\ flagUntil = [f \in Fingerprints |-> 0]
  /\ pc = [c \in Records |-> "idle"]
  /\ subject = [c \in Records |-> NoSubject] /\ at = [c \in Records |-> 0]
  /\ count = [c \in Records |-> 0] /\ bucket = [c \in Records |-> 0]
  /\ pending = [c \in Records |-> {}] /\ told = [c \in Records |-> {}]

Goto(c, label) == pc' = [pc EXCEPT ![c] = label]
Fingerprint(c) == <<subject[c], bucket[c]>>

\* Mutant: the division by the window is forgotten.
TakeBucketOfNow(c) == bucket' = [bucket EXCEPT ![c] = now]

TakeBucket(c) == bucket' = [bucket EXCEPT ![c] = now \div Window]

Comes(c, s) ==
  /\ pc[c] = "idle"
  /\ subject' = [subject EXCEPT ![c] = s]
  /\ at' = [at EXCEPT ![c] = now]

-----------------------------------------------------------------------------
\* Mutant: the key does not tell the identifiers apart.
IncrementShared(s) ==
  LET live == {counter[t] : t \in {u \in Subjects : counter[u] > 0}}
  IN IF live = {} THEN 1 ELSE 1 + (CHOOSE n \in live : \A m \in live : m <= n)

\* INCR: a key that has expired starts again.
Increment(s) == IF deadline[s] # 0 /\ deadline[s] <= now THEN 1 ELSE counter[s] + 1

\* recordFailedLogin, recordFailedTwoFactor up to the first answer.
CountFailure(c, s) ==
  LET n == Increment(s)
  IN /\ s \in Counted /\ Comes(c, s)
     /\ counter' = [counter EXCEPT ![s] = n]
     /\ deadline' = [deadline EXCEPT ![s] = IF n = 1 THEN 0 ELSE @]
     /\ count' = [count EXCEPT ![c] = n]
     /\ Goto(c, IF n = 1 THEN "expire" ELSE IF n < Threshold THEN "below" ELSE "counted")
     /\ UNCHANGED <<now, flagUntil, rows, bucket, pending, told>>

\* Mutant: EXPIRE goes to the key of the alert.
SetExpiryOfFlag(c) ==
  /\ pc[c] = "expire"
  /\ Goto(c, "below")
  /\ UNCHANGED <<now, redis, rows, call>>

\* EXPIRE, by the call that counted 1 (which is under the threshold).
SetExpiry(c) ==
  /\ pc[c] = "expire"
  /\ deadline' = [deadline EXCEPT ![subject[c]] = now + Window]
  /\ Goto(c, "below")
  /\ UNCHANGED <<now, counter, flagUntil, rows, call>>

\* recordRefreshTokenReuse: no counter.
RecordReuse(c, s) ==
  /\ s \in Subjects \ Counted /\ Comes(c, s)
  /\ count' = [count EXCEPT ![c] = 1]
  /\ TakeBucket(c)
  /\ Goto(c, "find")
  /\ UNCHANGED <<now, redis, rows, pending, told>>

CrossThreshold(c) ==
  /\ pc[c] = "counted"
  /\ TakeBucket(c)
  /\ Goto(c, "find")
  /\ UNCHANGED <<now, redis, rows, subject, at, count, pending, told>>

-----------------------------------------------------------------------------
(* upsertAndMaybeAlert                                                     *)

FindRow(c) ==
  /\ pc[c] = "find"
  /\ Goto(c, IF occurrences[Fingerprint(c)] > 0 THEN "update" ELSE "create")
  /\ UNCHANGED <<now, redis, rows, call>>

\* Mutant: occurrence_count is written from the number of attempts.
UpdateRowFromCount(c) ==
  /\ pc[c] = "update"
  /\ occurrences' = [occurrences EXCEPT ![Fingerprint(c)] = count[c] - Threshold + 1]
  /\ attempts' = [attempts EXCEPT ![Fingerprint(c)] = count[c]]
  /\ Goto(c, "updated")
  /\ UNCHANGED <<now, redis, call>>

\* Mutant: the return after the update is forgotten.
UpdateRowAndAlert(c) ==
  /\ pc[c] = "update"
  /\ occurrences' = [occurrences EXCEPT ![Fingerprint(c)] = @ + 1]
  /\ attempts' = [attempts EXCEPT ![Fingerprint(c)] = count[c]]
  /\ Goto(c, "flag")
  /\ UNCHANGED <<now, redis, call>>

UpdateRow(c) ==
  /\ pc[c] = "update"
  /\ occurrences' = [occurrences EXCEPT ![Fingerprint(c)] = @ + 1]
  /\ attempts' = [attempts EXCEPT ![Fingerprint(c)] = count[c]]
  /\ Goto(c, "updated")
  /\ UNCHANGED <<now, redis, call>>

\* Mutant: the table has no unique index on fingerprint.
CreateRowTwice(c) ==
  /\ pc[c] = "create"
  /\ occurrences' = [occurrences EXCEPT ![Fingerprint(c)] = @ + 1]
  /\ attempts' = [attempts EXCEPT ![Fingerprint(c)] = count[c]]
  /\ Goto(c, "flag")
  /\ UNCHANGED <<now, redis, call>>

\* The unique index of fingerprint refuses the create of a call that read
\* before another created: the error is caught, nothing is recorded.
CreateRow(c) ==
  /\ pc[c] = "create"
  /\ LET f == Fingerprint(c)
     IN \/ /\ occurrences[f] = 0
           /\ occurrences' = [occurrences EXCEPT ![f] = 1]
           /\ attempts' = [attempts EXCEPT ![f] = count[c]]
           /\ Goto(c, "flag")
        \/ /\ occurrences[f] > 0
           /\ Goto(c, "refused")
           /\ UNCHANGED rows
  /\ UNCHANGED <<now, redis, call>>

\* Mutant: the key of the flag does not tell the windows apart.
SetFlagOfSubject(c) ==
  /\ pc[c] = "flag"
  /\ LET free == \A b \in Buckets : flagUntil[<<subject[c], b>>] <= now
     IN /\ flagUntil' = [flagUntil EXCEPT ![Fingerprint(c)] = IF free THEN now + Window ELSE @]
        /\ Goto(c, IF free THEN "recipients" ELSE "muted")
  /\ UNCHANGED <<now, counter, deadline, rows, call>>

\* SET EX NX.
SetFlag(c) ==
  /\ pc[c] = "flag"
  /\ LET free == flagUntil[Fingerprint(c)] <= now
     IN /\ flagUntil' = [flagUntil EXCEPT ![Fingerprint(c)] = IF free THEN now + Window ELSE @]
        /\ Goto(c, IF free THEN "recipients" ELSE "muted")
  /\ UNCHANGED <<now, counter, deadline, rows, call>>

-----------------------------------------------------------------------------
(* notifyRoles                                                             *)

\* findMany: the administrators that are active by then.
FindRecipients(c, active) ==
  /\ pc[c] = "recipients"
  /\ pending' = [pending EXCEPT ![c] = active]
  /\ Goto(c, "send")
  /\ UNCHANGED <<now, redis, rows, subject, at, count, bucket, told>>

\* One send after another, none of which throws.
Send(c, a, delivered) ==
  /\ pc[c] = "send" /\ a \in pending[c]
  /\ pending' = [pending EXCEPT ![c] = @ \ {a}]
  /\ told' = [told EXCEPT ![c] = IF delivered THEN @ \cup {a} ELSE @]
  /\ UNCHANGED <<now, redis, rows, pc, subject, at, count, bucket>>

SendDone(c) ==
  /\ pc[c] = "send" /\ pending[c] = {}
  /\ Goto(c, "alerted")
  /\ UNCHANGED <<now, redis, rows, call>>

-----------------------------------------------------------------------------
\* An effect fails, or the process dies.
Created == {"flag", "recipients", "send", "muted", "alerted", "cut"}

Interrupt(c) ==
  /\ pc[c] \in Suspended
  /\ Goto(c, IF pc[c] \in Created THEN "cut" ELSE "lost")
  /\ UNCHANGED <<now, redis, rows, call>>

Tick ==
  /\ now < MaxTime
  /\ now' = now + 1
  /\ UNCHANGED <<redis, rows, pc, call>>

Continue(c) ==
  \/ SetExpiry(c) \/ CrossThreshold(c)
  \/ FindRow(c) \/ UpdateRow(c) \/ CreateRow(c) \/ SetFlag(c)
  \/ \E active \in SUBSET Admins : FindRecipients(c, active)
  \/ \E a \in Admins, delivered \in BOOLEAN : Send(c, a, delivered)
  \/ SendDone(c)

Next ==
  \/ \E c \in Records :
       \/ \E s \in Reports[c] : CountFailure(c, s) \/ RecordReuse(c, s)
       \/ Continue(c) \/ Interrupt(c)
  \/ Tick

Spec == Init /\ [][Next]_vars
FairSpec == Spec /\ \A c \in Records : WF_vars(Continue(c))

-----------------------------------------------------------------------------
(* Properties                                                              *)

TypeOK ==
  /\ now \in Times
  /\ counter \in [Subjects -> Nat] /\ deadline \in [Subjects -> Nat]
  /\ occurrences \in [Fingerprints -> Nat] /\ attempts \in [Fingerprints -> Nat]
  /\ flagUntil \in [Fingerprints -> Nat]
  /\ pc \in [Records -> Suspended \cup Ended \cup {"idle"}]
  /\ subject \in [Records -> Subjects \cup {NoSubject}]
  /\ at \in [Records -> Times] /\ count \in [Records -> Nat]
  /\ bucket \in [Records -> Buckets]
  /\ pending \in [Records -> SUBSET Admins] /\ told \in [Records -> SUBSET Admins]

\* Nobody is mailed twice about one window of one subject, however long a call
\* is suspended and even after the NX flag has expired (93, 102, 107).
OneAlertPerFingerprint ==
  \A c, d \in Records :
    c # d /\ Fingerprint(c) = Fingerprint(d) => told[c] \cap told[d] = {}

\* occurrence_count is the number of calls that recorded: none is lost, none is
\* counted twice (97, 102).
Recorded(f) ==
  {c \in Records : pc[c] \in Created \cup {"updated"} /\ Fingerprint(c) = f}
OccurrencesAreCounted ==
  \A f \in Fingerprints : occurrences[f] = Cardinality(Recorded(f))

\* A row of a counted subject has attempts over the threshold, and that many
\* failures of this very subject came (50-55, 97).
Failures(s) == {c \in Records : subject[c] = s}
RowsHaveTheirFailures ==
  \A f \in Fingerprints :
    /\ attempts[f] <= Cardinality(Failures(f[1]))
    /\ occurrences[f] > 0 /\ f[1] \in Counted => attempts[f] >= Threshold

\* A counter that will never expire has a call about to give it its expiry, or
\* one that was interrupted just there (51).
CountersExpire ==
  \A s \in Counted :
    counter[s] > 0 /\ deadline[s] = 0 =>
      \E c \in Records : subject[c] = s /\ count[c] = 1 /\ pc[c] \in {"expire", "lost"}

\* Whatever interleaves between the answers of Redis and of the database
\* (51-53, 95-107), the rows and the mails keep the promises of AlertLog: a row
\* is opened once and only grows, on failures that came, and one call alone
\* tells each administrator of it once.
Letters(f) ==
  {l \in Records \X Admins : Fingerprint(l[1]) = f /\ l[2] \in told[l[1]]}

Log ==
  INSTANCE AlertLog WITH
    Calls <- Records, Readers <- Admins, Windows <- Buckets,
    failures <- [s \in Subjects |-> Failures(s)],
    seen <- occurrences,
    letters <- [f \in Fingerprints |-> Letters(f)]
ImplementsLog == Log!Spec

\* The call that created a row mails everyone, unless it is interrupted: the
\* flag never silences a new window (106-108).
CreatorsAlert == \A c \in Records : pc[c] = "flag" ~> pc[c] \in {"alerted", "cut"}

-----------------------------------------------------------------------------
(* The inductive invariant behind them                                     *)

\* What a call at each place has read, written and sent.
CallShape ==
  \A c \in Records :
    /\ pc[c] # "idle" => subject[c] \in Subjects
    /\ pc[c] = "idle" => subject[c] = NoSubject
    /\ pc[c] = "expire" => subject[c] \in Counted /\ count[c] = 1
    /\ pc[c] \in {"counted", "find", "update", "create"} /\ subject[c] \in Counted
         => count[c] >= Threshold
    /\ told[c] # {} => pc[c] \in {"send", "alerted", "cut"}

\* A row has one creator, and a row that a call updates or created is there.
OneCreator ==
  /\ \A c, d \in Records :
       pc[c] \in Created /\ pc[d] \in Created /\ Fingerprint(c) = Fingerprint(d) => c = d
  /\ \A c \in Records :
       pc[c] \in Created \cup {"update"} => occurrences[Fingerprint(c)] > 0

\* A flag was set by the creator of its row, which is past it.
FlagsOfCreators ==
  /\ \A f \in Fingerprints :
       flagUntil[f] # 0 =>
         \E c \in Records :
           pc[c] \in {"recipients", "send", "alerted", "cut"} /\ Fingerprint(c) = f
  /\ \A c \in Records : pc[c] # "muted"

\* What INCR answers never exceeds the failures that came.
CountsAreFailures ==
  /\ \A s \in Subjects : counter[s] <= Cardinality(Failures(s))
  /\ \A c \in Records :
       subject[c] \in Subjects => count[c] <= Cardinality(Failures(subject[c]))

\* A call has nobody left to mail whom it has mailed.
MailedOnce == \A c \in Records : pending[c] \cap told[c] = {}

EventsInv ==
  /\ TypeOK /\ CallShape /\ MailedOnce /\ OneCreator /\ FlagsOfCreators /\ CountsAreFailures
  /\ OccurrencesAreCounted /\ RowsHaveTheirFailures /\ CountersExpire

-----------------------------------------------------------------------------
(* What the comments say, and the code does not do                         *)

\* security-events.service.ts:25 (and redis.service.ts:10-12): the count has a
\* "ventana deslizante": of Threshold failures within one Window, whenever it
\* begins, one is not taken for a single mistake.
SlidingWindow ==
  \A C \in SUBSET Records :
    /\ Cardinality(C) = Threshold
    /\ \A c, d \in C : /\ pc[c] = "below" /\ subject[c] = subject[d]
                       /\ at[c] < at[d] + Window
    => FALSE
=============================================================================
