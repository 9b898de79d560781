------------------------ MODULE SecurityEventsProofs ------------------------
(* Theorems about SecurityEvents, for every set of subjects, calls and      *)
(* administrators, any threshold, window and length of time.                *)
EXTENDS SecurityEvents, FiniteSetTheorems, TLAPS

\* The effect that all steps share: call c alone moves.
Moves(c) ==
  \A d \in Records \ {c} :
    /\ pc'[d] = pc[d] /\ subject'[d] = subject[d] /\ count'[d] = count[d]
    /\ bucket'[d] = bucket[d] /\ told'[d] = told[d] /\ pending'[d] = pending[d]

\* What moving calls do to themselves, once they have arrived.
Keeps(c) == subject'[c] = subject[c] /\ count'[c] = count[c]

\* A step of call c that records nothing.
Walk(c) ==
  \/ SetExpiry(c) \/ CrossThreshold(c) \/ FindRow(c) \/ SetFlag(c)
  \/ \E active \in SUBSET Admins : FindRecipients(c, active)
  \/ \E a \in Admins, delivered \in BOOLEAN : Send(c, a, delivered)
  \/ SendDone(c) \/ Interrupt(c)

Arrive(c) == \E s \in Reports[c] : CountFailure(c, s) \/ RecordReuse(c, s)

-----------------------------------------------------------------------------
\* The steps, in the four shapes of the proofs.
LEMMA Steps ==
  ASSUME [Next]_vars
  PROVE  \/ \E c \in Records : Arrive(c) \/ Walk(c) \/ UpdateRow(c) \/ CreateRow(c)
         \/ Tick
         \/ UNCHANGED vars
BY DEF Next, Continue, Walk, Arrive

LEMMA BucketType == \A t \in Times : t \div Window \in Buckets
BY DEF Buckets

\* Nothing has happened.
LEMMA InvInit == Init => EventsInv
<1> SUFFICES ASSUME Init PROVE EventsInv
    OBVIOUS
<1> USE SecurityEventsAssumption DEF Init
<1>1. 0 \in Times
      BY DEF Times
<1>2. 0 \div Window = 0
      OBVIOUS
<1>3. 0 \in Buckets
      BY <1>1, <1>2 DEF Buckets
<1>4. TypeOK
      BY <1>1, <1>3 DEF TypeOK, Suspended, Ended
<1>5. \A f : Recorded(f) = {}
      BY DEF Recorded, Created
<1>6. \A s : IsFiniteSet(Failures(s))
  <2> TAKE s
  <2>1. Failures(s) \in SUBSET Records
        BY DEF Failures
  <2> QED BY <2>1, FS_Subset
<1>7. \A s : Cardinality(Failures(s)) \in Nat
      BY <1>6, FS_CardinalityType
<1>8. OccurrencesAreCounted
      BY <1>5, FS_EmptySet DEF OccurrencesAreCounted
<1>9. CountsAreFailures /\ RowsHaveTheirFailures
      BY <1>7 DEF CountsAreFailures, RowsHaveTheirFailures
<1>10. CallShape /\ OneCreator /\ FlagsOfCreators /\ CountersExpire /\ MailedOnce
       BY DEF CallShape, OneCreator, FlagsOfCreators, CountersExpire, Created, MailedOnce
<1> QED BY <1>4, <1>8, <1>9, <1>10 DEF EventsInv

-----------------------------------------------------------------------------
\* Each step keeps the types.
LEMMA TypesKept ==
  ASSUME TypeOK, [Next]_vars
  PROVE  TypeOK'
<1> USE SecurityEventsAssumption DEF TypeOK, Goto, redis, rows, call
<1>1. now \div Window \in Buckets
      BY BucketType
<1>2. ASSUME NEW c \in Records, Arrive(c) PROVE TypeOK'
  <2>1. PICK s \in Reports[c] : CountFailure(c, s) \/ RecordReuse(c, s)
        BY <1>2 DEF Arrive
  <2>2. s \in Subjects
        OBVIOUS
  <2>3. CASE CountFailure(c, s)
    <3>1. Increment(s) \in Nat
          BY <2>2 DEF Increment
    <3>2. counter' \in [Subjects -> Nat] /\ deadline' \in [Subjects -> Nat]
          BY <2>2, <2>3, <3>1 DEF CountFailure
    <3>3. /\ subject' \in [Records -> Subjects \cup {NoSubject}]
          /\ at' \in [Records -> Times] /\ count' \in [Records -> Nat]
          BY <2>2, <2>3, <3>1 DEF CountFailure, Comes
    <3>4. pc' \in [Records -> Suspended \cup Ended \cup {"idle"}]
          BY <2>3 DEF CountFailure, Suspended, Ended
    <3> QED BY <2>3, <3>2, <3>3, <3>4 DEF CountFailure, Fingerprints
  <2>4. CASE RecordReuse(c, s)
    <3>1. pc' \in [Records -> Suspended \cup Ended \cup {"idle"}]
          BY <2>4 DEF RecordReuse, Suspended
    <3>2. /\ subject' \in [Records -> Subjects \cup {NoSubject}]
          /\ at' \in [Records -> Times] /\ count' \in [Records -> Nat]
          BY <2>2, <2>4 DEF RecordReuse, Comes
    <3>3. bucket' \in [Records -> Buckets]
          BY <1>1, <2>4 DEF RecordReuse, TakeBucket
    <3> QED BY <2>4, <3>1, <3>2, <3>3 DEF RecordReuse, Fingerprints
  <2> QED BY <2>1, <2>3, <2>4
<1>3. ASSUME NEW c \in Records, Walk(c) PROVE TypeOK'
  <2>1. CASE SetExpiry(c)
    <3>1. now + Window \in Nat
          BY DEF Times
    <3>2. deadline' \in [Subjects -> Nat]
          BY <2>1, <3>1 DEF SetExpiry
    <3>3. pc' \in [Records -> Suspended \cup Ended \cup {"idle"}]
          BY <2>1 DEF SetExpiry, Ended
    <3> QED BY <2>1, <3>2, <3>3 DEF SetExpiry
  <2>2. CASE CrossThreshold(c)
        BY <1>1, <2>2 DEF CrossThreshold, TakeBucket, Suspended
  <2>3. CASE FindRow(c)
        BY <2>3 DEF FindRow, Suspended
  <2>4. CASE SetFlag(c)
    <3>1. now + Window \in Nat
          BY DEF Times
    <3>2. flagUntil' \in [Fingerprints -> Nat]
          BY <2>4, <3>1 DEF SetFlag
    <3>3. pc' \in [Records -> Suspended \cup Ended \cup {"idle"}]
          BY <2>4 DEF SetFlag, Suspended, Ended
    <3> QED BY <2>4, <3>2, <3>3 DEF SetFlag
  <2>5. ASSUME NEW active \in SUBSET Admins, FindRecipients(c, active) PROVE TypeOK'
        BY <2>5 DEF FindRecipients, Suspended
  <2>6. ASSUME NEW a \in Admins, NEW delivered \in BOOLEAN, Send(c, a, delivered) PROVE TypeOK'
        BY <2>6 DEF Send
  <2>7. CASE SendDone(c)
        BY <2>7 DEF SendDone, Ended
  <2>8. CASE Interrupt(c)
        BY <2>8 DEF Interrupt, Ended
  <2> QED BY <1>3, <2>1, <2>2, <2>3, <2>4, <2>5, <2>6, <2>7, <2>8 DEF Walk
<1>4. ASSUME NEW c \in Records, UpdateRow(c) PROVE TypeOK'
  <2> DEFINE f == Fingerprint(c)
  <2>3. occurrences' = [occurrences EXCEPT ![f] = occurrences[f] + 1]
        BY <1>4 DEF UpdateRow
  <2>4. attempts' = [attempts EXCEPT ![f] = count[c]]
        BY <1>4 DEF UpdateRow
  <2> HIDE DEF f
  <2>5. \A g \in Fingerprints : occurrences[g] + 1 \in Nat
        OBVIOUS
  <2>1. occurrences' \in [Fingerprints -> Nat] /\ attempts' \in [Fingerprints -> Nat]
        BY <2>3, <2>4, <2>5
  <2>2. pc' \in [Records -> Suspended \cup Ended \cup {"idle"}]
        BY <1>4 DEF UpdateRow, Ended
  <2> QED BY <1>4, <2>1, <2>2 DEF UpdateRow
<1>5. ASSUME NEW c \in Records, CreateRow(c) PROVE TypeOK'
  <2>1. occurrences' \in [Fingerprints -> Nat] /\ attempts' \in [Fingerprints -> Nat]
        BY <1>5 DEF CreateRow
  <2>2. pc' \in [Records -> Suspended \cup Ended \cup {"idle"}]
        BY <1>5 DEF CreateRow, Suspended, Ended
  <2> QED BY <1>5, <2>1, <2>2 DEF CreateRow
<1>6. CASE Tick
      BY <1>6 DEF Tick, Times
<1>7. CASE UNCHANGED vars
      BY <1>7 DEF vars, Fingerprints
<1> QED BY <1>2, <1>3, <1>4, <1>5, <1>6, <1>7, Steps
-----------------------------------------------------------------------------
\* One call moves at a time.
LEMMA StepMoves ==
  ASSUME TypeOK, NEW c \in Records,
         Arrive(c) \/ Walk(c) \/ UpdateRow(c) \/ CreateRow(c)
  PROVE  Moves(c)
<1> USE DEF TypeOK, Moves, Goto, call, Comes, TakeBucket
<1>1. CASE Arrive(c)
      BY <1>1 DEF Arrive, CountFailure, RecordReuse
<1>2. CASE Walk(c)
  <2>1. CASE \/ SetExpiry(c) \/ CrossThreshold(c) \/ FindRow(c) \/ SetFlag(c)
             \/ SendDone(c) \/ Interrupt(c)
        BY <2>1 DEF SetExpiry, CrossThreshold, FindRow, SetFlag, SendDone, Interrupt
  <2>2. CASE \E active \in SUBSET Admins : FindRecipients(c, active)
        BY <2>2 DEF FindRecipients
  <2>3. CASE \E a \in Admins, delivered \in BOOLEAN : Send(c, a, delivered)
        BY <2>3 DEF Send
  <2> QED BY <1>2, <2>1, <2>2, <2>3 DEF Walk
<1>3. CASE UpdateRow(c) \/ CreateRow(c)
      BY <1>3 DEF UpdateRow, CreateRow
<1> QED BY <1>1, <1>2, <1>3

\* An arrival: the call has a subject, its answer, and has recorded nothing.
LEMMA ArriveEffect ==
  ASSUME TypeOK, NEW c \in Records, Arrive(c)
  PROVE  /\ pc[c] = "idle" /\ pc'[c] \in {"expire", "below", "counted", "find"}
         /\ subject'[c] \in Subjects /\ told'[c] = told[c]
         /\ pc'[c] = "expire" => subject'[c] \in Counted /\ count'[c] = 1
         /\ pc'[c] \in {"counted", "find"} /\ subject'[c] \in Counted
              => count'[c] >= Threshold
         /\ UNCHANGED <<rows, flagUntil>>
<1> USE SecurityEventsAssumption
    DEF TypeOK, Goto, Comes, TakeBucket, rows
<1>1. PICK s \in Reports[c] : CountFailure(c, s) \/ RecordReuse(c, s)
      BY DEF Arrive
<1>2. s \in Subjects
      OBVIOUS
<1>3. CASE CountFailure(c, s)
  <2> DEFINE n == Increment(s)
  <2>1. n \in Nat
        BY <1>2 DEF Increment
  <2>2. /\ pc[c] = "idle" /\ s \in Counted
        /\ pc'[c] = IF n = 1 THEN "expire" ELSE IF n < Threshold THEN "below" ELSE "counted"
        /\ subject'[c] = s /\ count'[c] = n /\ told'[c] = told[c]
        /\ UNCHANGED <<rows, flagUntil>>
        BY <1>3 DEF CountFailure
  <2> HIDE DEF n
  <2> QED BY <1>2, <2>1, <2>2
<1>4. CASE RecordReuse(c, s)
      BY <1>2, <1>4 DEF RecordReuse, redis
<1> QED BY <1>1, <1>3, <1>4

\* A walk: the call keeps its subject and its answer, the rows stay.
LEMMA WalkEffect ==
  ASSUME TypeOK, NEW c \in Records, Walk(c)
  PROVE  /\ Keeps(c) /\ UNCHANGED <<rows, counter>>
         /\ pc[c] \in Suspended
         /\ pc[c] = "counted" \/ bucket'[c] = bucket[c]
         /\ \/ pc[c] = "expire" /\ pc'[c] \in {"below", "lost"}
            \/ pc[c] = "counted" /\ pc'[c] \in {"find", "lost"}
            \/ pc[c] = "find" /\ pc'[c] \in {"update", "create", "lost"}
            \/ pc[c] \in {"update", "create"} /\ pc'[c] = "lost"
            \/ pc[c] \in {"flag", "recipients", "send"} /\ pc'[c] \in Created
         /\ pc'[c] = "update" => occurrences[Fingerprint(c)] > 0
         /\ told'[c] = told[c] \/ (pc[c] = "send" /\ pc'[c] = "send")
         /\ pc[c] = "send" => pc'[c] \in {"send", "alerted", "cut"}
         /\ (SetFlag(c) \/ flagUntil' = flagUntil)
<1> USE DEF TypeOK, Keeps, Goto, rows, redis, call, Created, Suspended
<1>1. CASE SetExpiry(c)
      BY <1>1 DEF SetExpiry
<1>2. CASE CrossThreshold(c)
      BY <1>2 DEF CrossThreshold
<1>3. CASE FindRow(c)
      BY <1>3 DEF FindRow
<1>4. CASE SetFlag(c)
      BY <1>4 DEF SetFlag
<1>5. CASE \E active \in SUBSET Admins : FindRecipients(c, active)
      BY <1>5 DEF FindRecipients
<1>6. CASE \E a \in Admins, delivered \in BOOLEAN : Send(c, a, delivered)
      BY <1>6 DEF Send
<1>7. CASE SendDone(c)
      BY <1>7 DEF SendDone
<1>8. CASE Interrupt(c)
      BY <1>8 DEF Interrupt
<1> QED BY <1>1, <1>2, <1>3, <1>4, <1>5, <1>6, <1>7, <1>8 DEF Walk

\* The two writes of a row.
LEMMA WriteEffect ==
  ASSUME TypeOK, NEW c \in Records, subject[c] \in Subjects,
         UpdateRow(c) \/ CreateRow(c)
  PROVE  /\ Fingerprint(c) \in Fingerprints /\ Keeps(c)
         /\ bucket'[c] = bucket[c] /\ told'[c] = told[c]
         /\ UNCHANGED <<counter, flagUntil, deadline>>
         /\ \A f \in Fingerprints \ {Fingerprint(c)} :
              occurrences'[f] = occurrences[f] /\ attempts'[f] = attempts[f]
         /\ \/ /\ pc[c] = "update" /\ pc'[c] = "updated"
               /\ occurrences'[Fingerprint(c)] = occurrences[Fingerprint(c)] + 1
               /\ attempts'[Fingerprint(c)] = count[c]
            \/ /\ pc[c] = "create" /\ pc'[c] = "flag"
               /\ occurrences[Fingerprint(c)] = 0 /\ occurrences'[Fingerprint(c)] = 1
               /\ attempts'[Fingerprint(c)] = count[c]
            \/ pc[c] = "create" /\ pc'[c] = "refused" /\ UNCHANGED rows
<1> USE DEF TypeOK, Keeps, Goto, rows, redis, call
<1>1. Fingerprint(c) \in Fingerprints
      BY DEF Fingerprint, Fingerprints
<1>2. CASE UpdateRow(c)
      BY <1>1, <1>2 DEF UpdateRow
<1>3. CASE CreateRow(c)
      BY <1>1, <1>3 DEF CreateRow
<1> QED BY <1>2, <1>3
-----------------------------------------------------------------------------
\* The shape of each call after a step of call c.
LEMMA ShapeKept ==
  ASSUME TypeOK, CallShape, [Next]_vars
  PROVE  CallShape'
<1> DEFINE Shape(d) ==
      /\ pc[d] # "idle" => subject[d] \in Subjects
      /\ pc[d] = "idle" => subject[d] = NoSubject
      /\ pc[d] = "expire" => subject[d] \in Counted /\ count[d] = 1
      /\ pc[d] \in {"counted", "find", "update", "create"} /\ subject[d] \in Counted
           => count[d] >= Threshold
      /\ told[d] # {} => pc[d] \in {"send", "alerted", "cut"}
<1>1. ASSUME NEW c \in Records, Arrive(c) \/ Walk(c) \/ UpdateRow(c) \/ CreateRow(c),
             NEW d \in Records
      PROVE  Shape(d)'
  <2>1. Shape(c) /\ Shape(d)
        BY DEF CallShape
  <2>2. CASE d # c
    <3>1. Moves(c)
          BY <1>1, StepMoves
    <3> QED BY <2>1, <2>2, <3>1 DEF Moves
  <2>3. CASE d = c /\ Arrive(c)
        BY <2>1, <2>3, ArriveEffect
  <2>4. CASE d = c /\ Walk(c)
        BY <2>1, <2>4, WalkEffect DEF Keeps, Created, Suspended
  <2>5. CASE d = c /\ (UpdateRow(c) \/ CreateRow(c))
    <3>1. pc[c] # "idle"
          BY <2>5 DEF UpdateRow, CreateRow
    <3> QED BY <2>1, <2>5, <3>1, WriteEffect DEF Keeps
  <2> QED BY <1>1, <2>2, <2>3, <2>4, <2>5
<1>2. CASE Tick \/ UNCHANGED vars
      BY <1>2 DEF Tick, vars, call, CallShape
<1>3. CASE \E c \in Records : Arrive(c) \/ Walk(c) \/ UpdateRow(c) \/ CreateRow(c)
      BY <1>1, <1>3 DEF CallShape
<1> QED BY <1>2, <1>3, Steps

\* A mail leaves those to be sent, and recipients are found before any is.
LEMMA MailedKept ==
  ASSUME TypeOK, CallShape, MailedOnce, [Next]_vars
  PROVE  MailedOnce'
<1>1. ASSUME NEW c \in Records, Arrive(c) \/ Walk(c) \/ UpdateRow(c) \/ CreateRow(c)
      PROVE  MailedOnce'
  <2>1. Moves(c)
        BY <1>1, StepMoves
  <2>2. pending'[c] \cap told'[c] = {}
    <3>1. pending[c] \cap told[c] = {}
          BY DEF MailedOnce
    <3>2. CASE UNCHANGED <<pending, told>>
          BY <3>1, <3>2
    <3>3. ASSUME NEW active \in SUBSET Admins, FindRecipients(c, active)
          PROVE  pending'[c] \cap told'[c] = {}
          BY <3>3 DEF FindRecipients, CallShape
    <3>4. ASSUME NEW a \in Admins, NEW delivered \in BOOLEAN, Send(c, a, delivered)
          PROVE  pending'[c] \cap told'[c] = {}
          BY <3>1, <3>4 DEF Send, TypeOK
    <3> QED BY <1>1, <3>2, <3>3, <3>4 DEF Arrive, CountFailure, RecordReuse, Walk, SetExpiry,
              CrossThreshold, FindRow, SetFlag, SendDone, Interrupt, UpdateRow, CreateRow, call
  <2> QED BY <2>1, <2>2 DEF Moves, MailedOnce
<1>2. CASE Tick \/ UNCHANGED vars
      BY <1>2 DEF Tick, vars, call, MailedOnce
<1> QED BY <1>1, <1>2, Steps

\* The unique index: a row is created once, and rows never go.
LEMMA CreatorKept ==
  ASSUME TypeOK, CallShape, OneCreator, [Next]_vars
  PROVE  OneCreator'
<1> DEFINE Backed(d) == pc[d] \in Created \cup {"update"} => occurrences[Fingerprint(d)] > 0
           Pair(d, e) ==
             pc[d] \in Created /\ pc[e] \in Created /\ Fingerprint(d) = Fingerprint(e) => d = e
<1>1. ASSUME NEW c \in Records, Arrive(c) \/ Walk(c)
      PROVE  OneCreator'
  <2>1. Moves(c)
        BY <1>1, StepMoves
  <2>2. UNCHANGED rows
        BY <1>1, ArriveEffect, WalkEffect
  <2>3. CASE Arrive(c)
    <3>1. pc'[c] \notin Created \cup {"update"}
          BY <2>3, ArriveEffect DEF Created
    <3> QED BY <2>1, <2>2, <3>1 DEF OneCreator, Moves, Fingerprint, rows
  <2>4. CASE Walk(c)
    <3>1. /\ pc'[c] \in Created => pc[c] \in Created
          /\ pc'[c] = "update" => occurrences[Fingerprint(c)] > 0
          /\ pc'[c] \in Created \cup {"update"} => Fingerprint(c)' = Fingerprint(c)
          BY <2>4, WalkEffect DEF Created, Suspended, Keeps, Fingerprint
    <3>2. \A d \in Records \ {c} : Fingerprint(d)' = Fingerprint(d)
          BY <2>1 DEF Moves, Fingerprint
    <3> QED BY <2>1, <2>2, <3>1, <3>2 DEF OneCreator, Moves, rows
  <2> QED BY <1>1, <2>3, <2>4
<1>2. ASSUME NEW c \in Records, UpdateRow(c) \/ CreateRow(c)
      PROVE  OneCreator'
  <2>1. Moves(c)
        BY <1>2, StepMoves
  <2>2. \A d \in Records : Fingerprint(d)' = Fingerprint(d)
    <3>1. pc[c] # "idle" /\ bucket' = bucket /\ subject' = subject
          BY <1>2 DEF UpdateRow, CreateRow, call
    <3> QED BY <3>1 DEF Fingerprint
  <2>3. subject[c] \in Subjects
        BY <1>2 DEF CallShape, UpdateRow, CreateRow
  <2>4. \A d \in Records : pc[d] \in Created \cup {"update"} => Fingerprint(d) \in Fingerprints
        BY DEF CallShape, Created, TypeOK, Fingerprint, Fingerprints
  <2>5. \A f \in Fingerprints : occurrences[f] > 0 => occurrences'[f] > 0
        BY <1>2, <2>3, WriteEffect DEF TypeOK, rows
  <2>6. pc'[c] \in Created =>
          occurrences[Fingerprint(c)] = 0 /\ occurrences'[Fingerprint(c)] = 1
        BY <1>2, <2>3, WriteEffect DEF Created
  <2>7. pc'[c] # "update"
        BY <1>2, <2>3, WriteEffect
  <2>8. \A d \in Records \ {c} : pc[d] \in Created => occurrences[Fingerprint(d)] # 0
        BY DEF OneCreator
  <2>9. \A d, e \in Records : Pair(d, e)'
        BY <2>1, <2>2, <2>6, <2>8 DEF OneCreator, Moves
  <2>10. \A d \in Records : Backed(d)'
        BY <2>1, <2>2, <2>4, <2>5, <2>6, <2>7 DEF OneCreator, Moves
  <2> QED BY <2>9, <2>10 DEF OneCreator
<1>3. CASE Tick \/ UNCHANGED vars
      BY <1>3 DEF Tick, vars, rows, call, OneCreator, Fingerprint
<1> QED BY <1>1, <1>2, <1>3, Steps

\* SET NX: the only call that can find a flag is the one that would set it.
LEMMA FlagsKept ==
  ASSUME TypeOK, CallShape, OneCreator, FlagsOfCreators, [Next]_vars
  PROVE  FlagsOfCreators'
<1> DEFINE Past == {"recipients", "send", "alerted", "cut"}
<1>1. ASSUME NEW c \in Records, Arrive(c) \/ Walk(c) \/ UpdateRow(c) \/ CreateRow(c),
             flagUntil' = flagUntil
      PROVE  FlagsOfCreators'
  <2>1. Moves(c)
        BY <1>1, StepMoves
  <2>2. pc[c] \in Past => pc'[c] \in Past /\ Fingerprint(c)' = Fingerprint(c)
    <3>1. CASE Walk(c)
      <4>1. CASE pc[c] = "recipients"
            BY <3>1, <4>1 DEF Walk, SetExpiry, CrossThreshold, FindRow, SetFlag,
              FindRecipients, Send, SendDone, Interrupt, Goto, TypeOK, Created, Fingerprint,
              call
      <4>2. CASE pc[c] # "recipients"
            BY <3>1, <4>2, WalkEffect DEF Suspended, Keeps, Fingerprint
      <4> QED BY <4>1, <4>2
    <3>2. CASE ~Walk(c)
          BY <1>1, <3>2, ArriveEffect DEF UpdateRow, CreateRow
    <3> QED BY <3>1, <3>2
  <2>3. pc'[c] # "muted"
    <3>1. CASE Walk(c)
      <4>1. ASSUME SetFlag(c) PROVE pc'[c] # "muted"
        <5>1. Fingerprint(c) \in Fingerprints /\ pc[c] = "flag"
              BY <4>1 DEF SetFlag, CallShape, TypeOK, Fingerprint, Fingerprints
        <5>2. flagUntil[Fingerprint(c)] = 0
              BY <5>1 DEF FlagsOfCreators, OneCreator, Created
        <5>3. 0 <= now
              BY DEF TypeOK, Times
        <5> QED BY <4>1, <5>2, <5>3 DEF SetFlag, Goto, TypeOK
      <4> QED BY <3>1, <4>1 DEF Walk, SetExpiry, CrossThreshold, FindRow, FlagsOfCreators,
                FindRecipients, Send, SendDone, Interrupt, Goto, TypeOK
    <3>2. CASE ~Walk(c)
          BY <1>1, <3>2, ArriveEffect DEF UpdateRow, CreateRow, Goto, TypeOK
    <3> QED BY <3>1, <3>2
  <2>4. \A d \in Records : pc[d] \in Past => pc'[d] \in Past /\ Fingerprint(d)' = Fingerprint(d)
        BY <2>1, <2>2 DEF Moves, Fingerprint
  <2> QED BY <1>1, <2>1, <2>3, <2>4 DEF FlagsOfCreators, Moves
<1>2. ASSUME NEW c \in Records, SetFlag(c) PROVE FlagsOfCreators'
  <2>1. Fingerprint(c) \in Fingerprints /\ pc[c] = "flag"
        BY <1>2 DEF SetFlag, CallShape, TypeOK, Fingerprint, Fingerprints
  <2>2. flagUntil[Fingerprint(c)] = 0
        BY <2>1 DEF FlagsOfCreators, OneCreator, Created
  <2>3. 0 <= now
        BY DEF TypeOK, Times
  <2>4. pc' = [pc EXCEPT ![c] = "recipients"]
        BY <1>2, <2>2, <2>3 DEF SetFlag, Goto
  <2>5. \A f \in Fingerprints \ {Fingerprint(c)} : flagUntil'[f] = flagUntil[f]
        BY <1>2 DEF SetFlag, TypeOK
  <2>6. \A d \in Records : Fingerprint(d)' = Fingerprint(d)
        BY <1>2 DEF SetFlag, call, Fingerprint
  <2> QED BY <2>1, <2>4, <2>5, <2>6 DEF FlagsOfCreators, TypeOK
<1>3. CASE Tick \/ UNCHANGED vars
      BY <1>3 DEF Tick, vars, redis, call, FlagsOfCreators, Fingerprint
<1>4. ASSUME NEW c \in Records, Arrive(c) \/ Walk(c) \/ UpdateRow(c) \/ CreateRow(c)
      PROVE  SetFlag(c) \/ flagUntil' = flagUntil
      BY <1>4, ArriveEffect, WalkEffect DEF UpdateRow, CreateRow, redis
<1> QED BY <1>1, <1>2, <1>3, <1>4, Steps
-----------------------------------------------------------------------------
\* Sets of calls are finite.
LEMMA CallsAreFinite ==
  /\ \A f : IsFiniteSet(Recorded(f)) /\ Cardinality(Recorded(f)) \in Nat
  /\ \A s : IsFiniteSet(Failures(s)) /\ Cardinality(Failures(s)) \in Nat
<1>1. \A f : Recorded(f) \in SUBSET Records
      BY DEF Recorded
<1>2. \A s : Failures(s) \in SUBSET Records
      BY DEF Failures
<1> QED BY <1>1, <1>2, FS_Subset, FS_CardinalityType, SecurityEventsAssumption

\* An arrival is one more failure of its subject; nothing takes one away.
LEMMA FailuresGrow ==
  ASSUME TypeOK, TypeOK', CallShape, [Next]_vars, NEW s \in Subjects
  PROVE  /\ Cardinality(Failures(s)) \in Nat /\ Cardinality(Failures(s)') \in Nat
         /\ Cardinality(Failures(s)) <= Cardinality(Failures(s)')
         /\ \A c \in Records :
              Arrive(c) /\ subject'[c] = s =>
                Cardinality(Failures(s)') = Cardinality(Failures(s)) + 1
<1>1. ASSUME NEW c \in Records, Arrive(c), subject'[c] = s
      PROVE  Cardinality(Failures(s)') = Cardinality(Failures(s)) + 1
  <2>1. Moves(c)
        BY <1>1, StepMoves
  <2>2. c \notin Failures(s)
        BY <1>1, ArriveEffect, SecurityEventsAssumption DEF CallShape, Failures
  <2>3. Failures(s)' = Failures(s) \cup {c}
        BY <1>1, <2>1 DEF Failures, Moves
  <2> QED BY <2>2, <2>3, CallsAreFinite, FS_AddElement
<1>2. ASSUME ~ \E c \in Records : Arrive(c) /\ subject'[c] = s
      PROVE  Failures(s)' = Failures(s)
  <2>1. ASSUME NEW c \in Records, Arrive(c) PROVE Failures(s)' = Failures(s)
    <3>1. Moves(c) /\ subject'[c] # s
          BY <1>2, <2>1, StepMoves
    <3>2. subject[c] # s
          BY <2>1, ArriveEffect, SecurityEventsAssumption DEF CallShape
    <3> QED BY <3>1, <3>2 DEF Moves, Failures
  <2>2. ASSUME NEW c \in Records, Walk(c) \/ UpdateRow(c) \/ CreateRow(c)
        PROVE  Failures(s)' = Failures(s)
    <3>1. Moves(c) /\ subject'[c] = subject[c]
      <4>1. CASE Walk(c)
            BY <4>1, StepMoves, WalkEffect DEF Keeps
      <4>2. CASE UpdateRow(c) \/ CreateRow(c)
            BY <4>2, StepMoves DEF UpdateRow, CreateRow, call
      <4> QED BY <2>2, <4>1, <4>2
    <3> QED BY <3>1 DEF Moves, Failures
  <2>3. CASE Tick \/ UNCHANGED vars
        BY <2>3 DEF Tick, vars, call, Failures
  <2> QED BY <2>1, <2>2, <2>3, Steps
<1>3. Cardinality(Failures(s)') \in Nat
  <2>1. Failures(s)' \in SUBSET Records
        BY DEF Failures
  <2> QED BY <2>1, FS_Subset, FS_CardinalityType, SecurityEventsAssumption
<1>4. Cardinality(Failures(s)) \in Nat
      BY CallsAreFinite
<1>5. Cardinality(Failures(s)) <= Cardinality(Failures(s)')
      BY <1>1, <1>2, <1>4
<1> QED BY <1>1, <1>3, <1>4, <1>5

\* INCR answers one more than before, or starts again.
LEMMA CountsKept ==
  ASSUME TypeOK, TypeOK', CallShape, CountsAreFailures, [Next]_vars
  PROVE  CountsAreFailures'
<1>1. ASSUME NEW s \in Subjects PROVE counter'[s] <= Cardinality(Failures(s)')
  <2>1. counter[s] \in Nat /\ counter[s] <= Cardinality(Failures(s))
        BY DEF TypeOK, CountsAreFailures
  <2>2. CASE counter'[s] = counter[s]
        BY <2>1, <2>2, FailuresGrow
  <2>3. ASSUME NEW c \in Records, NEW t \in Reports[c], CountFailure(c, t)
        PROVE  counter'[s] <= Cardinality(Failures(s)')
    <3>1. CASE t = s
      <4>1. Arrive(c) /\ subject'[c] = s /\ counter'[s] = Increment(s)
            BY <2>3, <3>1 DEF Arrive, CountFailure, Comes, TypeOK
      <4>2. Increment(s) <= counter[s] + 1
            BY <2>1 DEF Increment
      <4>3. Cardinality(Failures(s)') = Cardinality(Failures(s)) + 1
            BY <4>1, FailuresGrow
      <4>4. Increment(s) \in Nat
            BY <2>1 DEF Increment
      <4> QED BY <2>1, <4>1, <4>2, <4>3, <4>4, CallsAreFinite
    <3>2. CASE t # s
          BY <2>2, <2>3, <3>2 DEF CountFailure, TypeOK
    <3> QED BY <3>1, <3>2
  <2>4. ASSUME NEW c \in Records, Walk(c) \/ UpdateRow(c) \/ CreateRow(c)
        PROVE  counter' = counter
        BY <2>4, WalkEffect DEF UpdateRow, CreateRow, redis
  <2>5. ASSUME NEW c \in Records, NEW t \in Reports[c], RecordReuse(c, t)
        PROVE  counter' = counter
        BY <2>5 DEF RecordReuse, redis
  <2>6. CASE Tick \/ UNCHANGED vars
        BY <2>2, <2>6 DEF Tick, vars, redis
  <2> QED BY <2>2, <2>3, <2>4, <2>5, <2>6, Steps DEF Arrive
<1>2. ASSUME NEW d \in Records, subject'[d] \in Subjects
      PROVE  count'[d] <= Cardinality(Failures(subject[d])')
  <2>1. ASSUME NEW c \in Records, Arrive(c), d = c
        PROVE  count'[d] <= Cardinality(Failures(subject[d])')
    <3>1. PICK t \in Reports[c] : CountFailure(c, t) \/ RecordReuse(c, t)
          BY <2>1 DEF Arrive
    <3>2. t \in Subjects /\ subject'[d] = t
          BY <2>1, <3>1, SecurityEventsAssumption DEF CountFailure, RecordReuse, Comes, TypeOK
    <3>3. CASE CountFailure(c, t)
      <4>1. count'[d] = counter'[t]
            BY <2>1, <3>2, <3>3 DEF CountFailure, TypeOK
      <4> QED BY <1>1, <3>2, <4>1
    <3>4. CASE RecordReuse(c, t)
      <4>1. count'[d] = 1
            BY <2>1, <3>4 DEF RecordReuse, TypeOK
      <4>2. Cardinality(Failures(t)') = Cardinality(Failures(t)) + 1
            BY <2>1, <3>2, FailuresGrow
      <4> QED BY <3>2, <4>1, <4>2, CallsAreFinite
    <3> QED BY <3>1, <3>3, <3>4
  <2>2. CASE subject'[d] = subject[d] /\ count'[d] = count[d]
    <3>1. count[d] \in Nat /\ count[d] <= Cardinality(Failures(subject[d]))
          BY <1>2, <2>2 DEF CountsAreFailures, TypeOK
    <3> QED BY <1>2, <2>2, <3>1, FailuresGrow
  <2>3. ASSUME NEW c \in Records, Arrive(c) \/ Walk(c) \/ UpdateRow(c) \/ CreateRow(c), d # c
        PROVE  subject'[d] = subject[d] /\ count'[d] = count[d]
        BY <2>3, StepMoves DEF Moves
  <2>4. ASSUME NEW c \in Records, Walk(c) \/ UpdateRow(c) \/ CreateRow(c), d = c
        PROVE  subject'[d] = subject[d] /\ count'[d] = count[d]
        BY <2>4, WalkEffect DEF UpdateRow, CreateRow, call, Keeps
  <2>5. CASE Tick \/ UNCHANGED vars
        BY <2>2, <2>5 DEF Tick, vars, call
  <2> QED BY <2>1, <2>2, <2>3, <2>4, <2>5, Steps
<1> QED BY <1>1, <1>2 DEF CountsAreFailures
-----------------------------------------------------------------------------
\* The calls that recorded into a row, after a step.
LEMMA OccurrencesKept ==
  ASSUME TypeOK, CallShape, OccurrencesAreCounted, [Next]_vars
  PROVE  OccurrencesAreCounted'
<1> DEFINE Done == Created \cup {"updated"}
<1> SUFFICES ASSUME NEW f \in Fingerprints
             PROVE  occurrences'[f] = Cardinality(Recorded(f)')
    BY DEF OccurrencesAreCounted
<1>1. occurrences[f] = Cardinality(Recorded(f)) /\ IsFiniteSet(Recorded(f))
      BY CallsAreFinite DEF OccurrencesAreCounted
<1>2. ASSUME NEW c \in Records, Arrive(c) \/ Walk(c)
      PROVE  occurrences'[f] = Cardinality(Recorded(f)')
  <2>1. Moves(c) /\ UNCHANGED rows
        BY <1>2, StepMoves, ArriveEffect, WalkEffect
  <2>2. c \in Recorded(f)' <=> c \in Recorded(f)
    <3>1. CASE Arrive(c)
          BY <3>1, ArriveEffect DEF Recorded, Created
    <3>2. CASE Walk(c)
          BY <3>2, WalkEffect DEF Recorded, Created, Keeps, Suspended, Fingerprint
    <3> QED BY <1>2, <3>1, <3>2
  <2>3. Recorded(f)' = Recorded(f)
        BY <2>1, <2>2 DEF Recorded, Moves, Fingerprint
  <2> QED BY <1>1, <2>1, <2>3 DEF rows
<1>3. ASSUME NEW c \in Records, UpdateRow(c) \/ CreateRow(c)
      PROVE  occurrences'[f] = Cardinality(Recorded(f)')
  <2>1. Moves(c) /\ subject[c] \in Subjects
        BY <1>3, StepMoves DEF CallShape, UpdateRow, CreateRow
  <2>2. Fingerprint(c)' = Fingerprint(c) /\ pc[c] \notin Done
        BY <1>3, <2>1, WriteEffect DEF Keeps, Fingerprint, Created
  <2>3. CASE f = Fingerprint(c) /\ pc'[c] \in Done
    <3>1. Recorded(f)' = Recorded(f) \cup {c} /\ c \notin Recorded(f)
          BY <2>1, <2>2, <2>3 DEF Recorded, Moves, Fingerprint
    <3>2. Cardinality(Recorded(f)') = Cardinality(Recorded(f)) + 1
          BY <1>1, <3>1, FS_AddElement
    <3>3. occurrences'[f] = occurrences[f] + 1
          BY <1>3, <2>1, <2>3, WriteEffect DEF Created
    <3> QED BY <1>1, <3>2, <3>3
  <2>4. CASE ~(f = Fingerprint(c) /\ pc'[c] \in Done)
    <3>1. Recorded(f)' = Recorded(f)
          BY <2>1, <2>2, <2>4 DEF Recorded, Moves, Fingerprint
    <3>2. occurrences'[f] = occurrences[f]
          BY <1>3, <2>1, <2>4, WriteEffect DEF rows, Created
    <3> QED BY <1>1, <3>1, <3>2
  <2> QED BY <2>3, <2>4
<1>4. CASE Tick \/ UNCHANGED vars
      BY <1>1, <1>4 DEF Tick, vars, rows, call, Recorded, Fingerprint
<1> QED BY <1>2, <1>3, <1>4, Steps

\* The attempts of a row are some call's count.
LEMMA RowsKept ==
  ASSUME TypeOK, TypeOK', CallShape, OneCreator, CountsAreFailures, RowsHaveTheirFailures,
         [Next]_vars
  PROVE  RowsHaveTheirFailures'
<1> SUFFICES ASSUME NEW f \in Fingerprints
             PROVE  /\ attempts'[f] <= Cardinality(Failures(f[1])')
                    /\ occurrences'[f] > 0 /\ f[1] \in Counted => attempts'[f] >= Threshold
    BY DEF RowsHaveTheirFailures
<1>1. f[1] \in Subjects
      BY DEF Fingerprints
<1>2. attempts[f] \in Nat /\ attempts[f] <= Cardinality(Failures(f[1]))
      BY DEF TypeOK, RowsHaveTheirFailures
<1>3. Cardinality(Failures(f[1])) <= Cardinality(Failures(f[1])')
      BY <1>1, FailuresGrow
<1>4. Cardinality(Failures(f[1])) \in Nat /\ Cardinality(Failures(f[1])') \in Nat
      BY <1>1, FailuresGrow
<1>5. CASE attempts'[f] = attempts[f] /\ occurrences'[f] = occurrences[f]
      BY <1>2, <1>3, <1>4, <1>5 DEF RowsHaveTheirFailures
<1>6. ASSUME NEW c \in Records, UpdateRow(c) \/ CreateRow(c),
             ~(attempts'[f] = attempts[f] /\ occurrences'[f] = occurrences[f])
      PROVE  /\ attempts'[f] <= Cardinality(Failures(f[1])')
             /\ occurrences'[f] > 0 /\ f[1] \in Counted => attempts'[f] >= Threshold
  <2>1. subject[c] \in Subjects /\ pc[c] \in {"update", "create"}
        BY <1>6 DEF CallShape, UpdateRow, CreateRow
  <2>2. f = Fingerprint(c) /\ attempts'[f] = count[c]
        BY <1>6, <2>1, WriteEffect DEF rows
  <2>3. f[1] = subject[c]
        BY <2>2 DEF Fingerprint
  <2>4. count[c] \in Nat /\ count[c] <= Cardinality(Failures(f[1]))
        BY <2>1, <2>3 DEF CountsAreFailures, TypeOK
  <2>5. f[1] \in Counted => count[c] >= Threshold
        BY <2>1, <2>3 DEF CallShape
  <2> QED BY <1>3, <1>4, <2>2, <2>4, <2>5
<1>7. ASSUME NEW c \in Records, Arrive(c) \/ Walk(c)
      PROVE  UNCHANGED rows
      BY <1>7, ArriveEffect, WalkEffect
<1>8. CASE Tick \/ UNCHANGED vars
      BY <1>5, <1>8 DEF Tick, vars, rows
<1> QED BY <1>5, <1>6, <1>7, <1>8, Steps DEF rows

\* The call that opens a counter is the witness until it sets the expiry.
LEMMA ExpiryKept ==
  ASSUME TypeOK, CallShape, CountersExpire, [Next]_vars
  PROVE  CountersExpire'
<1> DEFINE Witness(s, d) ==
      subject[d] = s /\ count[d] = 1 /\ pc[d] \in {"expire", "lost"}
<1> SUFFICES ASSUME NEW s \in Counted, counter'[s] > 0, deadline'[s] = 0
             PROVE  \E d \in Records : Witness(s, d)'
    BY DEF CountersExpire
<1>1. s \in Subjects
      BY SecurityEventsAssumption
<1>2. counter[s] > 0 /\ deadline[s] = 0 => \E d \in Records : Witness(s, d)
      BY DEF CountersExpire
<1>3. ASSUME NEW c \in Records, Walk(c) \/ UpdateRow(c) \/ CreateRow(c) \/ Arrive(c),
             NEW d \in Records, Witness(s, d), counter[s] > 0, deadline[s] = 0
      PROVE  \E e \in Records : Witness(s, e)'
  <2>1. CASE d # c
        BY <1>3, <2>1, StepMoves DEF Moves
  <2>2. CASE d = c /\ SetExpiry(c)
    <3>1. deadline'[s] = now + Window
          BY <1>1, <1>3, <2>2 DEF SetExpiry, TypeOK
    <3>2. now + Window > 0
          BY SecurityEventsAssumption DEF TypeOK, Times
    <3> QED BY <3>1, <3>2
  <2>3. CASE d = c /\ ~SetExpiry(c)
    <3>1. Walk(c)
          BY <1>3, <2>3, ArriveEffect DEF UpdateRow, CreateRow
    <3>2. pc[c] = "expire" /\ Interrupt(c)
          BY <1>3, <2>3, <3>1 DEF Walk, CrossThreshold, FindRow, SetFlag, FindRecipients, Send,
            SendDone, Interrupt, Suspended
    <3>3. pc'[c] = "lost"
          BY <3>2 DEF Interrupt, Goto, TypeOK, Created
    <3> QED BY <1>3, <2>3, <3>1, <3>3, WalkEffect DEF Keeps
  <2> QED BY <2>1, <2>2, <2>3
<1>4. CASE counter'[s] = counter[s] /\ deadline'[s] = deadline[s]
  <2>1. PICK d \in Records : Witness(s, d)
        BY <1>2, <1>4
  <2>2. CASE Tick \/ UNCHANGED vars
        BY <2>1, <2>2 DEF Tick, vars, call
  <2> QED BY <1>3, <1>4, <2>1, <2>2, Steps
<1>5. ASSUME NEW c \in Records, NEW t \in Reports[c], CountFailure(c, t), t = s
      PROVE  \E d \in Records : Witness(s, d)'
  <2>1. /\ counter'[s] = Increment(s) /\ count'[c] = Increment(s) /\ subject'[c] = s
        /\ pc'[c] = IF Increment(s) = 1 THEN "expire"
                    ELSE IF Increment(s) < Threshold THEN "below" ELSE "counted"
        /\ deadline'[s] = IF Increment(s) = 1 THEN 0 ELSE deadline[s]
        BY <1>1, <1>5 DEF CountFailure, Comes, Goto, TypeOK
  <2>2. CASE Increment(s) = 1
        BY <2>1, <2>2
  <2>3. CASE Increment(s) # 1
    <3>1. counter[s] > 0 /\ deadline[s] = 0
          BY <1>1, <2>1, <2>3 DEF Increment, TypeOK
    <3>2. PICK d \in Records : Witness(s, d)
          BY <1>2, <3>1
    <3>3. Arrive(c)
          BY <1>5 DEF Arrive
    <3> QED BY <1>3, <3>1, <3>2, <3>3
  <2> QED BY <2>2, <2>3
<1>6. ASSUME NEW c \in Records, NEW t \in Reports[c], CountFailure(c, t), t # s
      PROVE  counter'[s] = counter[s] /\ deadline'[s] = deadline[s]
      BY <1>1, <1>6 DEF CountFailure, TypeOK
<1>7. ASSUME NEW c \in Records, NEW t \in Reports[c], RecordReuse(c, t)
      PROVE  counter'[s] = counter[s] /\ deadline'[s] = deadline[s]
      BY <1>7 DEF RecordReuse, redis
<1>8. ASSUME NEW c \in Records, SetExpiry(c)
      PROVE  counter'[s] = counter[s] /\ deadline'[s] = deadline[s]
  <2>1. subject[c] # s
    <3>1. now + Window > 0
          BY SecurityEventsAssumption DEF TypeOK, Times
    <3> QED BY <1>1, <1>8, <3>1 DEF SetExpiry, TypeOK
  <2> QED BY <1>1, <1>8, <2>1 DEF SetExpiry, TypeOK
<1>9. ASSUME NEW c \in Records, Walk(c) \/ UpdateRow(c) \/ CreateRow(c), ~SetExpiry(c)
      PROVE  UNCHANGED <<counter, deadline>>
      BY <1>9 DEF Walk, CrossThreshold, FindRow, SetFlag, FindRecipients, Send, SendDone,
         Interrupt, UpdateRow, CreateRow, redis
<1>10. CASE Tick \/ UNCHANGED vars
       BY <1>4, <1>10 DEF Tick, vars, redis
<1> QED BY <1>4, <1>5, <1>6, <1>7, <1>8, <1>9, <1>10, Steps DEF Arrive

-----------------------------------------------------------------------------
\* The invariant behind the theorems below holds of every behaviour.
THEOREM EventsSafe == Spec => []EventsInv
<1>1. ASSUME EventsInv, [Next]_vars PROVE EventsInv'
  <2>1. TypeOK'
        BY <1>1, TypesKept DEF EventsInv
  <2> QED BY <1>1, <2>1, ShapeKept, MailedKept, CreatorKept, FlagsKept, CountsKept, OccurrencesKept,
            RowsKept, ExpiryKept DEF EventsInv
<1> QED BY <1>1, InvInit, PTL DEF Spec

\* Every variable keeps its type.
THEOREM EventsTypes == Spec => []TypeOK
<1>1. EventsInv => TypeOK
      BY DEF EventsInv
<1> QED BY <1>1, EventsSafe, PTL

\* Nobody is mailed twice about one window of one subject: only the creator of
\* a row mails, and a row has one.
THEOREM OneAlert == Spec => []OneAlertPerFingerprint
<1>1. EventsInv => OneAlertPerFingerprint
      BY DEF EventsInv, CallShape, OneCreator, OneAlertPerFingerprint, Created
<1> QED BY <1>1, EventsSafe, PTL

\* occurrence_count is the number of calls that recorded.
THEOREM OccurrencesCounted == Spec => []OccurrencesAreCounted
<1>1. EventsInv => OccurrencesAreCounted
      BY DEF EventsInv
<1> QED BY <1>1, EventsSafe, PTL

\* A row has attempts over the threshold, all of them failures of its subject.
THEOREM RowsAreBacked == Spec => []RowsHaveTheirFailures
<1>1. EventsInv => RowsHaveTheirFailures
      BY DEF EventsInv
<1> QED BY <1>1, EventsSafe, PTL

\* Only an interruption between INCR and EXPIRE leaves a counter for ever.
THEOREM CountersAreBounded == Spec => []CountersExpire
<1>1. EventsInv => CountersExpire
      BY DEF EventsInv
<1> QED BY <1>1, EventsSafe, PTL

-----------------------------------------------------------------------------
(* The rows and the mails keep the promises of AlertLog.                   *)

\* The failures that the log knows are the calls with a subject.
LEMMA FailuresRest ==
  ASSUME subject' = subject
  PROVE  \A s : Failures(s)' = Failures(s)
BY DEF Failures

\* No letter comes or goes while told stays and only a call that has told nobody
\* changes its fingerprint.
LEMMA LettersRest ==
  ASSUME TypeOK,
         \A d \in Records :
           told'[d] = told[d] /\ (told[d] # {} => Fingerprint(d)' = Fingerprint(d))
  PROVE  \A f : Letters(f)' = Letters(f)
<1> TAKE f
<1>1. \A l \in Records \X Admins :
        l[2] \in told'[l[1]] /\ Fingerprint(l[1])' = f <=>
          l[2] \in told[l[1]] /\ Fingerprint(l[1]) = f
      OBVIOUS
<1> QED BY <1>1 DEF Letters

\* The instance of AlertLog counts as this module does.
LEMMA LogCounts == \A S : Log!Cardinality(S) = Cardinality(S)
BY DEF Cardinality, Log!Cardinality

\* Nothing has been reported, recorded or told.
LEMMA LogInit ==
  ASSUME Init
  PROVE  Log!Init
<1>1. \A s \in Subjects : Failures(s) = {}
      BY SecurityEventsAssumption DEF Init, Failures
<1>2. \A f : Letters(f) = {}
      BY DEF Init, Letters
<1> QED BY <1>1, <1>2 DEF Init, Log!Init, Log!Events, Fingerprints

\* A call that comes has failed, whatever its counter answers.
LEMMA ArriveFails ==
  ASSUME EventsInv, NEW c \in Records, Arrive(c)
  PROVE  Log!Next
<1> USE DEF EventsInv
<1>1. /\ pc[c] = "idle" /\ subject'[c] \in Subjects /\ told[c] = {} /\ told'[c] = told[c]
      /\ UNCHANGED rows /\ subject[c] = NoSubject
      BY ArriveEffect DEF CallShape
<1>2. Moves(c)
      BY StepMoves
<1> DEFINE s == subject'[c]
<1>3. \A t \in Subjects : c \notin Failures(t)
      BY <1>1, SecurityEventsAssumption DEF Failures
<1>4. \A t \in Subjects : Failures(t)' = IF t = s THEN Failures(t) \cup {c} ELSE Failures(t)
      BY <1>1, <1>2, <1>3 DEF Failures, Moves
<1>5. \A f : Letters(f)' = Letters(f)
      BY <1>1, <1>2, LettersRest DEF Moves, Fingerprint
<1>6. Log!Fail(c, s)
      BY <1>1, <1>3, <1>4, <1>5 DEF Log!Fail, rows
<1> QED BY <1>1, <1>6 DEF Log!Next

\* The mail of an alert: by the creator of the row, to one it has yet to mail.
LEMMA SendTells ==
  ASSUME EventsInv, NEW c \in Records, NEW a \in Admins, NEW delivered \in BOOLEAN,
         Send(c, a, delivered)
  PROVE  Log!Next \/ UNCHANGED Log!vars
<1> USE DEF EventsInv
<1>1. /\ pc[c] = "send" /\ a \in pending[c] /\ UNCHANGED <<rows, subject, bucket>>
      /\ told' = [told EXCEPT ![c] = IF delivered THEN @ \cup {a} ELSE @]
      BY DEF Send
<1> DEFINE e == Fingerprint(c)
<1>2. e \in Fingerprints /\ e[1] = subject[c] /\ subject[c] \in Subjects
      BY <1>1 DEF CallShape, TypeOK, Fingerprint, Fingerprints
<1>3. occurrences[e] > 0
      BY <1>1 DEF OneCreator, Created
<1>4. c \in Failures(subject[c]) /\ \A s : Failures(s)' = Failures(s)
      BY <1>1, FailuresRest DEF Failures
<1>5. \A d : Fingerprint(d)' = Fingerprint(d)
      BY <1>1 DEF Fingerprint
<1>6. Letters(e) \subseteq {c} \X Admins
  <2> SUFFICES ASSUME NEW l \in Letters(e) PROVE l[1] = c
      BY DEF Letters
  <2>1. l[1] \in Records /\ told[l[1]] # {} /\ Fingerprint(l[1]) = e
        BY DEF Letters
  <2> QED BY <1>1, <2>1 DEF CallShape, OneCreator, Created
<1>7. CASE delivered
  <2>1. <<c, a>> \notin Letters(e)
        BY <1>1 DEF Letters, MailedOnce
  <2>2. \A f : Letters(f)' = IF f = e THEN Letters(f) \cup {<<c, a>>} ELSE Letters(f)
    <3> TAKE f
    <3>1. \A l \in Records \X Admins :
            l[2] \in told'[l[1]] <=> l[2] \in told[l[1]] \/ l = <<c, a>>
          BY <1>1, <1>7 DEF TypeOK
    <3> QED BY <1>5, <3>1 DEF Letters
  <2>3. Log!Tell(e, c, a)
        BY <1>1, <1>2, <1>3, <1>4, <1>6, <2>1, <2>2 DEF Log!Tell, rows
  <2> QED BY <1>2, <2>3 DEF Log!Next, Log!Events, Fingerprints
<1>8. CASE ~delivered
  <2>1. \A f : Letters(f)' = Letters(f)
        BY <1>1, <1>5, <1>8, LettersRest DEF TypeOK
  <2> QED BY <1>1, <1>4, <2>1 DEF Log!vars, rows
<1> QED BY <1>7, <1>8

\* A walk changes nothing else that the log tells.
LEMMA WalkTells ==
  ASSUME EventsInv, NEW c \in Records, Walk(c)
  PROVE  Log!Next \/ UNCHANGED Log!vars
<1> USE DEF EventsInv
<1>1. CASE \E a \in Admins, delivered \in BOOLEAN : Send(c, a, delivered)
      BY <1>1, SendTells
<1>2. CASE ~ \E a \in Admins, delivered \in BOOLEAN : Send(c, a, delivered)
  <2>1. told' = told /\ subject' = subject
        BY <1>2 DEF Walk, SetExpiry, CrossThreshold, FindRow, SetFlag, FindRecipients,
           SendDone, Interrupt, call
  <2>2. Moves(c) /\ UNCHANGED rows /\ (told[c] # {} => bucket'[c] = bucket[c])
        BY StepMoves, WalkEffect DEF CallShape
  <2>3. \A f : Letters(f)' = Letters(f)
        BY <2>1, <2>2, LettersRest DEF Moves, Fingerprint
  <2> QED BY <2>1, <2>2, <2>3, FailuresRest DEF Log!vars, rows
<1> QED BY <1>1, <1>2

\* A row is written on failures of its subject that the log knows.
LEMMA WriteClaims ==
  ASSUME EventsInv, NEW c \in Records, UpdateRow(c) \/ CreateRow(c)
  PROVE  Log!Next \/ UNCHANGED Log!vars
<1> USE DEF EventsInv
<1>1. /\ pc[c] \in {"update", "create"} /\ subject[c] \in Subjects
      /\ UNCHANGED <<subject, told, bucket>>
      BY DEF UpdateRow, CreateRow, CallShape, call
<1> DEFINE e == Fingerprint(c)
           n == count[c]
<1>2. /\ e \in Fingerprints /\ e[1] = subject[c]
      /\ \A s : Failures(s)' = Failures(s)
      /\ \A f : Letters(f)' = Letters(f)
      BY <1>1, FailuresRest, LettersRest DEF CallShape, TypeOK, Fingerprint, Fingerprints
<1>3. n \in Nat /\ n <= Cardinality(Failures(subject[c]))
      BY <1>1 DEF TypeOK, CountsAreFailures
<1>4. subject[c] \in Counted => n >= Threshold
      BY <1>1 DEF CallShape
<1>5. n \in 0 .. Cardinality(Records)
  <2>1. Failures(subject[c]) \subseteq Records
        BY DEF Failures
  <2>2. /\ Cardinality(Failures(subject[c])) <= Cardinality(Records)
        /\ Cardinality(Failures(subject[c])) \in Nat /\ Cardinality(Records) \in Nat
        BY <2>1, FS_Subset, FS_CardinalityType, SecurityEventsAssumption
  <2> QED BY <1>3, <2>2
<1>6. occurrences \in [Fingerprints -> Nat] /\ attempts \in [Fingerprints -> Nat]
      BY DEF TypeOK
<1>7. CASE UpdateRow(c)
  <2>1. /\ occurrences' = [occurrences EXCEPT ![e] = @ + 1]
        /\ attempts' = [attempts EXCEPT ![e] = n]
        BY <1>7 DEF UpdateRow
  <2>2. occurrences[e] > 0
        BY <1>7 DEF UpdateRow, OneCreator
  <2>3. Log!Repeat(e, n)
        BY <1>1, <1>2, <1>3, <1>4, <2>1, <2>2, LogCounts DEF Log!Repeat, Log!Claim
  <2> QED BY <1>2, <1>5, <2>3, LogCounts DEF Log!Next, Log!Events, Fingerprints
<1>8. CASE CreateRow(c) /\ occurrences[e] = 0
  <2>1. /\ occurrences' = [occurrences EXCEPT ![e] = 1]
        /\ attempts' = [attempts EXCEPT ![e] = n]
        BY <1>8 DEF CreateRow
  <2>2. Log!Open(e, n)
        BY <1>1, <1>2, <1>3, <1>4, <1>8, <2>1, LogCounts DEF Log!Open, Log!Claim
  <2> QED BY <1>2, <1>5, <2>2, LogCounts DEF Log!Next, Log!Events, Fingerprints
<1>9. CASE CreateRow(c) /\ occurrences[e] # 0
  <2>1. UNCHANGED rows
        BY <1>9 DEF CreateRow
  <2> QED BY <1>2, <2>1 DEF Log!vars, rows
<1> QED BY <1>7, <1>8, <1>9

\* Whatever overlaps and whatever fails, the rows and the mails keep the
\* promises of AlertLog: an event is opened once, on failures that came, only
\* grows, and is told to each administrator once, by its creator.
THEOREM LogImplemented == Spec => ImplementsLog
<1>1. Init => Log!Init
      BY LogInit
<1>2. ASSUME EventsInv, [Next]_vars PROVE Log!Next \/ UNCHANGED Log!vars
  <2>1. CASE Tick \/ UNCHANGED vars
    <3>1. UNCHANGED <<rows, subject, told, bucket>>
          BY <2>1 DEF Tick, vars, call
    <3>2. /\ \A s : Failures(s)' = Failures(s)
          /\ \A f : Letters(f)' = Letters(f)
          BY <1>2, <3>1, FailuresRest, LettersRest DEF Fingerprint, EventsInv
    <3> QED BY <3>1, <3>2 DEF Log!vars, rows
  <2> QED BY <1>2, <2>1, Steps, ArriveFails, WalkTells, WriteClaims
<1>3. EventsInv /\ [Next]_vars => [Log!Next]_(Log!vars)
      BY <1>2
<1> QED BY <1>1, <1>3, EventsSafe, PTL DEF Spec, ImplementsLog, Log!Spec
=============================================================================
