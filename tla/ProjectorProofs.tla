--------------------------- MODULE ProjectorProofs ---------------------------
(***************************************************************************)
(* The projector's guarantees for any set of runs and envelopes, any       *)
(* number of EventBridge copies and any number of Lambda attempts.         *)
(***************************************************************************)
EXTENDS Projector, FiniteSetTheorems, TLAPS

\* A delivery that is still being worked on has attempts left.
AttemptsLeft == \A d \in queue \cup committing : d.tries < MAX_ATTEMPTS

\* Between the commit and CreateEvent an envelope is a row, is not in memory
\* yet, and is in the hands of one invocation only.
OneForwarder ==
  /\ \A d \in committing : d.env \in rows /\ memory[d.env] = 0
  /\ \A d, b \in committing : d.env = b.env => d = b

IInv == TypeOK /\ AttemptsLeft /\ OneForwarder /\ NoDuplicateRows
          /\ GuardsMatchRows /\ MemoryFollowsRows /\ NothingLost

\* The transaction's two conditions say that no row of the log is this event.
LEMMA ConditionsMeanFresh ==
  ASSUME TypeOK, GuardsMatchRows, NEW e \in Envelope
  PROVE  ConditionsHold(e) <=> \A f \in rows : ~SameRow(e, f)
<1>1. e.dlv # NoDelivery =>
        (guard_row(e) \in guards <=> \E f \in rows : e.run = f.run /\ SameDelivery(e, f))
  BY DEF GuardsMatchRows, guard_row, SameDelivery
<1> QED
  BY <1>1 DEF ConditionsHold, event_row_free, guard_row_free, SameRow, SameDelivery

\* A failed attempt keeps its envelope, in the queue or among the dropped.
LEMMA GiveBackKeeps ==
  ASSUME TypeOK, NEW d \in Delivery, d.tries < MAX_ATTEMPTS, NEW q \in SUBSET Delivery,
         GiveBack(d, q)
  PROVE  /\ queue' \subseteq Delivery /\ discarded' \subseteq Delivery
         /\ q \subseteq queue' /\ discarded \subseteq discarded'
         /\ \A b \in queue' : b \in q \/ b.tries < MAX_ATTEMPTS
         /\ \E b \in queue' \cup discarded' : b.env = d.env
<1>1. /\ d.env \in Envelope /\ d.copy \in Nat \ {0} /\ d.tries \in Nat
      /\ Retried(d) = [env |-> d.env, copy |-> d.copy, tries |-> d.tries + 1]
  BY ProjectorAssumption DEF Delivery, Retried
<1>2. Retried(d) \in Delivery
  BY <1>1, ProjectorAssumption DEF Delivery
<1>3. Retried(d).env = d.env /\ Retried(d).tries = d.tries + 1
  BY <1>1
<1>4. CASE d.tries + 1 < MAX_ATTEMPTS
  BY <1>2, <1>3, <1>4 DEF GiveBack, TypeOK
<1>5. CASE ~(d.tries + 1 < MAX_ATTEMPTS)
  BY <1>2, <1>3, <1>5 DEF GiveBack, TypeOK
<1> QED
  BY <1>4, <1>5

\* Properties of the tables survive a step that does not write them.
LEMMA TablesUnchanged ==
  ASSUME IInv, UNCHANGED <<rows, guards, memory>>
  PROVE  NoDuplicateRows' /\ GuardsMatchRows' /\ MemoryFollowsRows'
  BY DEF IInv, NoDuplicateRows, GuardsMatchRows, MemoryFollowsRows

LEMMA InitIInv == Init => IInv
<1> SUFFICES ASSUME Init PROVE IInv
  OBVIOUS
<1>1. TypeOK
  <2>1. EmptySummary \in [status : EventTypes \cup {NoStatus}, last_event_id : Nat,
                          pr_url : {NoPr} \cup {e.pr : e \in Envelope}, total : Nat]
    BY DEF EmptySummary
  <2> QED
    BY <2>1 DEF Init, TypeOK
<1>2. AttemptsLeft /\ OneForwarder /\ NoDuplicateRows /\ MemoryFollowsRows /\ NothingLost
  BY DEF Init, AttemptsLeft, OneForwarder, NoDuplicateRows, MemoryFollowsRows, NothingLost
<1>3. GuardsMatchRows
  BY DEF Init, GuardsMatchRows
<1> QED
  BY <1>1, <1>2, <1>3 DEF IInv

\* The bus puts envelopes and further copies of them into the queue.
LEMMA BusStep ==
  ASSUME IInv, NEW e \in Envelope, Publish(e) \/ DeliverAgain(e)
  PROVE  IInv'
<1>1. PICK c \in Nat \ {0} :
        /\ queue' = queue \cup {[env |-> e, copy |-> c, tries |-> 0]}
        /\ published' = published \cup {e}
        /\ UNCHANGED <<committing, discarded, rows, guards, summary, stream, memory>>
  <2>1. CASE Publish(e)
    BY <2>1, ProjectorAssumption DEF Publish
  <2>2. CASE DeliverAgain(e)
    BY <2>2, ProjectorAssumption DEF DeliverAgain
  <2> QED
    BY <2>1, <2>2
<1> DEFINE new == [env |-> e, copy |-> c, tries |-> 0]
<1>2. new \in Delivery /\ new.tries < MAX_ATTEMPTS /\ new.env = e
  BY ProjectorAssumption DEF Delivery
<1> HIDE DEF new
<1>3. queue' = queue \cup {new}
  BY <1>1 DEF new
<1>4. TypeOK'
  BY <1>1, <1>2, <1>3 DEF IInv, TypeOK
<1>5. AttemptsLeft' /\ OneForwarder'
  BY <1>1, <1>2, <1>3 DEF IInv, AttemptsLeft, OneForwarder
<1>6. NothingLost'
  BY <1>1, <1>2, <1>3 DEF IInv, NothingLost
<1> QED
  BY <1>1, <1>4, <1>5, <1>6, TablesUnchanged DEF IInv

\* The transaction commits.
LEMMA CommitStep ==
  ASSUME IInv, NEW d \in queue, Commit(d)
  PROVE  IInv'
<1> DEFINE e == d.env
<1>1. /\ e \in Envelope /\ e.run \in Runs /\ e.type \in EventTypes
      /\ e.id \in Nat /\ e.dlv \in Nat /\ e.usage \in Nat /\ d \in Delivery
      /\ d.tries < MAX_ATTEMPTS
  BY ProjectorAssumption DEF IInv, TypeOK, Delivery, AttemptsLeft
<1>2. \A f \in rows : ~SameRow(e, f)
  BY <1>1, ConditionsMeanFresh DEF IInv, Commit
<1>3. e \notin rows
  BY <1>2 DEF SameRow
<1>4. memory[e] = 0
  BY <1>1, <1>3 DEF IInv, MemoryFollowsRows, TypeOK
<1> HIDE DEF e
<1>5. /\ rows' = rows \cup {e}
      /\ guards' = guards \cup webhook_delivery_row(e)
      /\ summary' = [summary EXCEPT ![e.run] = summary_row(@, e)]
      /\ stream' = [stream EXCEPT ![e.run] = @ + 1]
      /\ queue' = queue \ {d}
      /\ committing' = committing \cup {d}
      /\ UNCHANGED <<published, discarded, memory>>
      /\ d.env = e
  BY DEF Commit, e
<1>6. TypeOK'
  <2>1. webhook_delivery_row(e) \subseteq Runs \X (Nat \ {NoDelivery}) \X EventTypes
    BY <1>1 DEF webhook_delivery_row, guard_row
  <2>2. summary_row(summary[e.run], e) \in
          [status : EventTypes \cup {NoStatus}, last_event_id : Nat,
           pr_url : {NoPr} \cup {f.pr : f \in Envelope}, total : Nat]
    BY <1>1 DEF summary_row, IInv, TypeOK
  <2> QED
    BY <1>1, <1>5, <2>1, <2>2 DEF IInv, TypeOK
<1>7. AttemptsLeft'
  BY <1>1, <1>5 DEF IInv, AttemptsLeft
<1>8. OneForwarder'
  <2>1. \A b \in committing : b.env # e
    BY <1>3 DEF IInv, OneForwarder
  <2> QED
    BY <1>4, <1>5, <2>1 DEF IInv, OneForwarder
<1>9. NoDuplicateRows'
  BY <1>2, <1>5 DEF IInv, NoDuplicateRows, SameRow, SameDelivery
<1>10. GuardsMatchRows'
  BY <1>5 DEF IInv, GuardsMatchRows, webhook_delivery_row, guard_row
<1>11. MemoryFollowsRows'
  BY <1>5 DEF IInv, MemoryFollowsRows
<1>12. NothingLost'
  <2>1. SameRow(e, e)
    BY DEF SameRow
  <2> QED
    BY <1>5, <2>1 DEF IInv, NothingLost
<1> QED
  BY <1>6, <1>7, <1>8, <1>9, <1>10, <1>11, <1>12 DEF IInv

\* The transaction's conditions fail, or the envelope is malformed.
LEMMA NoopStep ==
  ASSUME IInv, NEW d \in queue, AlreadyProjected(d) \/ Reject(d)
  PROVE  IInv'
<1>1. /\ queue' = queue \ {d}
      /\ UNCHANGED <<published, committing, discarded, rows, guards, summary, stream, memory>>
  BY DEF AlreadyProjected, Reject
<1>2. TypeOK' /\ AttemptsLeft' /\ OneForwarder'
  BY <1>1 DEF IInv, TypeOK, AttemptsLeft, OneForwarder
<1>3. ~d.env.wellformed \/ \E f \in rows : SameRow(d.env, f)
  <2>1. CASE AlreadyProjected(d)
    <3>1. d.env \in Envelope
      BY DEF IInv, TypeOK, Delivery
    <3> QED
      BY <2>1, <3>1, ConditionsMeanFresh DEF AlreadyProjected, IInv
  <2>2. CASE Reject(d)
    BY <2>2 DEF Reject
  <2> QED
    BY <2>1, <2>2
<1>4. NothingLost'
  BY <1>1, <1>3 DEF IInv, NothingLost
<1> QED
  BY <1>1, <1>2, <1>4, TablesUnchanged DEF IInv

\* An attempt fails and its delivery is given back or dropped.
LEMMA FailureStep ==
  ASSUME IInv, NEW d \in queue \cup committing,
         TransactionFails(d) \/ CrashBeforeForward(d) \/ CrashAfterForward(d)
  PROVE  IInv'
<1>1. d \in Delivery /\ d.tries < MAX_ATTEMPTS /\ d.env \in Envelope
  BY DEF IInv, TypeOK, AttemptsLeft, Delivery
<1>2. PICK q \in SUBSET Delivery :
        /\ GiveBack(d, q) /\ queue \ {d} \subseteq q /\ q \subseteq queue
  BY DEF TransactionFails, CrashBeforeForward, CrashAfterForward, IInv, TypeOK
<1>3. /\ committing' \subseteq committing
      /\ memory' # memory => d \in committing /\ d \notin committing'
                             /\ memory' = [memory EXCEPT ![d.env] = @ + 1]
      /\ UNCHANGED <<published, rows, guards, summary, stream>>
  BY DEF TransactionFails, CrashBeforeForward, CrashAfterForward
<1>4. /\ queue' \subseteq Delivery /\ discarded' \subseteq Delivery
      /\ q \subseteq queue' /\ discarded \subseteq discarded'
      /\ \A b \in queue' : b \in q \/ b.tries < MAX_ATTEMPTS
      /\ \E b \in queue' \cup discarded' : b.env = d.env
  BY <1>1, <1>2, GiveBackKeeps DEF IInv
<1>5. TypeOK'
  BY <1>1, <1>3, <1>4 DEF IInv, TypeOK
<1>6. AttemptsLeft'
  BY <1>2, <1>3, <1>4 DEF IInv, AttemptsLeft
<1>7. OneForwarder' /\ MemoryFollowsRows'
  <2>1. CASE memory' = memory
    BY <1>3, <2>1 DEF IInv, OneForwarder, MemoryFollowsRows
  <2>2. CASE memory' # memory
    BY <1>1, <1>3, <2>2 DEF IInv, OneForwarder, MemoryFollowsRows, TypeOK
  <2> QED
    BY <2>1, <2>2
<1>8. NoDuplicateRows' /\ GuardsMatchRows'
  BY <1>3 DEF IInv, NoDuplicateRows, GuardsMatchRows
<1>9. NothingLost'
  BY <1>2, <1>3, <1>4 DEF IInv, NothingLost
<1> QED
  BY <1>5, <1>6, <1>7, <1>8, <1>9 DEF IInv

\* CreateEvent returns, with or without an error.
LEMMA ForwardStep ==
  ASSUME IInv, NEW d \in committing, Forward(d) \/ ForwardFails(d)
  PROVE  IInv'
<1>1. d.env \in Envelope /\ d.env \in rows /\ memory[d.env] = 0
  BY DEF IInv, TypeOK, Delivery, OneForwarder
<1>2. /\ committing' = committing \ {d}
      /\ memory' = memory \/ memory' = [memory EXCEPT ![d.env] = @ + 1]
      /\ UNCHANGED <<published, queue, discarded, rows, guards, summary, stream>>
  BY DEF Forward, ForwardFails
<1>3. TypeOK' /\ AttemptsLeft'
  BY <1>1, <1>2 DEF IInv, TypeOK, AttemptsLeft
<1>4. OneForwarder' /\ MemoryFollowsRows'
  BY <1>1, <1>2 DEF IInv, TypeOK, OneForwarder, MemoryFollowsRows
<1>5. NoDuplicateRows' /\ GuardsMatchRows' /\ NothingLost'
  BY <1>2 DEF IInv, NoDuplicateRows, GuardsMatchRows, NothingLost
<1> QED
  BY <1>3, <1>4, <1>5 DEF IInv

LEMMA NextIInv == IInv /\ [Next]_vars => IInv'
<1> SUFFICES ASSUME IInv, [Next]_vars PROVE IInv'
  OBVIOUS
<1>1. ASSUME NEW e \in Envelope, Publish(e) \/ DeliverAgain(e)
      PROVE  IInv'
  BY <1>1, BusStep
<1>2. ASSUME NEW d \in queue \cup committing, handle_eventbridge(d)
      PROVE  IInv'
  <2>1. CASE Commit(d)
    BY <2>1, CommitStep DEF Commit
  <2>2. CASE AlreadyProjected(d) \/ Reject(d)
    BY <2>2, NoopStep DEF AlreadyProjected, Reject
  <2>3. CASE TransactionFails(d) \/ CrashBeforeForward(d) \/ CrashAfterForward(d)
    BY <2>3, FailureStep
  <2>4. CASE Forward(d) \/ ForwardFails(d)
    BY <2>4, ForwardStep DEF Forward, ForwardFails
  <2> QED
    BY <1>2, <2>1, <2>2, <2>3, <2>4 DEF handle_eventbridge
<1>3. CASE UNCHANGED vars
  BY <1>3 DEF vars, IInv, TypeOK, AttemptsLeft, OneForwarder, NoDuplicateRows,
              GuardsMatchRows, MemoryFollowsRows, NothingLost
<1> QED
  BY <1>1, <1>2, <1>3 DEF Next

\* The strengthened invariant holds in every reachable state.
THEOREM InvariantHolds == Spec => []IInv
  BY InitIInv, NextIInv, PTL DEF Spec

\* Every variable keeps its type.
THEOREM TypeCorrect == Spec => []TypeOK
<1>1. IInv => TypeOK
  BY DEF IInv
<1> QED
  BY <1>1, InvariantHolds, PTL

\* No event and no webhook delivery occupies two rows of a run.
THEOREM RowsAreDeduplicated == Spec => []NoDuplicateRows
<1>1. IInv => NoDuplicateRows
  BY DEF IInv
<1> QED
  BY <1>1, InvariantHolds, PTL

\* Guard rows and webhook rows correspond one to one.
THEOREM GuardsAreExact == Spec => []GuardsMatchRows
<1>1. IInv => GuardsMatchRows
  BY DEF IInv
<1> QED
  BY <1>1, InvariantHolds, PTL

\* Long-term memory receives an envelope at most once, after its commit.
THEOREM MemoryIsGated == Spec => []MemoryFollowsRows
<1>1. IInv => MemoryFollowsRows
  BY DEF IInv
<1> QED
  BY <1>1, InvariantHolds, PTL

\* A published envelope is a row, a duplicate of one, queued, or dropped after
\* the last attempt.
THEOREM NoEnvelopeIsLost == Spec => []NothingLost
<1>1. IInv => NothingLost
  BY DEF IInv
<1> QED
  BY <1>1, InvariantHolds, PTL

\* The projector implements the exactly-once event log.
THEOREM ProjectorImplementsEventLog == Spec => ImplementsEventLog
<1>1. Init => Log!Init
  BY DEF Init, Log!Init, EmptySummary
<1>2. IInv /\ [Next]_vars => [Log!Next]_<<rows, [r \in Runs |-> summary[r].total], memory>>
  <2> DEFINE total == [r \in Runs |-> summary[r].total]
  <2> SUFFICES ASSUME IInv, [Next]_vars
               PROVE  Log!Next \/ (rows' = rows /\ total' = total /\ memory' = memory)
    OBVIOUS
  <2>1. ASSUME NEW d \in queue, Commit(d)
        PROVE  Log!Append(d.env) /\ d.env \in Envelope
    <3>1. d.env \in Envelope /\ d.env.run \in Runs
      BY ProjectorAssumption DEF IInv, TypeOK, Delivery
    <3>2. \A f \in rows : ~Log!SameRow(d.env, f)
      <4>1. \A f \in rows : ~SameRow(d.env, f)
        BY <2>1, <3>1, ConditionsMeanFresh DEF IInv, Commit
      <4> QED
        BY <4>1 DEF SameRow, Log!SameRow, SameDelivery, Log!SameDelivery,
                    NoDelivery, Log!NoDelivery
    <3>3. total' = [total EXCEPT ![d.env.run] = @ + d.env.usage]
      BY <2>1, <3>1 DEF Commit, IInv, TypeOK, summary_row
    <3> QED
      BY <2>1, <3>1, <3>2, <3>3 DEF Log!Append, Commit
  <2>2. ASSUME NEW d \in committing, Forward(d) \/ CrashAfterForward(d)
        PROVE  Log!Remember(d.env) /\ d.env \in Envelope
    <3>1. d.env \in Envelope /\ d.env \in rows /\ memory[d.env] = 0
      BY DEF IInv, TypeOK, Delivery, OneForwarder
    <3>2. /\ memory' = [memory EXCEPT ![d.env] = 1]
          /\ UNCHANGED <<rows, summary>>
      BY <2>2, <3>1 DEF Forward, CrashAfterForward
    <3> QED
      BY <3>1, <3>2 DEF Log!Remember
  <2>3. ASSUME UNCHANGED <<rows, summary, memory>>
        PROVE  rows' = rows /\ total' = total /\ memory' = memory
    BY <2>3
  <2>4. ASSUME NEW e \in Envelope, Publish(e) \/ DeliverAgain(e)
        PROVE  UNCHANGED <<rows, summary, memory>>
    BY <2>4 DEF Publish, DeliverAgain
  <2>5. ASSUME NEW d \in queue \cup committing,
               AlreadyProjected(d) \/ Reject(d) \/ TransactionFails(d)
                 \/ ForwardFails(d) \/ CrashBeforeForward(d)
        PROVE  UNCHANGED <<rows, summary, memory>>
    BY <2>5 DEF AlreadyProjected, Reject, TransactionFails, ForwardFails, CrashBeforeForward
  <2>6. ASSUME NEW d \in queue \cup committing, handle_eventbridge(d)
        PROVE  \/ \E e \in Envelope : Log!Append(e) \/ Log!Remember(e)
               \/ UNCHANGED <<rows, summary, memory>>
    <3>1. Commit(d) => d \in queue
      BY DEF Commit
    <3>2. Forward(d) \/ CrashAfterForward(d) => d \in committing
      BY DEF Forward, CrashAfterForward
    <3> QED
      BY <2>1, <2>2, <2>5, <2>6, <3>1, <3>2 DEF handle_eventbridge
  <2>7. UNCHANGED vars => UNCHANGED <<rows, summary, memory>>
    BY DEF vars
  <2> QED
    BY <2>3, <2>4, <2>6, <2>7 DEF Next, Log!Next
<1> QED
  BY <1>1, <1>2, InvariantHolds, PTL DEF Spec, ImplementsEventLog, Log!Spec

-----------------------------------------------------------------------------
(* SUMMARY and the stream, against the rows.                               *)

\* Only a commit changes the rows, and it brings one that was not there.
LEMMA RowsChangeByCommit ==
  ASSUME IInv, [Next]_vars
  PROVE  \/ UNCHANGED <<rows, summary, stream>>
         \/ \E e \in Envelope \ rows :
              /\ rows' = rows \cup {e}
              /\ summary' = [summary EXCEPT ![e.run] = summary_row(@, e)]
              /\ stream' = [stream EXCEPT ![e.run] = @ + 1]
<1>1. ASSUME NEW e \in Envelope, Publish(e) \/ DeliverAgain(e)
      PROVE  UNCHANGED <<rows, summary, stream>>
  BY <1>1 DEF Publish, DeliverAgain
<1>2. ASSUME NEW d \in queue, Commit(d)
      PROVE  /\ d.env \in Envelope \ rows
             /\ rows' = rows \cup {d.env}
             /\ summary' = [summary EXCEPT ![d.env.run] = summary_row(@, d.env)]
             /\ stream' = [stream EXCEPT ![d.env.run] = @ + 1]
  <2>1. d.env \in Envelope
    BY DEF IInv, TypeOK, Delivery
  <2>2. \A f \in rows : ~SameRow(d.env, f)
    BY <1>2, <2>1, ConditionsMeanFresh DEF IInv, Commit
  <2>3. d.env \notin rows
    BY <2>2 DEF SameRow
  <2> QED
    BY <1>2, <2>1, <2>3 DEF Commit
<1>3. ASSUME NEW d \in queue \cup committing, handle_eventbridge(d), ~Commit(d)
      PROVE  UNCHANGED <<rows, summary, stream>>
  BY <1>3 DEF handle_eventbridge, AlreadyProjected, Reject, TransactionFails, Forward,
              ForwardFails, CrashBeforeForward, CrashAfterForward
<1>4. \A d : Commit(d) => d \in queue
  BY DEF Commit
<1>5. UNCHANGED vars => UNCHANGED <<rows, summary, stream>>
  BY DEF vars
<1> QED
  BY <1>1, <1>2, <1>3, <1>4, <1>5 DEF Next

\* One more event adds its own usage to the units of a set of events.
LEMMA UnitsAdd ==
  ASSUME NEW S, NEW e, e \notin S, e.usage \in Nat, IsFiniteSet(Units(S))
  PROVE  /\ IsFiniteSet(Units(S \cup {e}))
         /\ Cardinality(Units(S \cup {e})) = Cardinality(Units(S)) + e.usage
<1>1. PICK n \in Nat : n = e.usage
  OBVIOUS
<1>2. PICK own : own = {e} \X (1..n)
  OBVIOUS
<1>3. IsFiniteSet({e}) /\ Cardinality({e}) = 1
  BY FS_Singleton
<1>4. IsFiniteSet(1..n) /\ Cardinality(1..n) = n
  BY FS_Interval
<1>5. IsFiniteSet(own) /\ Cardinality(own) = 1 * n
  BY <1>2, <1>3, <1>4, FS_Product
<1>6. Units(S \cup {e}) = Units(S) \cup own
  BY <1>1, <1>2 DEF Units
<1>7. Units(S) \cap own = {}
  BY <1>2 DEF Units
<1>8. PICK U : U = Units(S)
  OBVIOUS
<1>9. Cardinality(U) \in Nat
  BY <1>8, FS_CardinalityType
<1>10. Cardinality(U \cap own) = 0
  BY <1>7, <1>8, FS_EmptySet
<1>11. /\ IsFiniteSet(U \cup own)
       /\ Cardinality(U \cup own) = Cardinality(U) + Cardinality(own) - Cardinality(U \cap own)
  BY <1>5, <1>8, FS_Union
<1>12. PICK c \in Nat : c = Cardinality(U)
  BY <1>9
<1>13. Cardinality(U \cup own) = c + n
  <2>1. Cardinality(U \cup own) = c + 1 * n - 0
    BY <1>5, <1>10, <1>11, <1>12
  <2> QED
    BY <2>1
<1>14. Units(S \cup {e}) = U \cup own
  BY <1>6, <1>8
<1> QED
  BY <1>1, <1>8, <1>11, <1>12, <1>13, <1>14

RowsOf(r) == {e \in rows : e.run = r}

\* The rows of a run, and the usage they report, can be counted.
RowsCountable ==
  \A r \in Runs : IsFiniteSet(RowsOf(r)) /\ IsFiniteSet(Units(RowsOf(r)))

LEMMA InitSummary == Init => RowsCountable /\ SummaryMatchesRows
<1> SUFFICES ASSUME Init PROVE RowsCountable /\ SummaryMatchesRows
  OBVIOUS
<1>1. \A r : {e \in rows : e.run = r} = {} /\ Units({e \in rows : e.run = r}) = {}
  BY DEF Init, Units
<1>2. IsFiniteSet({}) /\ Cardinality({}) = 0
  BY FS_EmptySet
<1>3. RowsCountable
  BY <1>1, <1>2 DEF RowsCountable, RowsOf
<1>4. SummaryMatchesRows
  BY <1>1, <1>2 DEF SummaryMatchesRows, Init, EmptySummary
<1> QED
  BY <1>3, <1>4

LEMMA NextSummary ==
  ASSUME IInv, RowsCountable, SummaryMatchesRows, [Next]_vars
  PROVE  RowsCountable' /\ SummaryMatchesRows'
<1>1. CASE UNCHANGED <<rows, summary, stream>>
  BY <1>1 DEF RowsCountable, RowsOf, SummaryMatchesRows
<1>2. ASSUME NEW e \in Envelope \ rows,
             rows' = rows \cup {e},
             summary' = [summary EXCEPT ![e.run] = summary_row(@, e)],
             stream' = [stream EXCEPT ![e.run] = @ + 1]
      PROVE  RowsCountable' /\ SummaryMatchesRows'
  <2>1. e.run \in Runs /\ e.usage \in Nat
    BY ProjectorAssumption
  <2> SUFFICES ASSUME NEW r \in Runs
               PROVE  /\ IsFiniteSet({f \in rows' : f.run = r})
                      /\ IsFiniteSet(Units({f \in rows' : f.run = r}))
                      /\ summary'[r].total = Cardinality(Units({f \in rows' : f.run = r}))
                      /\ stream'[r] = Cardinality({f \in rows' : f.run = r})
                      /\ LET opened == {f \in {f \in rows' : f.run = r} :
                                          f.type = "IMPL_PR.OPENED" /\ f.pr # NoPr}
                         IN summary'[r].pr_url \in
                              IF opened = {} THEN {NoPr} ELSE {f.pr : f \in opened}
    BY DEF RowsCountable, RowsOf, SummaryMatchesRows
  <2> DEFINE mine == {f \in rows : f.run = r}
             opened == {f \in mine : f.type = "IMPL_PR.OPENED" /\ f.pr # NoPr}
             next == {f \in rows' : f.run = r}
  <2>2. /\ IsFiniteSet(mine) /\ IsFiniteSet(Units(mine))
        /\ summary[r].total = Cardinality(Units(mine))
        /\ stream[r] = Cardinality(mine)
        /\ summary[r].pr_url \in IF opened = {} THEN {NoPr} ELSE {f.pr : f \in opened}
    BY DEF RowsCountable, RowsOf, SummaryMatchesRows
  <2>3. CASE e.run # r
    <3>1. next = mine
      BY <1>2, <2>3
    <3>2. summary'[r] = summary[r] /\ stream'[r] = stream[r]
      BY <1>2, <2>3 DEF IInv, TypeOK
    <3> QED
      BY <2>2, <3>1, <3>2
  <2>4. CASE e.run = r
    <3>1. next = mine \cup {e} /\ e \notin mine
      BY <1>2, <2>4
    <3>2. summary'[r] = summary_row(summary[r], e) /\ stream'[r] = stream[r] + 1
      BY <1>2, <2>4 DEF IInv, TypeOK
    <3>3. IsFiniteSet(next) /\ Cardinality(next) = Cardinality(mine) + 1
      <4> HIDE DEF mine, next
      <4> QED
        BY <2>2, <3>1, FS_AddElement
    <3>4. /\ IsFiniteSet(Units(next))
          /\ Cardinality(Units(next)) = Cardinality(Units(mine)) + e.usage
      <4> HIDE DEF mine, next
      <4> QED
        BY <2>1, <2>2, <3>1, UnitsAdd
    <3>5. summary'[r].total = summary[r].total + e.usage
      BY <3>2 DEF summary_row
    <3>6. LET new == {f \in next : f.type = "IMPL_PR.OPENED" /\ f.pr # NoPr}
          IN summary'[r].pr_url \in IF new = {} THEN {NoPr} ELSE {f.pr : f \in new}
      <4>1. CASE e.type = "IMPL_PR.OPENED" /\ e.pr # NoPr
        BY <3>1, <3>2, <4>1 DEF summary_row
      <4>2. CASE ~(e.type = "IMPL_PR.OPENED" /\ e.pr # NoPr)
        <5>1. {f \in next : f.type = "IMPL_PR.OPENED" /\ f.pr # NoPr} = opened
          BY <3>1, <4>2
        <5>2. summary'[r].pr_url = summary[r].pr_url
          BY <3>2, <4>2 DEF summary_row
        <5> QED
          BY <2>2, <5>1, <5>2
      <4> QED
        BY <4>1, <4>2
    <3> QED
      BY <2>2, <3>2, <3>3, <3>4, <3>5, <3>6
  <2> QED
    BY <2>3, <2>4
<1> QED
  BY <1>1, <1>2, RowsChangeByCommit

\* SUMMARY counts the usage of every row once, the pipe saw every row once, and
\* the PR lookup key is that of a PR the run opened.
THEOREM SummariesMatch == Spec => []SummaryMatchesRows
<1>1. Init => RowsCountable /\ SummaryMatchesRows
  BY InitSummary
<1>2. IInv /\ RowsCountable /\ SummaryMatchesRows /\ [Next]_vars
        => RowsCountable' /\ SummaryMatchesRows'
  BY NextSummary
<1> QED
  BY <1>1, <1>2, InvariantHolds, PTL DEF Spec
=============================================================================
