---------------------------- MODULE IntakeProofs ----------------------------
(***************************************************************************)
(* One run per key, whatever is retried, redelivered, rejected or killed.  *)
(* OneRunPerKey is not inductive: nothing in it stops a second mint.  The  *)
(* invariant says what the state of a key knows of the run of its current  *)
(* generation (KnownRun): a free record or a reserved call means that      *)
(* there is none yet, a completed record or a call that has minted names   *)
(* it; a record in progress that a failed call left says nothing, and      *)
(* keeps everybody away until it expires.  Only a reserved call mints, and *)
(* a key has one working call.                                             *)
(***************************************************************************)
EXTENDS Intake, TLAPS

\* The run of key k minted since its record was last forgotten.
IsCurrent(r, k) == r.key = k /\ r.gen = generation[k]

PastGenerations == \A r \in runs : r.gen <= generation[r.key]

KnownRun ==
  /\ \A k \in Keys : records[k].status = "none" => \A r \in runs : ~IsCurrent(r, k)
  /\ \A c \in Callers : calls[c].pc = "reserved" => \A r \in runs : ~IsCurrent(r, KeyOf(c))
  /\ \A c \in Callers : calls[c].pc = "minted" =>
       \E r \in runs : r.id = calls[c].run /\ IsCurrent(r, KeyOf(c))
  /\ \A k \in Keys : records[k].status = "COMPLETED" =>
       \E r \in runs : r.id = records[k].run /\ IsCurrent(r, k)

FailuresCounted == /\ budget \in [BudgetKinds -> Nat]
                   /\ \A f \in Failures : budget[f] <= Budget[f]

IInv == /\ TypeOK /\ PastGenerations /\ KnownRun /\ FailuresCounted
        /\ OneRunPerKey /\ AnswersAreRuns /\ RecordsFollowCalls

LEMMA InitIInv == Init => IInv
<1> SUFFICES ASSUME Init PROVE IInv
  OBVIOUS
<1>1. TypeOK
  BY IntakeAssumption DEF Init, TypeOK, NoCall, Free, NoRun, NoKey
<1>2. PastGenerations /\ KnownRun /\ OneRunPerKey /\ AnswersAreRuns
  BY DEF Init, PastGenerations, KnownRun, OneRunPerKey, AnswersAreRuns, NoCall, Free
<1>3. FailuresCounted
  BY IntakeAssumption DEF Init, FailuresCounted, Failures, BudgetKinds
<1>4. RecordsFollowCalls
  BY DEF Init, RecordsFollowCalls, Stuck, Working, NoCall, Free
<1> QED
  BY <1>1, <1>2, <1>3, <1>4 DEF IInv

\* A step that leaves no further record stuck needs no further excuse.
LEMMA NothingStuck ==
  ASSUME IInv, FailuresCounted', \A f \in Failures : budget'[f] <= budget[f], Stuck' \subseteq Stuck
  PROVE  Stuck' # {} => \E f \in Failures : budget'[f] < Budget[f]
<1> SUFFICES ASSUME Stuck' # {} PROVE \E f \in Failures : budget'[f] < Budget[f]
  OBVIOUS
<1>1. PICK f \in Failures : budget[f] < Budget[f]
  BY DEF IInv, RecordsFollowCalls
<1>2. f \in BudgetKinds
  BY DEF Failures, BudgetKinds
<1>3. budget[f] \in Nat /\ budget'[f] \in Nat /\ Budget[f] \in Nat
  BY <1>2, IntakeAssumption DEF IInv, FailuresCounted
<1> QED
  BY <1>1, <1>3

\* What is minted and known of it, and the calls and records, decide all of
\* the invariant but the typing of the read model.
LEMMA ReadModelStep ==
  ASSUME IInv, UNCHANGED <<calls, records, generation, clock, runs, answers>>,
         index' \subseteq rows', ended' \subseteq rows', rows' \subseteq {r.id : r \in runs},
         FailuresCounted', \A f \in Failures : budget'[f] <= budget[f]
  PROVE  IInv'
<1>1. TypeOK'
  BY DEF IInv, TypeOK, KeyOf
<1>2. PastGenerations' /\ KnownRun' /\ OneRunPerKey' /\ AnswersAreRuns'
  BY DEF IInv, PastGenerations, KnownRun, IsCurrent, KeyOf, OneRunPerKey, AnswersAreRuns
<1>3. RecordsFollowCalls'
  <2>1. Stuck' = Stuck
    BY DEF Stuck, Working, KeyOf
  <2> QED
    BY <2>1, NothingStuck DEF IInv, RecordsFollowCalls, Working, KeyOf
<1> QED
  BY <1>1, <1>2, <1>3 DEF IInv

\* The count of a failure never goes up again, and goes down with each.
LEMMA SpendCounts ==
  ASSUME FailuresCounted, NEW kind \in BudgetKinds, Spend(kind)
  PROVE  /\ FailuresCounted' /\ \A f \in Failures : budget'[f] <= budget[f]
         /\ kind \in Failures => budget'[kind] < Budget[kind]
<1>1. Failures \subseteq BudgetKinds
  BY DEF Failures, BudgetKinds
<1>2. /\ budget[kind] \in Nat /\ budget[kind] - 1 \in Nat /\ budget[kind] - 1 < budget[kind]
      /\ budget' = [budget EXCEPT ![kind] = budget[kind] - 1]
  BY DEF FailuresCounted, Spend
<1>3. budget' \in [BudgetKinds -> Nat] /\ budget'[kind] < budget[kind]
  BY <1>2 DEF FailuresCounted
<1>4. \A f \in Failures : budget'[f] <= budget[f]
  BY <1>1, <1>2 DEF FailuresCounted
<1>5. \A f \in Failures : Budget[f] \in Nat /\ budget[f] \in Nat /\ budget'[f] \in Nat
  BY <1>1, <1>3, IntakeAssumption DEF FailuresCounted
<1>6. \A f \in Failures : budget'[f] <= Budget[f]
  BY <1>4, <1>5 DEF FailuresCounted
<1>7. kind \in Failures => budget'[kind] < Budget[kind]
  BY <1>3, <1>5 DEF FailuresCounted
<1> QED
  BY <1>3, <1>4, <1>6, <1>7 DEF FailuresCounted

LEMMA BudgetKept ==
  ASSUME FailuresCounted, UNCHANGED budget
  PROVE  FailuresCounted' /\ \A f \in Failures : budget'[f] <= budget[f]
<1>1. Failures \subseteq BudgetKinds
  BY DEF Failures, BudgetKinds
<1> QED
  BY <1>1 DEF FailuresCounted

LEMMA ReadModelSteps ==
  ASSUME IInv, \/ \E r \in runs : Project(r) \/ IndexCatchesUp(r) \/ End(r)
               \/ \E i \in Issues : handle_issue_closed(i)
  PROVE  IInv'
<1>1. CASE \E r \in runs : Project(r) \/ IndexCatchesUp(r) \/ End(r)
  <2>1. UNCHANGED <<calls, records, generation, clock, runs, answers, budget>>
    BY <1>1 DEF Project, IndexCatchesUp, End
  <2>2. index' \subseteq rows' /\ ended' \subseteq rows' /\ rows' \subseteq {r.id : r \in runs}
    BY <1>1 DEF Project, IndexCatchesUp, End, IInv, TypeOK
  <2> QED
    BY <2>1, <2>2, ReadModelStep, BudgetKept DEF IInv
<1>2. CASE \E i \in Issues : handle_issue_closed(i)
  <2>1. UNCHANGED <<calls, records, generation, clock, runs, rows, index, ended, answers>> /\ Spend("close")
    BY <1>2 DEF handle_issue_closed
  <2>2. FailuresCounted' /\ \A f \in Failures : budget'[f] <= budget[f]
    BY <2>1, SpendCounts DEF IInv, BudgetKinds
  <2> QED
    BY <2>1, <2>2, ReadModelStep DEF IInv, TypeOK
<1> QED
  BY <1>1, <1>2

\* A call begins, or is turned away by a record in progress: neither is or was
\* working on its key.
LEMMA CallsOnlyStep ==
  ASSUME IInv, NEW c \in Callers, (\E k \in Keys : Call(c, k)) \/ AlreadyInProgress(c)
  PROVE  IInv'
<1>1. PICK x \in [pc : {"idle", "called"}, key : Keys \cup {NoKey}, run : Nat] :
        /\ calls' = [calls EXCEPT ![c] = x]
        /\ x.pc # "idle" => x.key \in Keys
  BY DEF Call, AlreadyInProgress, Return, NoCall, NoRun, NoKey
<1>2. UNCHANGED <<records, generation, clock, runs, rows, index, ended, answers>> /\ ~Working(c)
  BY DEF Call, AlreadyInProgress, platform, Working, NoCall
<1>3. FailuresCounted' /\ \A f \in Failures : budget'[f] <= budget[f]
  BY SpendCounts, BudgetKept DEF Call, AlreadyInProgress, IInv, BudgetKinds
<1>4. \A d \in Callers : Working(d)' => calls'[d] = calls[d] /\ Working(d)
  BY <1>1, <1>2 DEF Working, IInv, TypeOK
<1>5. \A d \in Callers : Working(d) => calls'[d] = calls[d]
  BY <1>1, <1>2 DEF Working, IInv, TypeOK
<1>6. TypeOK'
  BY <1>1, <1>2 DEF IInv, TypeOK, KeyOf
<1>7. PastGenerations' /\ OneRunPerKey' /\ AnswersAreRuns'
  BY <1>2 DEF IInv, PastGenerations, OneRunPerKey, AnswersAreRuns
<1>8. KnownRun'
  BY <1>2, <1>4 DEF IInv, KnownRun, IsCurrent, KeyOf, Working
<1>9. RecordsFollowCalls'
  <2>1. Stuck' \subseteq Stuck
    BY <1>2, <1>5 DEF Stuck, Working, KeyOf
  <2> QED
    BY <1>2, <1>3, <1>4, <2>1, NothingStuck DEF IInv, RecordsFollowCalls, KeyOf
<1> QED
  BY <1>3, <1>6, <1>7, <1>8, <1>9 DEF IInv

LEMMA ReserveStep ==
  ASSUME IInv, NEW c \in Callers, Reserve(c)
  PROVE  IInv'
<1> DEFINE k == KeyOf(c)
<1>1. /\ k \in Keys /\ records[k].status = "none" /\ calls[c].pc = "called"
      /\ calls' = [calls EXCEPT ![c].pc = "reserved"]
      /\ records' = [records EXCEPT ![k] = [status |-> "INPROGRESS", run |-> NoRun]]
  BY DEF Reserve, IInv, TypeOK, Free, KeyOf
<1>2. UNCHANGED <<generation, clock, runs, rows, index, ended, answers, budget>>
  BY DEF Reserve, platform
<1>3. /\ calls'[c].pc = "reserved" /\ calls'[c].key = k
      /\ \A d \in Callers \ {c} : calls'[d] = calls[d]
      /\ records'[k].status = "INPROGRESS"
      /\ \A j \in Keys \ {k} : records'[j] = records[j]
  BY <1>1 DEF IInv, TypeOK, KeyOf
<1>4. TypeOK'
  BY <1>1, <1>2, <1>3 DEF IInv, TypeOK, KeyOf, NoRun
<1>5. PastGenerations' /\ OneRunPerKey' /\ AnswersAreRuns' /\ FailuresCounted'
  BY <1>2 DEF IInv, PastGenerations, OneRunPerKey, AnswersAreRuns, FailuresCounted
<1>6. \A d \in Callers \ {c} : Working(d) => KeyOf(d) # k
  BY <1>1 DEF IInv, RecordsFollowCalls
<1>7. KnownRun'
  BY <1>1, <1>2, <1>3 DEF IInv, KnownRun, IsCurrent, KeyOf, TypeOK
<1>8. RecordsFollowCalls'
  <2>1. \A d \in Callers \ {c} : (Working(d)' <=> Working(d)) /\ KeyOf(d)' = KeyOf(d)
    BY <1>3 DEF Working, KeyOf
  <2>2. Working(c)' /\ KeyOf(c)' = k /\ ~Working(c)
    BY <1>1, <1>3 DEF Working, KeyOf
  <2>3. \A d \in Callers : Working(d)' => records'[KeyOf(d)'].status = "INPROGRESS"
    BY <1>3, <1>6, <2>1, <2>2 DEF IInv, RecordsFollowCalls, TypeOK, KeyOf, Working
  <2>4. \A d, e \in Callers : Working(d)' /\ Working(e)' /\ KeyOf(d)' = KeyOf(e)' => d = e
    BY <1>6, <2>1, <2>2 DEF IInv, RecordsFollowCalls
  <2>5. Stuck' \subseteq Stuck
    BY <1>3, <2>1, <2>2 DEF Stuck
  <2>6. FailuresCounted' /\ \A f \in Failures : budget'[f] <= budget[f]
    BY <1>2, BudgetKept DEF IInv
  <2> QED
    BY <2>3, <2>4, <2>5, <2>6, NothingStuck DEF RecordsFollowCalls
<1> QED
  BY <1>4, <1>5, <1>7, <1>8 DEF IInv

LEMMA ReplayStep ==
  ASSUME IInv, NEW c \in Callers, Replay(c)
  PROVE  IInv'
<1> DEFINE k == KeyOf(c)
<1>1. /\ k \in Keys /\ records[k].status = "COMPLETED" /\ calls[c].pc = "called"
      /\ calls' = [calls EXCEPT ![c] = NoCall]
      /\ answers' = answers \cup {[key |-> k, gen |-> generation[k], run |-> records[k].run]}
  BY DEF Replay, Return, Answer, IInv, TypeOK, KeyOf
<1>2. UNCHANGED <<records, generation, clock, runs, rows, index, ended, budget>>
  BY DEF Replay, platform
<1>3. \A d \in Callers : /\ Working(d)' <=> Working(d)
                         /\ Working(d) => calls'[d] = calls[d]
  BY <1>1 DEF Working, NoCall, IInv, TypeOK
<1>4. TypeOK'
  BY <1>1, <1>2 DEF IInv, TypeOK, KeyOf, NoCall, NoRun, NoKey
<1>5. PastGenerations' /\ OneRunPerKey' /\ FailuresCounted'
  BY <1>2 DEF IInv, PastGenerations, OneRunPerKey, FailuresCounted
<1>6. KnownRun'
  BY <1>2, <1>3 DEF IInv, KnownRun, IsCurrent, KeyOf, Working
<1>7. AnswersAreRuns'
  <2>1. PICK r \in runs : r.id = records[k].run /\ IsCurrent(r, k)
    BY <1>1 DEF IInv, KnownRun
  <2> QED
    BY <1>1, <1>2, <2>1 DEF IInv, AnswersAreRuns, IsCurrent
<1>8. RecordsFollowCalls'
  <2>1. Stuck' \subseteq Stuck
    BY <1>2, <1>3 DEF Stuck, KeyOf
  <2> QED
    BY <1>2, <1>3, <2>1, BudgetKept, NothingStuck DEF IInv, RecordsFollowCalls, KeyOf
<1> QED
  BY <1>4, <1>5, <1>6, <1>7, <1>8 DEF IInv

\* A working call returns and its record is no longer in progress: no other
\* call works on the key, and the other keys are as they were.
LEMMA Released ==
  ASSUME IInv, NEW c \in Callers, Working(c), Return(c), NEW x, x.status # "INPROGRESS",
         records' = [records EXCEPT ![KeyOf(c)] = x],
         FailuresCounted', \A f \in Failures : budget'[f] <= budget[f]
  PROVE  /\ KeyOf(c) \in Keys /\ records'[KeyOf(c)] = x
         /\ \A j \in Keys \ {KeyOf(c)} : records'[j] = records[j]
         /\ ~Working(c)'
         /\ \A d \in Callers \ {c} : calls'[d] = calls[d] /\ (Working(d) => KeyOf(d) # KeyOf(c))
         /\ RecordsFollowCalls'
<1> DEFINE k == KeyOf(c)
<1>1. k \in Keys
  BY DEF IInv, TypeOK, Working, KeyOf
<1>2. records'[k] = x /\ \A j \in Keys \ {k} : records'[j] = records[j]
  BY <1>1 DEF IInv, TypeOK
<1>3. ~Working(c)' /\ \A d \in Callers \ {c} : calls'[d] = calls[d]
  BY DEF IInv, TypeOK, Return, NoCall, Working
<1>4. \A d \in Callers \ {c} : Working(d) => KeyOf(d) # k
  BY DEF IInv, RecordsFollowCalls
<1>5. \A d \in Callers \ {c} : (Working(d)' <=> Working(d)) /\ KeyOf(d)' = KeyOf(d)
  BY <1>3 DEF Working, KeyOf
<1>6. \A d \in Callers : Working(d)' => records'[KeyOf(d)'].status = "INPROGRESS"
  BY <1>2, <1>3, <1>4, <1>5 DEF IInv, RecordsFollowCalls, TypeOK, KeyOf, Working
<1>7. \A d, e \in Callers : Working(d)' /\ Working(e)' /\ KeyOf(d)' = KeyOf(e)' => d = e
  BY <1>3, <1>5 DEF IInv, RecordsFollowCalls
<1>8. Stuck' \subseteq Stuck
  BY <1>2, <1>5 DEF Stuck
<1>9. RecordsFollowCalls'
  BY <1>6, <1>7, <1>8, NothingStuck DEF RecordsFollowCalls
<1> QED
  BY <1>1, <1>2, <1>3, <1>4, <1>9

LEMMA CompleteStep ==
  ASSUME IInv, NEW c \in Callers, Complete(c)
  PROVE  IInv'
<1> DEFINE k == KeyOf(c)
           x == [status |-> "COMPLETED", run |-> calls[c].run]
<1>1. /\ calls[c].pc = "minted" /\ Working(c) /\ Return(c)
      /\ records' = [records EXCEPT ![k] = x]
      /\ answers' = answers \cup {[key |-> k, gen |-> generation[k], run |-> calls[c].run]}
      /\ x.status # "INPROGRESS"
  BY DEF Complete, Answer, Working
<1>2. /\ UNCHANGED <<generation, clock, runs, rows, index, ended, budget>>
      /\ FailuresCounted' /\ \A f \in Failures : budget'[f] <= budget[f]
  BY BudgetKept DEF Complete, platform, IInv
<1>3. /\ k \in Keys /\ records'[k] = x
      /\ \A j \in Keys \ {k} : records'[j] = records[j]
      /\ \A d \in Callers \ {c} : calls'[d] = calls[d]
      /\ RecordsFollowCalls'
  <2> HIDE DEF x
  <2> QED
    BY <1>1, <1>2, Released
<1>4. PICK r \in runs : r.id = calls[c].run /\ IsCurrent(r, k)
  BY <1>1 DEF IInv, KnownRun
<1>5. TypeOK'
  BY <1>1, <1>2, <1>3 DEF IInv, TypeOK, KeyOf, Return, NoCall, NoRun, NoKey
<1>6. PastGenerations' /\ OneRunPerKey'
  BY <1>2 DEF IInv, PastGenerations, OneRunPerKey
<1>7. KnownRun'
  <2>1. \A j \in Keys : records'[j].status = "none" => \A q \in runs : ~IsCurrent(q, j)
    BY <1>3 DEF IInv, KnownRun
  <2>2. \A j \in Keys : records'[j].status = "COMPLETED" =>
          \E q \in runs : q.id = records'[j].run /\ IsCurrent(q, j)
    BY <1>3, <1>4 DEF IInv, KnownRun
  <2>3. calls'[c].pc = "idle"
    BY <1>1 DEF Return, NoCall, IInv, TypeOK
  <2> QED
    BY <1>2, <1>3, <2>1, <2>2, <2>3 DEF IInv, KnownRun, IsCurrent, KeyOf
<1>8. AnswersAreRuns'
  BY <1>1, <1>2, <1>4 DEF IInv, AnswersAreRuns, IsCurrent
<1> QED
  BY <1>2, <1>3, <1>5, <1>6, <1>7, <1>8 DEF IInv

\* A call dies or its publication is rejected: its record stays, what it knew is
\* gone, and from then on the failures counted excuse the record.
LEMMA FailedStep ==
  ASSUME IInv, NEW c \in Callers, CallDies(c) \/ start_run_rejected(c)
  PROVE  IInv'
<1>1. PICK f \in Failures : Spend(f)
  BY DEF CallDies, start_run_rejected, Failures
<1>2. /\ calls' = [calls EXCEPT ![c] = NoCall]
      /\ UNCHANGED <<records, generation, clock, runs, rows, index, ended, answers>>
  BY DEF CallDies, start_run_rejected, Return, platform
<1>3. calls'[c].pc = "idle" /\ \A d \in Callers \ {c} : calls'[d] = calls[d]
  BY <1>2 DEF NoCall, IInv, TypeOK
<1>4. FailuresCounted' /\ budget'[f] < Budget[f]
  BY <1>1, SpendCounts DEF IInv, Failures, BudgetKinds
<1>5. TypeOK'
  BY <1>2 DEF IInv, TypeOK, KeyOf, NoCall, NoRun, NoKey
<1>6. PastGenerations' /\ OneRunPerKey' /\ AnswersAreRuns'
  BY <1>2 DEF IInv, PastGenerations, OneRunPerKey, AnswersAreRuns
<1>7. KnownRun'
  BY <1>2, <1>3 DEF IInv, KnownRun, IsCurrent, KeyOf
<1>8. RecordsFollowCalls'
  BY <1>2, <1>3, <1>4 DEF IInv, RecordsFollowCalls, Working, KeyOf
<1> QED
  BY <1>4, <1>5, <1>6, <1>7, <1>8 DEF IInv

\* A run just minted is new: its id is above every other, and no run of its
\* key and generation existed.
LEMMA MintedRun ==
  ASSUME IInv, NEW c \in Callers, calls[c].pc = "reserved",
         runs' = runs \cup {Minted(KeyOf(c))}, clock' = clock + 1
  PROVE  /\ KeyOf(c) \in Keys /\ Working(c)
         /\ runs' \subseteq Run /\ clock' \in Nat \ {NoRun}
         /\ \A r \in runs' : r.id < clock'
         /\ \A r, s \in runs' : r.id = s.id => r = s
         /\ {r.id : r \in runs} \subseteq {r.id : r \in runs'}
         /\ OneRunPerKey'
<1> DEFINE k == KeyOf(c)
           n == Minted(k)
<1>1. k \in Keys /\ Working(c)
  BY DEF IInv, TypeOK, Working, KeyOf
<1>2. n \in Run /\ n.id = clock /\ n.key = k /\ n.gen = generation[k]
  BY <1>1 DEF Minted, Run, IInv, TypeOK
<1>3. \A r \in runs : r.id < clock /\ r.id \in Nat /\ clock \in Nat
  BY DEF IInv, TypeOK, Run
<1>4. \A r \in runs : ~(r.key = n.key /\ r.gen = n.gen)
  BY <1>2 DEF IInv, KnownRun, IsCurrent
<1>5. runs' \subseteq Run /\ clock' \in Nat \ {NoRun}
  BY <1>2 DEF IInv, TypeOK, NoRun
<1>6. \A r \in runs' : r.id < clock'
  <2>1. clock < clock + 1
    BY <1>2, <1>3 DEF IInv, TypeOK
  <2>2. \A r \in runs : r.id < clock + 1
    BY <1>3
  <2> QED
    BY <1>2, <2>1, <2>2
<1>7. \A r, s \in runs' : r.id = s.id => r = s
  BY <1>2, <1>3 DEF IInv, TypeOK
<1>8. OneRunPerKey'
  BY <1>2, <1>4 DEF IInv, OneRunPerKey
<1> QED
  BY <1>1, <1>5, <1>6, <1>7, <1>8

LEMMA StartRunStep ==
  ASSUME IInv, NEW c \in Callers, start_run(c)
  PROVE  IInv'
<1> DEFINE k == KeyOf(c)
           n == Minted(k)
<1>1. /\ calls[c].pc = "reserved" /\ runs' = runs \cup {n} /\ clock' = clock + 1
      /\ calls' = [calls EXCEPT ![c].pc = "minted", ![c].run = clock]
      /\ UNCHANGED <<records, generation, rows, index, ended, answers, budget>>
  BY DEF start_run, platform
<1>2. /\ k \in Keys /\ Working(c) /\ runs' \subseteq Run /\ clock' \in Nat \ {NoRun}
      /\ \A r \in runs' : r.id < clock'
      /\ \A r, s \in runs' : r.id = s.id => r = s
      /\ {r.id : r \in runs} \subseteq {r.id : r \in runs'}
      /\ OneRunPerKey'
  BY <1>1, MintedRun
<1>3. n.id = clock /\ n.key = k /\ n.gen = generation[k] /\ n \in runs'
  BY <1>1 DEF Minted
<1>4. /\ calls'[c].pc = "minted" /\ calls'[c].key = k /\ calls'[c].run = clock
      /\ \A d \in Callers \ {c} : calls'[d] = calls[d]
  BY <1>1 DEF IInv, TypeOK, KeyOf
<1>5. records[k].status = "INPROGRESS"
  BY <1>2 DEF IInv, RecordsFollowCalls
<1>6. \A d \in Callers \ {c} : Working(d) => KeyOf(d) # k
  BY <1>2 DEF IInv, RecordsFollowCalls
<1>7. TypeOK'
  BY <1>1, <1>2, <1>4 DEF IInv, TypeOK, KeyOf
<1>8. PastGenerations'
  BY <1>1, <1>3, <1>2 DEF IInv, PastGenerations, TypeOK
<1>9. KnownRun'
  <2>1. \A j \in Keys : records'[j].status = "none" => \A r \in runs' : ~IsCurrent(r, j)'
    BY <1>1, <1>3, <1>5 DEF IInv, KnownRun, IsCurrent
  <2>2. \A d \in Callers : calls'[d].pc = "reserved" =>
          \A r \in runs' : ~IsCurrent(r, KeyOf(d))'
    <3> SUFFICES ASSUME NEW d \in Callers, calls'[d].pc = "reserved"
                 PROVE  \A r \in runs' : ~(r.key = calls'[d].key /\ r.gen = generation[calls'[d].key])
      BY <1>1 DEF IsCurrent, KeyOf
    <3>1. calls'[d] = calls[d] /\ calls[d].key # k
      BY <1>4, <1>6 DEF Working, KeyOf
    <3>2. \A r \in runs : ~(r.key = calls[d].key /\ r.gen = generation[calls[d].key])
      BY <3>1 DEF IInv, KnownRun, IsCurrent, KeyOf
    <3> HIDE DEF n, k
    <3> QED
      BY <1>1, <1>3, <3>1, <3>2
  <2>3. \A d \in Callers : calls'[d].pc = "minted" =>
          \E r \in runs' : r.id = calls'[d].run /\ IsCurrent(r, KeyOf(d))'
    <3> SUFFICES ASSUME NEW d \in Callers, calls'[d].pc = "minted"
                 PROVE  \E r \in runs' : /\ r.id = calls'[d].run /\ r.key = calls'[d].key
                                         /\ r.gen = generation[calls'[d].key]
      BY <1>1 DEF IsCurrent, KeyOf
    <3>1. CASE d = c
      <4> HIDE DEF n, k
      <4> QED
        BY <1>3, <1>4, <3>1
    <3>2. CASE d # c
      <4>1. calls'[d] = calls[d] /\ calls[d].pc = "minted"
        BY <1>4, <3>2
      <4>2. PICK r \in runs : r.id = calls[d].run /\ IsCurrent(r, KeyOf(d))
        BY <4>1 DEF IInv, KnownRun
      <4> QED
        BY <1>1, <4>1, <4>2 DEF IsCurrent, KeyOf
    <3> QED
      BY <3>1, <3>2
  <2>4. \A j \in Keys : records'[j].status = "COMPLETED" =>
          \E r \in runs' : r.id = records'[j].run /\ IsCurrent(r, j)'
    BY <1>1 DEF IInv, KnownRun, IsCurrent
  <2> QED
    BY <2>1, <2>2, <2>3, <2>4 DEF KnownRun, IsCurrent
<1>10. AnswersAreRuns' /\ FailuresCounted'
  BY <1>1 DEF IInv, AnswersAreRuns, FailuresCounted
<1>11. RecordsFollowCalls'
  <2>1. \A d \in Callers : (Working(d)' <=> Working(d)) /\ KeyOf(d)' = KeyOf(d)
    BY <1>1, <1>4 DEF Working, KeyOf
  <2>2. Stuck' \subseteq Stuck
    BY <1>1, <2>1 DEF Stuck
  <2> QED
    BY <1>1, <2>1, <2>2, BudgetKept, NothingStuck DEF IInv, RecordsFollowCalls
<1> QED
  BY <1>2, <1>7, <1>8, <1>9, <1>10, <1>11 DEF IInv

\* The record of a key expires while nobody works on the key: whatever was
\* minted under it belongs to a past generation from now on.
LEMMA Forgotten ==
  ASSUME IInv, NEW k \in Keys, Expire(k)
  PROVE  KnownRun' /\ PastGenerations'
<1>1. /\ records'[k] = Free /\ generation'[k] = generation[k] + 1
      /\ \A j \in Keys \ {k} : records'[j] = records[j] /\ generation'[j] = generation[j]
      /\ UNCHANGED <<runs, calls>> /\ generation \in [Keys -> Nat]
  BY DEF Expire, IInv, TypeOK
<1>2. \A r \in runs : r.key \in Keys /\ r.gen \in Nat /\ r.gen <= generation[r.key]
  BY DEF IInv, TypeOK, PastGenerations, Run
<1>3. PastGenerations'
  BY <1>1, <1>2 DEF PastGenerations
<1>4. \A r \in runs' : ~IsCurrent(r, k)'
  BY <1>1, <1>2 DEF IsCurrent
<1>5. \A j \in Keys \ {k} : \A r \in runs' : IsCurrent(r, j)' <=> IsCurrent(r, j)
  BY <1>1 DEF IsCurrent
<1>6. \A j \in Keys : records'[j].status = "none" => \A r \in runs' : ~IsCurrent(r, j)'
  BY <1>1, <1>4, <1>5 DEF IInv, KnownRun
<1>7. \A d \in Callers : Working(d) => KeyOf(d) \in Keys \ {k}
  BY DEF Expire, IInv, TypeOK, KeyOf, Working
<1>8. \A d \in Callers : calls'[d].pc = "reserved" =>
        \A r \in runs' : ~IsCurrent(r, KeyOf(d))'
  BY <1>1, <1>7 DEF IInv, KnownRun, Working, IsCurrent, KeyOf
<1>9. \A d \in Callers : calls'[d].pc = "minted" =>
        \E r \in runs' : r.id = calls'[d].run /\ IsCurrent(r, KeyOf(d))'
  BY <1>1, <1>7 DEF IInv, KnownRun, Working, IsCurrent, KeyOf
<1>10. \A j \in Keys : records'[j].status = "COMPLETED" =>
         \E r \in runs' : r.id = records'[j].run /\ IsCurrent(r, j)'
  BY <1>1 DEF IInv, KnownRun, IsCurrent, Free
<1> QED
  BY <1>3, <1>6, <1>8, <1>9, <1>10 DEF KnownRun, IsCurrent

\* The publication raised but went through: what the run is, is known to no
\* call and no record, and the record in progress keeps a second one away.
LEMMA AmbiguousStep ==
  ASSUME IInv, NEW c \in Callers, start_run_ambiguous(c)
  PROVE  IInv'
<1> DEFINE k == KeyOf(c)
           n == Minted(k)
<1>1. /\ calls[c].pc = "reserved" /\ runs' = runs \cup {n} /\ clock' = clock + 1
      /\ calls' = [calls EXCEPT ![c] = NoCall] /\ Spend("ambiguous")
      /\ UNCHANGED <<records, generation, rows, index, ended, answers>>
  BY DEF start_run_ambiguous, Return, platform
<1>2. /\ k \in Keys /\ Working(c) /\ runs' \subseteq Run /\ clock' \in Nat \ {NoRun}
      /\ \A r \in runs' : r.id < clock'
      /\ \A r, s \in runs' : r.id = s.id => r = s
      /\ {r.id : r \in runs} \subseteq {r.id : r \in runs'}
      /\ OneRunPerKey'
  BY <1>1, MintedRun
<1>3. n.key = k /\ n.gen = generation[k]
  BY DEF Minted
<1>4. FailuresCounted' /\ budget'["ambiguous"] < Budget["ambiguous"] /\ "ambiguous" \in Failures
  BY <1>1, SpendCounts DEF IInv, BudgetKinds, Failures
<1>5. calls'[c].pc = "idle" /\ \A d \in Callers \ {c} : calls'[d] = calls[d]
  BY <1>1 DEF NoCall, IInv, TypeOK
<1>6. records[k].status = "INPROGRESS" /\ \A d \in Callers \ {c} : Working(d) => KeyOf(d) # k
  BY <1>2 DEF IInv, RecordsFollowCalls
<1>7. TypeOK'
  BY <1>1, <1>2 DEF IInv, TypeOK, KeyOf, NoCall, NoRun, NoKey
<1>8. PastGenerations'
  BY <1>1, <1>2, <1>3 DEF IInv, PastGenerations, TypeOK
<1>9. KnownRun'
  <2>1. \A j \in Keys : records'[j].status = "none" => \A r \in runs' : ~IsCurrent(r, j)'
    BY <1>1, <1>3, <1>6 DEF IInv, KnownRun, IsCurrent
  <2>2. \A d \in Callers : calls'[d].pc = "reserved" =>
          \A r \in runs' : ~IsCurrent(r, KeyOf(d))'
    <3> SUFFICES ASSUME NEW d \in Callers, calls'[d].pc = "reserved"
                 PROVE  \A r \in runs' : ~(r.key = calls'[d].key /\ r.gen = generation[calls'[d].key])
      BY <1>1 DEF IsCurrent, KeyOf
    <3>1. calls'[d] = calls[d] /\ calls[d].key # k
      BY <1>5, <1>6 DEF Working, KeyOf
    <3>2. \A r \in runs : ~(r.key = calls[d].key /\ r.gen = generation[calls[d].key])
      BY <3>1 DEF IInv, KnownRun, IsCurrent, KeyOf
    <3> HIDE DEF n, k
    <3> QED
      BY <1>1, <1>3, <3>1, <3>2
  <2>3. \A d \in Callers : calls'[d].pc = "minted" =>
          \E r \in runs' : r.id = calls'[d].run /\ IsCurrent(r, KeyOf(d))'
    BY <1>1, <1>5 DEF IInv, KnownRun, IsCurrent, KeyOf
  <2>4. \A j \in Keys : records'[j].status = "COMPLETED" =>
          \E r \in runs' : r.id = records'[j].run /\ IsCurrent(r, j)'
    BY <1>1 DEF IInv, KnownRun, IsCurrent
  <2> QED
    BY <2>1, <2>2, <2>3, <2>4 DEF KnownRun, IsCurrent
<1>10. AnswersAreRuns'
  BY <1>1 DEF IInv, AnswersAreRuns
<1>11. RecordsFollowCalls'
  BY <1>1, <1>4, <1>5 DEF IInv, RecordsFollowCalls, Working, KeyOf
<1> QED
  BY <1>2, <1>4, <1>7, <1>8, <1>9, <1>10, <1>11 DEF IInv

LEMMA ExpireStep ==
  ASSUME IInv, NEW k \in Keys, Expire(k)
  PROVE  IInv'
<1>1. /\ Spend("expire")
      /\ records' = [records EXCEPT ![k] = Free]
      /\ generation' = [generation EXCEPT ![k] = @ + 1]
      /\ \A d \in Callers : Working(d) => KeyOf(d) # k
      /\ UNCHANGED <<calls, clock, runs, rows, index, ended, answers>>
  BY DEF Expire, platform
<1>2. FailuresCounted' /\ \A f \in Failures : budget'[f] <= budget[f]
  BY <1>1, SpendCounts DEF IInv, BudgetKinds
<1>3. \A d \in Callers : (Working(d)' <=> Working(d)) /\ KeyOf(d)' = KeyOf(d)
  BY <1>1 DEF Working, KeyOf
<1>5. KnownRun' /\ PastGenerations'
  BY Forgotten
<1>6. records'[k].status = "none" /\ \A j \in Keys \ {k} : records'[j] = records[j]
  BY <1>1 DEF Free, IInv, TypeOK
<1>7. TypeOK'
  BY <1>1 DEF Free, IInv, TypeOK, KeyOf, NoRun
<1>8. OneRunPerKey' /\ AnswersAreRuns'
  BY <1>1 DEF IInv, OneRunPerKey, AnswersAreRuns
<1>9. RecordsFollowCalls'
  <2>1. \A d \in Callers : Working(d) => KeyOf(d) \in Keys
    BY DEF IInv, TypeOK, Working
  <2>2. Stuck' \subseteq Stuck
    BY <1>3, <1>6 DEF Stuck
  <2> QED
    BY <1>1, <1>2, <1>3, <1>6, <2>1, <2>2, NothingStuck DEF IInv, RecordsFollowCalls
<1> QED
  BY <1>2, <1>5, <1>7, <1>8, <1>9 DEF IInv

LEMMA NextIInv ==
  ASSUME IInv, [Next]_vars
  PROVE  IInv'
<1>1. ASSUME NEW c \in Callers, Layer(c) PROVE IInv'
  BY <1>1, ReserveStep, CallsOnlyStep, ReplayStep, CompleteStep, FailedStep, StartRunStep,
     AmbiguousStep DEF Layer
<1>2. ASSUME NEW c \in Callers, \E k \in Keys : Call(c, k) PROVE IInv'
  BY <1>2, CallsOnlyStep
<1>3. CASE \E k \in Keys : Expire(k)
  BY <1>3, ExpireStep
<1>4. CASE \/ \E r \in runs : Project(r) \/ IndexCatchesUp(r) \/ End(r)
           \/ \E i \in Issues : handle_issue_closed(i)
  BY <1>4, ReadModelSteps
<1>5. CASE UNCHANGED vars
  <2>1. /\ UNCHANGED <<calls, records, generation, clock, runs, answers>>
        /\ UNCHANGED <<rows, index, ended, budget>>
    BY <1>5 DEF vars
  <2> QED
    BY <2>1, ReadModelStep, BudgetKept DEF IInv, TypeOK
<1> QED
  BY <1>1, <1>2, <1>3, <1>4, <1>5 DEF Next

-----------------------------------------------------------------------------
\* What the intake keeps whatever the callers, keys and requests are,
\* with a record that stays in progress whenever a call dies or raises.
THEOREM InvariantHolds == Spec => []IInv
BY InitIInv, NextIInv, PTL DEF Spec

\* Run ids stay unique, and the read model shows published runs only.
THEOREM TypeCorrect == Spec => []TypeOK
<1>1. IInv => TypeOK
  BY DEF IInv
<1> QED
  BY <1>1, InvariantHolds, PTL

\* A key mints one run until its record is forgotten, for any number of
\* concurrent calls, retries, redeliveries, rejected publications and deaths.
THEOREM OneRunPerKeyHolds == Spec => []OneRunPerKey
<1>1. IInv => OneRunPerKey
  BY DEF IInv
<1> QED
  BY <1>1, InvariantHolds, PTL

\* No caller is ever given the id of a run that was not published.
THEOREM AnswersAreRunsHolds == Spec => []AnswersAreRuns
<1>1. IInv => AnswersAreRuns
  BY DEF IInv
<1> QED
  BY <1>1, InvariantHolds, PTL

\* Keys are worked on by one call at a time, and only a failed call leaves a
\* record in progress behind: a call that returned normally never does.
THEOREM RecordsFollowCallsHolds == Spec => []RecordsFollowCalls
<1>1. IInv => RecordsFollowCalls
  BY DEF IInv
<1> QED
  BY <1>1, InvariantHolds, PTL
-----------------------------------------------------------------------------
(* The intake keeps the book of module OneRun.                             *)

minted == [k \in Keys |-> CurrentRun(k)]
told == [k \in Keys |-> Told(k)]

\* The book of a key that has a run, and of one that has none.
LEMMA PageOfRun ==
  ASSUME IInv, NEW k \in Keys, NEW r \in runs, IsCurrent(r, k)
  PROVE  CurrentRun(k) = {r.id} /\ Told(k) \subseteq {r.id}
<1>1. \A q \in runs : IsCurrent(q, k) => q = r
  BY DEF IInv, OneRunPerKey, IsCurrent
<1>2. CurrentRun(k) = {r.id}
  BY <1>1 DEF CurrentRun, IsCurrent
<1>3. \A a \in answers : a.key = k /\ a.gen = generation[k] => a.run = r.id
  BY <1>1 DEF IInv, AnswersAreRuns, IsCurrent
<1> QED
  BY <1>2, <1>3 DEF Told

LEMMA EmptyPage ==
  ASSUME IInv, NEW k \in Keys, \A r \in runs : ~IsCurrent(r, k)
  PROVE  CurrentRun(k) = {} /\ Told(k) = {}
<1>1. CurrentRun(k) = {}
  BY DEF CurrentRun, IsCurrent
<1>2. \A a \in answers : ~(a.key = k /\ a.gen = generation[k])
  BY DEF IInv, AnswersAreRuns, IsCurrent
<1> QED
  BY <1>1, <1>2 DEF Told

\* A key whose record just expired has an empty page: what was minted and
\* told under it is of a past generation.
LEMMA EmptiedPage ==
  ASSUME IInv, IInv', NEW k \in Keys, Expire(k)
  PROVE  CurrentRun(k)' = {} /\ Told(k)' = {}
<1>1. records'[k].status = "none"
  BY DEF Expire, Free, IInv, TypeOK
<1>2. \A r \in runs' : ~(r.key = k /\ r.gen = generation'[k])
  BY <1>1 DEF IInv, KnownRun, IsCurrent
<1>3. \A a \in answers' : ~(a.key = k /\ a.gen = generation'[k])
  BY <1>2 DEF IInv, AnswersAreRuns
<1> QED
  BY <1>2, <1>3 DEF CurrentRun, Told

\* A run is booked when it is published, whether or not anybody is told.
LEMMA StartRunBooked ==
  ASSUME IInv, NEW c \in Callers, NEW k \in Keys, k = KeyOf(c),
         start_run(c) \/ start_run_ambiguous(c)
  PROVE  Book!Mint(k)
<1>1. PICK n : /\ n = Minted(k) /\ runs' = runs \cup {n} /\ clock' = clock + 1
               /\ calls[c].pc = "reserved" /\ UNCHANGED <<generation, answers>>
  BY DEF start_run, start_run_ambiguous
<1>2. CurrentRun(k) = {} /\ \A r \in runs : ~(r.key = k /\ r.gen = generation[k])
  BY <1>1, EmptyPage DEF IInv, KnownRun, IsCurrent
<1>3. n.id = clock /\ n.key = k /\ n.gen = generation[k]
  BY <1>1 DEF Minted
<1>4. CurrentRun(k)' = {clock}
  BY <1>1, <1>2, <1>3 DEF CurrentRun
<1>5. \A j \in Keys \ {k} : CurrentRun(j)' = CurrentRun(j)
  BY <1>1, <1>3 DEF CurrentRun
<1>6. minted' = [minted EXCEPT ![k] = {clock}]
  BY <1>4, <1>5 DEF minted
<1>7. told' = told
  BY <1>1 DEF told, Told
<1> QED
  BY <1>1, <1>2, <1>6, <1>7 DEF Book!Mint, minted, told

LEMMA ExpireBooked ==
  ASSUME IInv, IInv', NEW k \in Keys, Expire(k)
  PROVE  Book!Forget(k)
<1>1. UNCHANGED <<runs, answers, clock>>
  BY DEF Expire
<1>2. CurrentRun(k)' = {} /\ Told(k)' = {}
  BY EmptiedPage
<1>3. \A j \in Keys \ {k} : generation'[j] = generation[j]
  BY DEF Expire, IInv, TypeOK
<1>4. \A j \in Keys \ {k} : CurrentRun(j)' = CurrentRun(j) /\ Told(j)' = Told(j)
  BY <1>1, <1>3 DEF CurrentRun, Told
<1>5. /\ minted' = [minted EXCEPT ![k] = {}]
      /\ told' = [told EXCEPT ![k] = {}]
  BY <1>2, <1>4 DEF minted, told
<1> QED
  BY <1>1, <1>5 DEF Book!Forget, minted, told

\* An answer tells the run of its key.
LEMMA AnswerBooked ==
  ASSUME IInv, NEW k \in Keys, NEW r \in runs, IsCurrent(r, k), Answer(k, r.id),
         UNCHANGED <<generation, runs, clock>>
  PROVE  Book!Tell(k)
<1> DEFINE a == [key |-> k, gen |-> generation[k], run |-> r.id]
<1>1. answers' = answers \cup {a}
  BY DEF Answer
<1>2. a.key = k /\ a.gen = generation[k] /\ a.run = r.id
  OBVIOUS
<1>3. CurrentRun(k) = {r.id} /\ Told(k) \subseteq {r.id}
  BY PageOfRun
<1> HIDE DEF a
<1>4. Told(k)' = {r.id}
  BY <1>1, <1>2, <1>3 DEF Told
<1>5. \A j \in Keys \ {k} : Told(j)' = Told(j)
  BY <1>1, <1>2 DEF Told
<1>6. told' = [told EXCEPT ![k] = CurrentRun(k)]
  BY <1>3, <1>4, <1>5 DEF told
<1>7. minted' = minted
  BY DEF minted, CurrentRun
<1> QED
  BY <1>3, <1>6, <1>7 DEF Book!Tell, minted, told

LEMMA RepliesBooked ==
  ASSUME IInv, NEW c \in Callers, NEW k \in Keys, k = KeyOf(c), Replay(c) \/ Complete(c)
  PROVE  Book!Tell(k)
<1>1. UNCHANGED <<generation, runs, clock>>
  BY DEF Replay, Complete
<1>2. CASE Replay(c)
  <2>1. records[k].status = "COMPLETED" /\ Answer(k, records[k].run)
    BY <1>2 DEF Replay
  <2>2. PICK r \in runs : r.id = records[k].run /\ IsCurrent(r, k)
    BY <1>1, <2>1 DEF IInv, KnownRun
  <2> QED
    BY <1>1, <2>1, <2>2, AnswerBooked
<1>3. CASE Complete(c)
  <2>1. calls[c].pc = "minted" /\ Answer(k, calls[c].run)
    BY <1>3 DEF Complete
  <2>2. PICK r \in runs : r.id = calls[c].run /\ IsCurrent(r, k)
    BY <2>1 DEF IInv, KnownRun
  <2> QED
    BY <1>1, <2>1, <2>2, AnswerBooked
<1> QED
  BY <1>2, <1>3

\* All other steps leave the book alone.
LEMMA NotBooked ==
  ASSUME UNCHANGED <<generation, clock, runs, answers>>
  PROVE  minted' = minted /\ told' = told /\ clock' = clock
  BY DEF minted, told, CurrentRun, Told

\* A caller is told of one run only until its key is forgotten: the intake
\* implements the book of OneRun, for any number of callers, keys and faults.
THEOREM IntakeImplementsOneRun == Spec => ImplementsOneRun
<1>1. Init => Book!Init
  BY DEF Init, Book!Init, CurrentRun, Told
<1>2. IInv /\ IInv' /\ [Next]_vars => [Book!Next]_<<minted, told, clock>>
  <2> SUFFICES ASSUME IInv, IInv', [Next]_vars
               PROVE  Book!Next \/ UNCHANGED <<minted, told, clock>>
    OBVIOUS
  <2>1. ASSUME NEW c \in Callers, start_run(c) \/ start_run_ambiguous(c) \/ Replay(c) \/ Complete(c)
        PROVE  Book!Next
    <3>1. KeyOf(c) \in Keys
      BY <2>1 DEF start_run, start_run_ambiguous, Replay, Complete, IInv, TypeOK
    <3>2. PICK k \in Keys : k = KeyOf(c)
      BY <3>1
    <3> QED
      BY <2>1, <3>2, StartRunBooked, RepliesBooked DEF Book!Next
  <2>2. ASSUME NEW k \in Keys, Expire(k)
        PROVE  Book!Next
    BY <2>2, ExpireBooked DEF Book!Next
  <2>3. ASSUME NEW c \in Callers, \/ Reserve(c) \/ AlreadyInProgress(c) \/ CallDies(c)
                                  \/ start_run_rejected(c) \/ \E k \in Keys : Call(c, k)
        PROVE  UNCHANGED <<generation, clock, runs, answers>>
    BY <2>3 DEF Reserve, AlreadyInProgress, CallDies, start_run_rejected, Call
  <2>4. ASSUME \/ \E r \in runs : Project(r) \/ IndexCatchesUp(r) \/ End(r)
               \/ \E i \in Issues : handle_issue_closed(i)
               \/ UNCHANGED vars
        PROVE  UNCHANGED <<generation, clock, runs, answers>>
    BY <2>4 DEF Project, IndexCatchesUp, End, handle_issue_closed, vars
  <2> QED
    BY <2>1, <2>2, <2>3, <2>4, NotBooked DEF Next, Layer
<1> QED
  BY <1>1, <1>2, InvariantHolds, PTL DEF Spec, ImplementsOneRun, Book!Spec, minted, told
=============================================================================
