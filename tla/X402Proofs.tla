----------------------------- MODULE X402Proofs ------------------------------
(***************************************************************************)
(* Proofs about X402Gateway for any demands, budget, number of retries and *)
(* failures.                                                               *)
(***************************************************************************)
EXTENDS X402Gateway, TLAPS

\* A sequence over a set is one over every larger set.
LEMMA SeqMonotone ==
    ASSUME NEW S, NEW T, S \subseteq T, NEW q \in Seq(S)
    PROVE  q \in Seq(T)
OBVIOUS

\* The last receipt is a task of the request.
LEMMA LatestIsTask ==
    ASSUME TypeOK, receipts # <<>>
    PROVE  Latest \in DOMAIN task
BY DEF TypeOK, Latest, Last

\* A step that only changes the status of a task keeps the tasks and their types.
LEMMA BecomesType ==
    ASSUME TypeOK, NEW t \in DOMAIN task,
           NEW s \in Statuses, Becomes(t, s)
    PROVE  /\ task' \in Seq(Task) /\ Len(task') = Len(task) /\ DOMAIN task' = DOMAIN task
           /\ passed' = passed
           /\ task'[t].status = s /\ task'[t].managed = task[t].managed
           /\ \A u \in DOMAIN task \ {t} : task'[u] = task[u]
<1> DEFINE r == [task[t] EXCEPT !.status = s, !.was = @ \cup {s}]
<1>1. task \in Seq(Task) /\ t \in 1..Len(task)
    BY DEF TypeOK
<1>2. task[t] \in Task
    BY <1>1
<1>3. r \in Task /\ r.status = s /\ r.managed = task[t].managed
  <2>1. \A q \in Task : [q EXCEPT !.status = s, !.was = @ \cup {s}] \in Task
                          /\ [q EXCEPT !.status = s, !.was = @ \cup {s}].status = s
                          /\ [q EXCEPT !.status = s, !.was = @ \cup {s}].managed = q.managed
      BY DEF Task
  <2> QED BY <1>2, <2>1
<1>4. task' = [task EXCEPT ![t] = r] /\ passed' = passed
    BY DEF Becomes
<1> HIDE DEF r
<1>5. task' \in Seq(Task) /\ Len(task') = Len(task)
    BY <1>1, <1>3, <1>4
<1> QED BY <1>1, <1>3, <1>4, <1>5

\* A new payment is the last task, funded; the others stay as they are.
LEMMA FundedType ==
    ASSUME TypeOK, Funded(demand)
    PROVE  /\ task' \in Seq(Task) /\ task' # <<>>
           /\ passed' \in Seq(SUBSET Times) /\ Len(passed') = Len(task')
           /\ DOMAIN task \subseteq DOMAIN task'
           /\ \A u \in DOMAIN task : task'[u] = task[u]
           /\ \A u \in DOMAIN task' \ DOMAIN task : task'[u].status = "funded"
<1> DEFINE r == [amount |-> demand.amount, managed |-> demand.managed,
                 status |-> "funded", was |-> {"funded"}]
<1>1. r \in Task /\ r.status = "funded"
  <2>1. demand \in [amount : Nat, managed : BOOLEAN]
    <3>1. NoDemand \in [amount : Nat, managed : BOOLEAN]
        BY DEF NoDemand
    <3> QED BY <3>1, GatewayAssumption DEF TypeOK
  <2>2. demand.amount \in Nat /\ demand.managed \in BOOLEAN
      BY <2>1
  <2> QED BY <2>2 DEF Task, Statuses
<1>2. task' = Append(task, r) /\ passed' = Append(passed, {})
    BY DEF Funded
<1> HIDE DEF r
<1>3. task \in Seq(Task) /\ passed \in Seq(SUBSET Times) /\ Len(passed) = Len(task)
    BY DEF TypeOK
<1>4. task' \in Seq(Task) /\ Len(task') = Len(task) + 1
    BY <1>1, <1>2, <1>3
<1>5. passed' \in Seq(SUBSET Times) /\ Len(passed') = Len(task) + 1
    BY <1>2, <1>3
<1>6. \A u \in DOMAIN task' : u \in DOMAIN task \/ u = Len(task) + 1
    BY <1>3, <1>4
<1>7. task'[Len(task) + 1] = r /\ \A u \in DOMAIN task : task'[u] = task[u]
    BY <1>1, <1>2, <1>3
<1>8. task' # <<>> /\ DOMAIN task \subseteq DOMAIN task'
    BY <1>3, <1>4
<1> QED BY <1>1, <1>4, <1>5, <1>6, <1>7, <1>8

\* A read leads into a branch that is still ahead, for a managed recipient, or to
\* the answer; and it leaves the chain alone.
LEMMA ReadStep ==
    ASSUME NEW s \in Statuses, ReadAs(s), pc \in Rereading \cup {"finalize"}
    PROVE  /\ UNCHANGED <<attempt, demand, receipts, task, passed, served, failures>>
           /\ unseen' = (unseen \/ s # task[Latest].status)
           /\ \/ pc' = "done" /\ answer' = "ok" /\ (task[Latest].managed => StepOf(s) \notin Ahead[pc])
              \/ pc' = StepOf(s) /\ answer' = answer /\ task[Latest].managed
                 /\ pc' \in {"submit", "verify", "release"}
<1>1. Ahead[pc] \subseteq {"submit", "verify", "release"}
    BY DEF Ahead, Rereading
<1> QED BY <1>1 DEF ReadAs, Answer, Goto, chainVars

\* What the place of the handler tells of the request: a payment is read back
\* only when there is one, finalization works on the receipt that was served and
\* acts for managed recipients only, a transaction it has sent has taken effect
\* when the task is read again, and there is no answer before the end.
Flow ==
    /\ pc = "confirm" => task # <<>>
    /\ pc \in Finalizing => receipts # <<>> /\ Latest \in served
    /\ pc \in Finalizing \ {"finalize"} => task[Latest].managed
    /\ pc = "submitted" => task[Latest].status # "funded"
    /\ pc = "verified" => task[Latest].status \notin {"funded", "proofSubmitted"}
    /\ pc = "released" => task[Latest].status = "released"
    /\ pc # "done" => answer = "none"

\* Every step keeps the types.
LEMMA TypeStep == TypeOK /\ Flow /\ [Next]_vars => TypeOK'
<1> SUFFICES ASSUME TypeOK, Flow, [Next]_vars PROVE TypeOK'
    OBVIOUS
<1> USE GatewayAssumption
<1>1. CASE Others
  <2>1. PICK t \in DOMAIN task : Submitted(t) \/ Verified(t) \/ Released(t) \/ Expired(t)
      BY <1>1 DEF Others
  <2>2. PICK s \in {"proofSubmitted", "verified", "released", "expired"} : Becomes(t, s)
      BY <2>1 DEF Submitted, Verified, Released, Expired
  <2>3. /\ task' \in Seq(Task) /\ Len(task') = Len(task) /\ DOMAIN task' = DOMAIN task
        /\ passed' = passed
      BY <2>2, BecomesType DEF Statuses
  <2> QED BY <1>1, <2>3 DEF Others, TypeOK, handlerVars
<1>2. CASE Clock
  <2>1. PICK t \in DOMAIN task, e \in Times : passed' = [passed EXCEPT ![t] = @ \cup {e}]
      BY <1>2 DEF Clock
  <2>2. t \in 1..Len(passed) /\ passed \in Seq(SUBSET Times)
      BY DEF TypeOK
  <2>3. passed[t] \cup {e} \in SUBSET Times
      BY <2>2
  <2>4. passed' \in Seq(SUBSET Times) /\ Len(passed') = Len(passed)
      BY <2>1, <2>2, <2>3
  <2> QED BY <1>2, <2>4 DEF Clock, TypeOK, handlerVars
<1>3. CASE Accept \/ Reject
  BY <1>3 DEF Accept, Reject, Goto, Answer, TypeOK, chainVars
<1>4. CASE Demanded
  BY <1>4 DEF Demanded, TypeOK, chainVars
<1>5. CASE Served
  BY <1>5, LatestIsTask DEF Served, Answer, Goto, TypeOK, chainVars, Finalizing
<1>6. CASE Refused
  BY <1>6 DEF Refused, Answer, TypeOK, chainVars
<1>7. CASE UpstreamError
  BY <1>7 DEF UpstreamError, Answer, TypeOK, chainVars
<1>8. ASSUME Funded(demand), UNCHANGED <<receipts, served>>
      PROVE  /\ task' \in Seq(Task) /\ passed' \in Seq(SUBSET Times) /\ Len(passed') = Len(task')
             /\ receipts' \in Seq(DOMAIN task') /\ served' \subseteq DOMAIN task'
  <2>1. receipts \in Seq(DOMAIN task)
      BY DEF TypeOK
  <2>2. receipts \in Seq(DOMAIN task')
      BY <1>8, <2>1, FundedType, SeqMonotone
  <2> QED BY <1>8, <2>2, FundedType DEF TypeOK
<1>9. CASE Settle
  <2>1. pc' = "confirm" /\ UNCHANGED <<attempt, demand, receipts, answer, served, unseen, failures>>
      BY <1>9 DEF Settle, Goto
  <2> QED BY <1>8, <1>9, <2>1 DEF Settle, TypeOK
<1>10. CASE SettleRejected
  BY <1>10 DEF SettleRejected, Answer, TypeOK, chainVars
<1>11. CASE Confirm
  <2>1. /\ pc' \in {"fetch", "done"} /\ answer' \in {answer, "settlement_failed", "upstream_402"}
        /\ UNCHANGED <<attempt, demand, task, passed, served, unseen, failures>>
        /\ receipts' \in {receipts, Append(receipts, Len(task))}
      BY <1>11 DEF Confirm, Answer, chainVars
  <2>2. receipts' \in Seq(DOMAIN task)
    <3>1. Len(task) \in DOMAIN task /\ receipts \in Seq(DOMAIN task)
        BY <1>11 DEF Confirm, Flow, TypeOK
    <3> DEFINE D == DOMAIN task
    <3> HIDE DEF D
    <3>2. receipts \in Seq(D) /\ Len(task) \in D
        BY <3>1 DEF D
    <3>3. Append(receipts, Len(task)) \in Seq(D)
        BY <3>2
    <3> QED BY <2>1, <3>2, <3>3 DEF D
  <2> QED BY <2>1, <2>2 DEF TypeOK
<1>12. CASE Finalize \/ Reread \/ NothingFound
  <2>1. CASE NothingFound
    BY <2>1 DEF NothingFound, Answer, TypeOK, chainVars
  <2>2. CASE Finalize \/ Reread
    <3>1. PICK s \in Statuses : ReadAs(s)
        BY <2>2 DEF Finalize, Reread
    <3>2. pc \in Rereading \cup {"finalize"}
        BY <2>2 DEF Finalize, Reread
    <3> QED BY <3>1, <3>2, ReadStep DEF TypeOK, Finalizing
  <2> QED BY <1>12, <2>1, <2>2
<1>13. ASSUME NEW t \in DOMAIN task,
              NEW s \in {"proofSubmitted", "verified", "released"}, Becomes(t, s),
              pc' \in Rereading \cup {"done"}, answer' \in {answer, "finalization_failed"},
              failures' \in 0..MaxFailures,
              UNCHANGED <<attempt, demand, receipts, served, unseen>>
       PROVE  TypeOK'
  <2>1. /\ task' \in Seq(Task) /\ Len(task') = Len(task) /\ DOMAIN task' = DOMAIN task
        /\ passed' = passed
      BY <1>13, BecomesType DEF Statuses
  <2> QED BY <1>13, <2>1 DEF TypeOK, Finalizing, Rereading
<1>14. ASSUME NEW step \in {"submit", "verify", "release"}, NEW can \in BOOLEAN,
              NEW s \in {"proofSubmitted", "verified", "released"}, Send(step, can, s)
       PROVE  TypeOK'
  <2>1. Latest \in DOMAIN task
      BY <1>14, LatestIsTask DEF Send, Flow, Finalizing
  <2>2. CASE Becomes(Latest, s) /\ Goto(Sent[step])
    <3>1. Sent[step] \in Rereading
        BY DEF Sent, Rereading
    <3> QED BY <1>13, <1>14, <2>1, <2>2, <3>1 DEF Send, Goto, TypeOK
  <2>3. CASE Answer("finalization_failed") /\ UNCHANGED chainVars
      BY <1>14, <2>3 DEF Send, Answer, chainVars, TypeOK
  <2> QED BY <1>14, <2>2, <2>3 DEF Send
<1>15. CASE SubmitResult
  <2>1. CanSubmit(Latest) \in BOOLEAN
      BY DEF CanSubmit
  <2> QED BY <1>14, <1>15, <2>1 DEF SubmitResult
<1>16. CASE VerifyTask
  <2>1. CanVerify(Latest) \in BOOLEAN
      BY DEF CanVerify
  <2> QED BY <1>14, <1>16, <2>1 DEF VerifyTask
<1>17. CASE ReleaseTask
  <2>1. CanRelease(Latest) \in BOOLEAN
      BY DEF CanRelease
  <2> QED BY <1>14, <1>17, <2>1 DEF ReleaseTask
<1>18. CASE Throws
  <2>1. failures' \in 0..MaxFailures /\ UNCHANGED <<served, unseen>>
      BY <1>18 DEF Throws, Fail, TypeOK
  <2>2. CASE pc = "settle" /\ Funded(demand) /\ Answer("settlement_failed")
    <3>1. UNCHANGED <<receipts, served>>
        BY <2>1, <2>2 DEF Answer
    <3> QED BY <1>8, <2>1, <2>2, <3>1 DEF Answer, TypeOK
  <2>3. ASSUME NEW a \in {"settlement_failed", "finalization_failed"}, Answer(a), UNCHANGED chainVars
        PROVE  TypeOK'
      BY <2>1, <2>3 DEF Answer, chainVars, TypeOK
  <2>4. ASSUME NEW s \in {"proofSubmitted", "verified", "released"}, Becomes(Latest, s),
               pc \in Finalizing, Answer("finalization_failed")
        PROVE  TypeOK'
    <3>1. Latest \in DOMAIN task
        BY <2>4, LatestIsTask DEF Flow
    <3> QED BY <1>13, <2>1, <2>4, <3>1 DEF Answer
  <2> QED BY <1>18, <2>2, <2>3, <2>4 DEF Throws, Finalizing
<1>19. CASE Crash
  BY <1>19 DEF Crash, Fail, Answer, chainVars, TypeOK
<1>20. CASE UNCHANGED vars
  BY <1>20 DEF vars, handlerVars, chainVars, TypeOK
<1> QED BY <1>1, <1>2, <1>3, <1>4, <1>5, <1>6, <1>7, <1>9, <1>10, <1>11, <1>12,
           <1>15, <1>16, <1>17, <1>18, <1>19, <1>20 DEF Next

\* What a step may do to the tasks of the request: a new one is funded, and an
\* old one moves on by one status or expires; a result is submitted and verified
\* for an unmanaged recipient or after service.
TaskStep ==
    /\ DOMAIN task \subseteq DOMAIN task' /\ served \subseteq served'
    /\ \A u \in DOMAIN task' \ DOMAIN task : task'[u].status = "funded"
    /\ \A u \in DOMAIN task :
        /\ task'[u].managed = task[u].managed
        /\ \/ task'[u].status = task[u].status
           \/ /\ task[u].status = "funded" /\ task'[u].status = "proofSubmitted"
              /\ ~task[u].managed \/ u \in served
           \/ /\ task[u].status = "proofSubmitted" /\ task'[u].status = "verified"
              /\ ~task[u].managed \/ u \in served
           \/ task[u].status = "verified" /\ task'[u].status = "released"
           \/ /\ task[u].status \in {"funded", "proofSubmitted"}
              /\ task'[u].status = "expired"

\* Every step of the gateway, of the others and of the clock is such a step.
LEMMA EveryTaskStep == TypeOK /\ Flow /\ [Next]_vars => TaskStep
<1> SUFFICES ASSUME TypeOK, Flow, [Next]_vars PROVE TaskStep
    OBVIOUS
<1>1. ASSUME UNCHANGED task, served \subseteq served'
      PROVE  TaskStep
  BY <1>1 DEF TaskStep
<1>2. ASSUME NEW t \in DOMAIN task, UNCHANGED served,
             \/ CanSubmit(t) /\ Becomes(t, "proofSubmitted") /\ (~task[t].managed \/ t \in served)
             \/ CanVerify(t) /\ Becomes(t, "verified") /\ (~task[t].managed \/ t \in served)
             \/ CanRelease(t) /\ Becomes(t, "released")
             \/ CanExpire(t) /\ Becomes(t, "expired")
      PROVE  TaskStep
  <2>1. PICK s \in {"proofSubmitted", "verified", "released", "expired"} :
            /\ Becomes(t, s)
            /\ s = "proofSubmitted" => task[t].status = "funded" /\ (~task[t].managed \/ t \in served)
            /\ s = "verified" => task[t].status = "proofSubmitted" /\ (~task[t].managed \/ t \in served)
            /\ s = "released" => task[t].status = "verified"
            /\ s = "expired" => task[t].status \in {"funded", "proofSubmitted"}
      BY <1>2 DEF CanSubmit, CanVerify, CanRelease, CanExpire
  <2>2. /\ DOMAIN task' = DOMAIN task
        /\ task'[t].status = s /\ task'[t].managed = task[t].managed
        /\ \A u \in DOMAIN task \ {t} : task'[u] = task[u]
      BY <2>1, BecomesType DEF Statuses
  <2> QED BY <1>2, <2>1, <2>2 DEF TaskStep
<1>3. CASE Others
  BY <1>2, <1>3 DEF Others, Submitted, Verified, Released, Expired
<1>4. ASSUME Funded(demand), UNCHANGED served
      PROVE  TaskStep
  BY <1>4, FundedType DEF TaskStep
<1>5. ASSUME pc \in Finalizing
      PROVE  Latest \in DOMAIN task /\ Latest \in served
  BY <1>5, LatestIsTask DEF Flow
<1>6. CASE SubmitResult \/ VerifyTask \/ ReleaseTask
  <2>1. pc \in Finalizing /\ UNCHANGED served
      BY <1>6 DEF SubmitResult, VerifyTask, ReleaseTask, Send, Finalizing
  <2> QED BY <1>1, <1>2, <1>5, <1>6, <2>1
          DEF SubmitResult, VerifyTask, ReleaseTask, Send, chainVars
<1>7. CASE Throws
  <2>1. UNCHANGED served
      BY <1>7 DEF Throws
  <2>2. CASE UNCHANGED chainVars
    BY <1>1, <2>1, <2>2 DEF chainVars
  <2>3. CASE Funded(demand)
    BY <1>4, <2>1, <2>3
  <2>4. CASE /\ pc \in Finalizing
             /\ \/ CanSubmit(Latest) /\ Becomes(Latest, "proofSubmitted")
                \/ CanVerify(Latest) /\ Becomes(Latest, "verified")
                \/ CanRelease(Latest) /\ Becomes(Latest, "released")
    BY <1>2, <1>5, <2>1, <2>4
  <2> QED BY <1>7, <2>2, <2>3, <2>4 DEF Throws, Finalizing
<1>8. CASE Settle
  BY <1>4, <1>8 DEF Settle
<1>9. CASE Clock \/ Accept \/ Reject \/ Demanded \/ Served \/ Refused \/ UpstreamError
           \/ SettleRejected \/ Confirm \/ Finalize \/ NothingFound \/ Reread \/ Crash
           \/ UNCHANGED vars
  <2>1. UNCHANGED task /\ served \subseteq served'
      BY <1>9 DEF Clock, Accept, Reject, Demanded, Served, Refused, UpstreamError, SettleRejected,
         Confirm, Finalize, NothingFound, Reread, ReadAs, Crash, chainVars, vars
  <2> QED BY <1>1, <2>1
<1> QED BY <1>3, <1>6, <1>7, <1>8, <1>9 DEF Next

\* The handler's place stays true to the request: only Served enters the
\* finalization, with the receipt it has just recorded, and a task does not fall
\* back behind a transaction that was sent.
LEMMA FlowStep == TypeOK /\ Flow /\ [Next]_vars => Flow'
<1> SUFFICES ASSUME TypeOK, Flow, [Next]_vars PROVE Flow'
    OBVIOUS
<1> USE DEF Finalizing, Rereading
<1>0. TaskStep /\ TypeOK'
    BY EveryTaskStep, TypeStep
<1>1. ASSUME pc' = "done"
      PROVE  Flow'
  BY <1>1 DEF Flow
<1>2. ASSUME UNCHANGED <<pc, receipts, answer>>
      PROVE  Flow'
  <2>1. Latest' = Latest
      BY <1>2 DEF Latest
  <2>2. pc \in Finalizing => Latest \in DOMAIN task
      BY LatestIsTask DEF Flow
  <2>3. task # <<>> => task' # <<>>
      BY <1>0 DEF TypeOK, TaskStep
  <2> QED BY <1>0, <1>2, <2>1, <2>2, <2>3 DEF Flow, TaskStep
<1>3. CASE Others \/ Clock \/ UNCHANGED vars
  BY <1>2, <1>3 DEF Others, Clock, handlerVars, vars
<1>5. CASE Accept \/ Demanded
  BY <1>5 DEF Accept, Demanded, Goto, Flow
<1>7. CASE Served
  <2>1. CASE receipts = <<>>
    BY <1>1, <1>7, <2>1 DEF Served, Answer
  <2>2. CASE receipts # <<>>
    <3>1. /\ pc' = "finalize" /\ served' = served \cup {Latest} /\ pc # "done"
          /\ UNCHANGED <<receipts, answer, task>>
        BY <1>7, <2>2 DEF Served, Goto, chainVars
    <3>2. Latest' = Latest
        BY <3>1 DEF Latest
    <3> QED BY <2>2, <3>1, <3>2 DEF Flow
  <2> QED BY <2>1, <2>2
<1>8. CASE Reject \/ Refused \/ UpstreamError \/ SettleRejected \/ NothingFound \/ Crash \/ Throws
  <2>1. pc' = "done"
      BY <1>8 DEF Reject, Refused, UpstreamError, SettleRejected, NothingFound, Crash, Throws, Answer
  <2> QED BY <1>1, <2>1
<1>9. CASE Settle
  <2>1. pc = "settle" /\ pc' = "confirm" /\ UNCHANGED answer
      BY <1>9 DEF Settle, Goto
  <2>2. task' # <<>>
      BY <1>9, FundedType DEF Settle
  <2> QED BY <2>1, <2>2 DEF Flow
<1>10. CASE Confirm
  BY <1>1, <1>10 DEF Confirm, Answer, Flow
<1>11. CASE Finalize \/ Reread
  <2>1. PICK s \in Statuses : ReadAs(s)
      BY <1>11 DEF Finalize, Reread
  <2>2. pc \in Rereading \cup {"finalize"}
      BY <1>11 DEF Finalize, Reread
  <2>3. UNCHANGED <<receipts, task, served>> /\ Latest' = Latest
      BY <2>1, <2>2, ReadStep DEF Latest
  <2>4. CASE pc' = "done"
    BY <1>1, <2>4
  <2>5. CASE pc' # "done"
    <3>1. /\ pc' \in {"submit", "verify", "release"} /\ answer' = answer
          /\ task[Latest].managed
        BY <2>1, <2>2, <2>5, ReadStep
    <3> QED BY <2>2, <2>3, <3>1 DEF Flow
  <2> QED BY <2>4, <2>5
<1>12. ASSUME NEW step \in {"submit", "verify", "release"}, NEW can \in BOOLEAN,
              NEW s \in {"proofSubmitted", "verified", "released"}, Send(step, can, s),
              step = "submit" => s = "proofSubmitted", step = "verify" => s = "verified",
              step = "release" => s = "released"
       PROVE  Flow'
  <2>1. Latest \in DOMAIN task
      BY <1>12, LatestIsTask DEF Send, Flow
  <2>2. CASE Becomes(Latest, s) /\ Goto(Sent[step])
    <3>1. /\ pc = step /\ pc' = Sent[step] /\ UNCHANGED <<receipts, answer, served>>
          /\ Latest' = Latest
        BY <1>12, <2>2 DEF Send, Goto, Latest
    <3>2. task'[Latest].status = s /\ task'[Latest].managed = task[Latest].managed
        BY <2>1, <2>2, BecomesType DEF Statuses
    <3>3. /\ Sent["submit"] = "submitted" /\ Sent["verify"] = "verified"
          /\ Sent["release"] = "released"
        BY DEF Sent
    <3> QED BY <1>12, <3>1, <3>2, <3>3 DEF Flow
  <2>3. CASE Answer("finalization_failed")
      BY <1>1, <2>3 DEF Answer
  <2> QED BY <1>12, <2>2, <2>3 DEF Send
<1>13. CASE SubmitResult
  <2>1. CanSubmit(Latest) \in BOOLEAN
      BY DEF CanSubmit
  <2> QED BY <1>12, <1>13, <2>1 DEF SubmitResult
<1>14. CASE VerifyTask
  <2>1. CanVerify(Latest) \in BOOLEAN
      BY DEF CanVerify
  <2> QED BY <1>12, <1>14, <2>1 DEF VerifyTask
<1>15. CASE ReleaseTask
  <2>1. CanRelease(Latest) \in BOOLEAN
      BY DEF CanRelease
  <2> QED BY <1>12, <1>15, <2>1 DEF ReleaseTask
<1> QED BY <1>3, <1>5, <1>7, <1>8, <1>9, <1>10, <1>11, <1>13, <1>14, <1>15 DEF Next

\* The invariant the two theorems are proved from.
GatewayInv == TypeOK /\ Flow /\ PaidOnlyAfterService /\ FullEscrowOnlyUnseen

\* A new success for a paid managed call comes from a read. One that showed the
\* task as it was found no branch ahead, and behind the transactions already
\* sent only a settled task has none; after the answer nobody reopens it.
LEMMA OkStep == GatewayInv /\ [Next]_vars => FullEscrowOnlyUnseen'
<1> SUFFICES ASSUME GatewayInv, [Next]_vars,
                    answer' = "ok", receipts' # <<>>, (task[Latest].managed)', ~unseen'
             PROVE  (task[Latest].status)' \in {"released", "expired"}
    BY DEF FullEscrowOnlyUnseen
<1> USE DEF GatewayInv
<1>1. TaskStep /\ TypeOK'
    BY EveryTaskStep, TypeStep
<1>2. CASE pc = "done"
  <2>1. UNCHANGED <<receipts, answer, unseen>>
      BY <1>2 DEF Next, vars, handlerVars, Others, Clock, Accept, Reject, Demanded, Served, Refused,
         UpstreamError, Settle, SettleRejected, Confirm, Finalize, NothingFound, Reread, Rereading,
         SubmitResult, VerifyTask, ReleaseTask, Send, Throws, Crash, Finalizing
  <2>2. Latest' = Latest /\ Latest \in DOMAIN task
      BY <2>1, LatestIsTask DEF Latest
  <2>3. task[Latest].status \in {"released", "expired"}
      BY <1>1, <2>1, <2>2 DEF FullEscrowOnlyUnseen, TaskStep
  <2> QED BY <1>1, <2>2, <2>3 DEF TaskStep
<1>3. CASE pc # "done"
  <2>1. answer = "none"
      BY <1>3 DEF Flow
  <2>2. \/ Served /\ receipts = <<>> /\ UNCHANGED receipts
        \/ Finalize \/ Reread
      BY <2>1 DEF Next, vars, handlerVars, Others, Clock, Accept, Reject, Demanded, Served, Refused,
         UpstreamError, Settle, SettleRejected, Confirm, NothingFound, SubmitResult, VerifyTask,
         ReleaseTask, Send, Throws, Crash, Answer, Goto, chainVars
  <2>3. CASE Finalize \/ Reread
    <3>1. PICK s \in Statuses : ReadAs(s)
        BY <2>3 DEF Finalize, Reread
    <3>2. pc \in Rereading \cup {"finalize"}
        BY <2>3 DEF Finalize, Reread
    <3>3. /\ UNCHANGED <<receipts, task>> /\ Latest' = Latest /\ s = task[Latest].status
          /\ task[Latest].managed /\ StepOf(s) \notin Ahead[pc]
        BY <2>1, <3>1, <3>2, ReadStep DEF Latest
    <3>4. Latest \in DOMAIN task
        BY <3>2, LatestIsTask DEF Flow, Finalizing
    <3>6. /\ pc = "submitted" => s # "funded"
          /\ pc = "verified" => s \notin {"funded", "proofSubmitted"}
          /\ pc = "released" => s = "released"
        BY <3>3 DEF Flow
    <3>7. s \in {"released", "expired"}
        BY <3>2, <3>3, <3>6 DEF StepOf, Ahead, Rereading, Statuses
    <3> QED BY <3>3, <3>7
  <2> QED BY <2>2, <2>3
<1> QED BY <1>2, <1>3

\* The gateway's invariant holds at the start and every step keeps it.
LEMMA GatewayInvariant == Spec => []GatewayInv
<1>1. Init => GatewayInv
  <2> SUFFICES ASSUME Init PROVE GatewayInv
      OBVIOUS
  <2>1. TypeOK
    <3>1. task \in Seq(Task) /\ passed \in Seq(SUBSET Times) /\ Len(passed) = Len(task)
        BY DEF Init
    <3>2. receipts \in Seq(DOMAIN task) /\ served \subseteq DOMAIN task
        BY DEF Init
    <3>3. attempt \in Nat /\ failures \in 0..MaxFailures
        BY GatewayAssumption DEF Init
    <3>4. pc = "idle" /\ demand = NoDemand /\ unseen \in BOOLEAN /\ answer = "none"
        BY DEF Init
    <3> QED BY <3>1, <3>2, <3>3, <3>4 DEF TypeOK
  <2>2. Flow
      BY DEF Init, Flow, Finalizing, Rereading
  <2>3. PaidOnlyAfterService /\ FullEscrowOnlyUnseen
      BY DEF Init, PaidOnlyAfterService, FullEscrowOnlyUnseen
  <2> QED BY <2>1, <2>2, <2>3 DEF GatewayInv
<1>2. GatewayInv /\ [Next]_vars => GatewayInv'
  <2> SUFFICES ASSUME GatewayInv, [Next]_vars PROVE GatewayInv'
      OBVIOUS
  <2>1. TypeOK' /\ Flow' /\ TaskStep
      BY TypeStep, FlowStep, EveryTaskStep DEF GatewayInv
  <2>2. PaidOnlyAfterService'
      BY <2>1 DEF GatewayInv, PaidOnlyAfterService, TaskStep
  <2> QED BY <2>1, <2>2, OkStep DEF GatewayInv
<1> QED BY <1>1, <1>2, PTL DEF Spec

\* x402 proxy, finalizeManagedSettlement: whatever the upstream demands and
\* however transactions and reads fail, the escrow of a managed recipient moves
\* towards payment only for a receipt that came with a 2xx answer.
THEOREM PaymentFollowsService == Spec => []PaidOnlyAfterService
BY GatewayInvariant, PTL DEF GatewayInv

\* x402 proxy, answer of a paid call: success for a managed recipient over an
\* escrow that is still full takes a read that found nothing or lagged, whoever
\* releases or expires the task between the gateway's steps.
THEOREM FullEscrowTakesUnseenRead == Spec => []FullEscrowOnlyUnseen
BY GatewayInvariant, PTL DEF GatewayInv
=============================================================================
