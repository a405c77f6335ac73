---------------------------- MODULE X402Gateway -----------------------------
(***************************************************************************)
(* POST /proxy of the x402-gateway service. The gateway calls an upstream  *)
(* for an agent; when the upstream answers 402 with a demand it creates    *)
(* and funds a task of task_market for the amount and calls again with the *)
(* receipt, up to max402Retries times; after a 2xx answer it finalizes the *)
(* last payment when it holds the recipient's operator key: it submits the *)
(* result, verifies it and releases the escrow. The handler is split at    *)
(* its awaits; it keeps nothing outside the request, so a crash forgets    *)
(* it.                                                                     *)
(*                                                                         *)
(* task_market is reduced to the statuses and times of a task (see module  *)
(* TaskMarket). A read of a task goes to an RPC node that may lag, so it   *)
(* returns any status the task has had. Two requests share nothing, not    *)
(* even the nonce of a repeated one, so one is modelled.                   *)
(***************************************************************************)
EXTENDS Naturals, Sequences, SequencesExt

CONSTANTS
    Demands,        \* bound: [amount, managed] of the 402 answers of the upstream
    Budget,         \* budget_lamports of the request
    Max402Retries,
    MaxFailures     \* bound: lost transactions, lost answers, failed reads, crashes

ASSUME GatewayAssumption ==
    /\ Demands \subseteq [amount : Nat, managed : BOOLEAN]
    /\ Budget \in Nat /\ Max402Retries \in Nat /\ MaxFailures \in Nat

VARIABLES
    pc,             \* where the handler is; "done" when it has answered
    attempt,
    demand,         \* payment of the last 402 answer
    receipts,       \* paymentReceipts: tasks
    answer,
    task,           \* tasks of the request
    passed,         \* by task: which of its times the clock has passed
    served,         \* history: tasks whose receipt went with a request that got a 2xx
    unseen,         \* history: a read of the finalization missed or lagged
    failures

handlerVars == <<pc, attempt, demand, receipts, answer>>
chainVars == <<task, passed>>
vars == <<handlerVars, chainVars, served, unseen, failures>>

Times == {"deadline", "dispute window", "grace"}
NoDemand == [amount |-> 0, managed |-> FALSE]
Statuses == {"funded", "proofSubmitted", "verified", "released", "expired"}
Rereading == {"submitted", "verified", "released"}
Finalizing == {"finalize", "submit", "verify", "release"} \cup Rereading

\* was: the statuses the task has had, the present one included.
Task == [amount : Nat, managed : BOOLEAN, status : Statuses, was : SUBSET Statuses]

TypeOK ==
    /\ pc \in {"idle", "fetch", "settle", "confirm", "done"} \cup Finalizing
    /\ attempt \in Nat /\ failures \in 0..MaxFailures
    /\ demand \in Demands \cup {NoDemand}
    /\ task \in Seq(Task)
    /\ passed \in Seq(SUBSET Times) /\ Len(passed) = Len(task)
    /\ receipts \in Seq(DOMAIN task) /\ served \subseteq DOMAIN task /\ unseen \in BOOLEAN
    /\ answer \in {"none", "ok", "rejected", "relayed", "upstream_402", "upstream_error",
                   "settlement_failed", "finalization_failed", "lost"}

Init ==
    /\ pc = "idle" /\ attempt = 0 /\ demand = NoDemand /\ receipts = <<>> /\ answer = "none"
    /\ task = <<>> /\ passed = <<>> /\ served = {} /\ unseen = FALSE /\ failures = 0

-----------------------------------------------------------------------------
(* task_market *)

Funded(d) ==
    /\ task' = Append(task, [amount |-> d.amount, managed |-> d.managed,
                             status |-> "funded", was |-> {"funded"}])
    /\ passed' = Append(passed, {})

CanSubmit(t) == task[t].status = "funded" /\ "deadline" \notin passed[t]
CanVerify(t) == task[t].status = "proofSubmitted"
CanRelease(t) == task[t].status = "verified" /\ "dispute window" \in passed[t]
CanExpire(t) == task[t].status \in {"funded", "proofSubmitted"} /\ "grace" \in passed[t]

Becomes(t, s) ==
    /\ task' = [task EXCEPT ![t].status = s, ![t].was = @ \cup {s}]
    /\ UNCHANGED passed

\* A recipient with a key of its own serves its task; anyone releases or expires.
Submitted(t) == ~task[t].managed /\ CanSubmit(t) /\ Becomes(t, "proofSubmitted")
Verified(t) == ~task[t].managed /\ CanVerify(t) /\ Becomes(t, "verified")
Released(t) == CanRelease(t) /\ Becomes(t, "released")
Expired(t) == CanExpire(t) /\ Becomes(t, "expired")

Others ==
    /\ \E t \in DOMAIN task : Submitted(t) \/ Verified(t) \/ Released(t) \/ Expired(t)
    /\ UNCHANGED <<handlerVars, served, unseen, failures>>

Clock ==
    /\ \E t \in DOMAIN task, e \in Times :
          /\ e \notin passed[t]
          /\ e # "deadline" => "deadline" \in passed[t]
          /\ passed' = [passed EXCEPT ![t] = @ \cup {e}]
    /\ UNCHANGED <<handlerVars, task, served, unseen, failures>>

-----------------------------------------------------------------------------
(* The handler *)

Answer(a) ==
    /\ pc' = "done" /\ answer' = a
    /\ UNCHANGED <<attempt, demand, receipts>>
Goto(l) == pc' = l /\ UNCHANGED <<attempt, demand, receipts, answer>>
Fail == failures < MaxFailures /\ failures' = failures + 1
Latest == Last(receipts)

\* The body does not parse, the budget is above the limit, the target is not on
\* the allow list, the signature is wrong or the agent over its rate: 400, 403, 401,
\* 429, before anything is sent.
Reject ==
    /\ pc = "idle"
    /\ Answer("rejected")
    /\ UNCHANGED <<chainVars, served, unseen, failures>>

Accept ==
    /\ pc = "idle"
    /\ Goto("fetch")
    /\ UNCHANGED <<chainVars, served, unseen, failures>>

\* A 402 whose demand parses. The loop's head has counted the attempt.
Demanded ==
    /\ pc = "fetch"
    /\ \E d \in Demands : demand' = d
    /\ attempt' = attempt + 1 /\ pc' = "settle"
    /\ UNCHANGED <<receipts, answer, chainVars, served, unseen, failures>>

\* A 2xx answer ends the loop, and finalizes the last payment if there is one.
Served ==
    /\ pc = "fetch"
    /\ IF receipts = <<>> THEN Answer("ok") /\ UNCHANGED served
       ELSE Goto("finalize") /\ served' = served \cup {Latest}
    /\ UNCHANGED <<chainVars, unseen, failures>>

\* Mutant: the status is not asked before the last payment is finalized.
RefusedFinalizes ==
    /\ pc = "fetch"
    /\ IF receipts = <<>> THEN Answer("relayed") ELSE Goto("finalize")
    /\ UNCHANGED <<chainVars, served, unseen, failures>>

\* Another status is relayed; so is a 402 without a demand that parses.
Refused ==
    /\ pc = "fetch"
    /\ \E a \in {"relayed", "upstream_402"} : Answer(a)
    /\ UNCHANGED <<chainVars, served, unseen, failures>>

\* The fetch, its timeout or the reading of the body fails.
UpstreamError ==
    /\ pc = "fetch"
    /\ Answer("upstream_error")
    /\ UNCHANGED <<chainVars, served, unseen, failures>>

\* The checks of settleViaTaskMarket and the transaction that creates and funds.
Settle ==
    /\ pc = "settle"
    /\ demand.amount <= Budget
    /\ Funded(demand)
    /\ Goto("confirm")
    /\ UNCHANGED <<served, unseen, failures>>

\* Over budget, or the recipient, its mint or the payer's balance is refused.
SettleRejected ==
    /\ pc = "settle"
    /\ Answer("settlement_failed")
    /\ UNCHANGED <<chainVars, served, unseen, failures>>

\* The payment is read back, and the read must show it funded; the loop's
\* condition follows, and a last 402 answer is the answer.
Confirm ==
    /\ pc = "confirm"
    /\ \E seen \in task[Len(task)].was :
         IF seen # "funded" THEN Answer("settlement_failed")
         ELSE /\ receipts' = Append(receipts, Len(task))
              /\ IF attempt <= Max402Retries THEN pc' = "fetch" /\ UNCHANGED answer
                 ELSE pc' = "done" /\ answer' = "upstream_402"
              /\ UNCHANGED <<attempt, demand>>
    /\ UNCHANGED <<chainVars, served, unseen, failures>>

-----------------------------------------------------------------------------
(* finalizeManagedSettlement: three branches one after the other, each entered
   at most once and only if the last read of the task says so *)

\* The branch for a task that was read as s.
StepOf(s) == CASE s = "funded" -> "submit"
               [] s = "proofSubmitted" -> "verify"
               [] s = "verified" -> "release"
               [] OTHER -> "none"

\* The branches that follow each read.
Ahead == [finalize |-> {"submit", "verify", "release"}, submitted |-> {"verify", "release"},
          verified |-> {"release"}, released |-> {}]

\* The last receipt's task is read as s. No branch ahead applies: whatever the
\* status, the receipt is returned and the request answered with success.
ReadAs(s) ==
    /\ s \in task[Latest].was
    /\ unseen' = (unseen \/ s # task[Latest].status)
    /\ IF task[Latest].managed /\ StepOf(s) \in Ahead[pc] THEN Goto(StepOf(s)) ELSE Answer("ok")
    /\ UNCHANGED <<chainVars, served, failures>>

Finalize == pc = "finalize" /\ \E s \in Statuses : ReadAs(s)

\* fetchNullable finds no task, or the registry no agent of the task's DID: the
\* receipt is returned as it is.
NothingFound ==
    /\ pc = "finalize"
    /\ unseen' = TRUE
    /\ Answer("ok")
    /\ UNCHANGED <<chainVars, served, failures>>

\* The task is read again after each branch.
Reread == pc \in Rereading /\ \E s \in Statuses : ReadAs(s)

\* Mutant: the task is not read again after a step, so no later branch applies.
SendUnread(step, can, status) ==
    /\ pc = step
    /\ \/ can /\ Becomes(Latest, status) /\ Answer("ok")
       \/ ~can /\ Answer("finalization_failed") /\ UNCHANGED chainVars
    /\ UNCHANGED <<served, unseen, failures>>

\* Where each transaction's branch reads the task again.
Sent == [submit |-> "submitted", verify |-> "verified", release |-> "released"]

\* Mutant: the rejected step is tried again without limit.
SendRetried(step, can, status) ==
    /\ pc = step
    /\ \/ can /\ Becomes(Latest, status) /\ Goto(Sent[step])
       \/ ~can /\ Goto("finalize") /\ UNCHANGED chainVars
    /\ UNCHANGED <<served, unseen, failures>>

\* A transaction that the program rejects fails the finalization.
Send(step, can, status) ==
    /\ pc = step
    /\ \/ can /\ Becomes(Latest, status) /\ Goto(Sent[step])
       \/ ~can /\ Answer("finalization_failed") /\ UNCHANGED chainVars
    /\ UNCHANGED <<served, unseen, failures>>

SubmitResult == Send("submit", CanSubmit(Latest), "proofSubmitted")
VerifyTask == Send("verify", CanVerify(Latest), "verified")

\* releaseAfterDisputeWindow waits for the cluster's clock.
ReleaseTask ==
    /\ pc = "release"
    /\ "dispute window" \in passed[Latest]
    /\ Send("release", CanRelease(Latest), "released")

\* A lost transaction, an RPC error or an error after the transaction has
\* landed throws.
Throws ==
    /\ Fail
    /\ \/ pc = "settle" /\ demand.amount <= Budget /\ Funded(demand) /\ Answer("settlement_failed")
       \/ pc = "confirm" /\ Answer("settlement_failed") /\ UNCHANGED chainVars
       \/ pc \in Finalizing
          /\ Answer("finalization_failed") /\ UNCHANGED chainVars
       \/ pc = "submit" /\ CanSubmit(Latest) /\ Becomes(Latest, "proofSubmitted")
          /\ Answer("finalization_failed")
       \/ pc = "verify" /\ CanVerify(Latest) /\ Becomes(Latest, "verified")
          /\ Answer("finalization_failed")
       \/ pc = "release" /\ CanRelease(Latest) /\ Becomes(Latest, "released")
          /\ Answer("finalization_failed")
    /\ UNCHANGED <<served, unseen>>

\* The process ends; nobody answers, and nothing resumes the request.
Crash ==
    /\ pc \notin {"idle", "done"}
    /\ Fail
    /\ Answer("lost")
    /\ UNCHANGED <<chainVars, served, unseen>>

Handler == Demanded \/ Served \/ Refused \/ UpstreamError \/ Settle \/ SettleRejected \/ Confirm
           \/ Finalize \/ NothingFound \/ Reread \/ SubmitResult \/ VerifyTask \/ ReleaseTask

Next == Others \/ Clock \/ Reject \/ Accept \/ Demanded \/ Served \/ Refused \/ UpstreamError \/ Settle
        \/ SettleRejected \/ Confirm \/ Finalize \/ NothingFound \/ Reread
        \/ SubmitResult \/ VerifyTask \/ ReleaseTask \/ Throws \/ Crash

\* Every await ends: the fetch has a timeout, the RPC answers or fails, and the
\* cluster's clock runs. Nobody has to send the request, serve or release a task.
Spec == Init /\ [][Next]_vars /\ WF_vars(Handler) /\ WF_vars(Clock)

-----------------------------------------------------------------------------
\* The gateway spends the client's escrow on a recipient whose key it holds
\* only when the upstream has answered 2xx to a request with that very receipt:
\* no result is submitted, verified or released for an earlier payment of the
\* request, nor after an error.
PaidOnlyAfterService ==
    \A t \in DOMAIN task :
        task[t].managed /\ task[t].status \in {"proofSubmitted", "verified", "released"} => t \in served

\* A paid call to a managed recipient is answered with success while the escrow
\* is still full only when a read of the finalization found nothing or lagged. As
\* long as the reads show the tasks as they are, every path through the three
\* branches ends in an error or with the escrow settled: released, by the gateway
\* or another cranker, or back with the client because the task expired meanwhile.
FullEscrowOnlyUnseen ==
    answer = "ok" /\ receipts # <<>> /\ task[Latest].managed /\ ~unseen
        => task[Latest].status \in {"released", "expired"}

\* Every accepted request is answered (or dies with the process), the wait for
\* the dispute window included.
RequestAnswered == pc = "fetch" ~> pc = "done"

=============================================================================
