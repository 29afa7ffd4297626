------------------------------ MODULE Sending ------------------------------
(***************************************************************************)
(* How the client libraries send transactions over a network that fails,   *)
(* drops and delays them, and that may answer too late:                    *)
(*  - send_and_confirm (solana-client/src/rpc.rs): submit, then poll for a *)
(*    status a bounded number of times;                                    *)
(*  - send_and_confirm_condensed, all at once, and its _in_order variant   *)
(*    (margin/src/solana/transaction.rs, margin/src/util/asynchronous.rs); *)
(*  - ClientState::send_ordered (client/src/client.rs), which keeps a log; *)
(*  - QueueProcessor::process_forever (margin/src/util/queue_processor.rs) *)
(*    over queues without duplicates (no_dupe_queue.rs), which retries.    *)
(* A behaviour uses one of the four, chosen initially.                     *)
(***************************************************************************)
EXTENDS Integers, Sequences, FiniteSets, SequencesExt

CONSTANTS
    Item,           \* what is sent: an instruction group, or a queued item
    QueueItem,      \* those that are queued
    Plan,           \* the list for the senders of a list, a sequence of Items
    MaxPolls,       \* polls of confirm_transactions (120)
    BatchSize,      \* QueueProcessorConfig::batch_size
    ChunkSize,      \* QueueProcessorConfig::chunk_size
    MaxPushes,      \* bound: items pushed in one behaviour
    MaxFaults,      \* bound: failures of the network in one behaviour
    MaxSpawned      \* bound: batches spawned and not yet started

ASSUME SendingAssumption ==
    /\ Plan \in Seq(Item) /\ QueueItem \subseteq Item
    /\ {MaxPolls, BatchSize, ChunkSize, MaxPushes, MaxSpawned} \subseteq Nat \ {0}
    /\ MaxFaults \in Nat

ListMode == {"at_once", "in_order", "client"}

VARIABLES
    mode,       \* "queue", or the sender of the list
    subs,       \* the calls of send_and_confirm, in the order they started
    faults,     \* failures so far
    result,     \* what the sender of the list returned
    txLog,      \* ClientState::tx_log, the items whose signature it holds
    input,      \* QueueProcessor::input_queue
    retry,      \* QueueProcessor::retry_queue
    proc,       \* where process_all is
    spawned,    \* batches spawned and not yet started
    pushes,     \* items pushed so far
    accepted,   \* how often a queue took it
    applied,    \* how often a transaction with the item landed
    doubts,     \* how often an attempt ended without its outcome being known
    owed,       \* items pushed and not yet processed
    since       \* items pushed since they were last taken from the queue

network == <<subs, faults>>
queue == <<input, retry, proc, spawned>>
history == <<pushes, accepted, applied, doubts, owed, since>>
vars == <<mode, network, result, txLog, queue, history>>

-----------------------------------------------------------------------------
(* NoDupeQueue *)

\* A mutation: duplicates are not looked for.
AppendAll(q, items) == q \o items

\* push_many: an item that is already queued is not added.
PushAll(q, items) ==
    LET push[i \in 0 .. Len(items)] ==
            IF i = 0 THEN q
            ELSE IF Contains(push[i - 1], items[i]) THEN push[i - 1]
            ELSE Append(push[i - 1], items[i])
    IN  push[Len(items)]

Least(m, n) == IF m < n THEN m ELSE n

\* pop_many: up to max items from the front, and what is left.
PopMany(q, max) == SubSeq(q, 1, Least(max, Len(q)))

Rest(q, max) == SubSeq(q, Least(max, Len(q)) + 1, Len(q))

-----------------------------------------------------------------------------
(* The network *)

\* A call of send_and_confirm: "net" is what became of the transaction, "client"
\* what the caller knows.
Attempt(items) == [items |-> items, net |-> "unsent", client |-> "sending", polls |-> 0]

Live(k) == subs[k].client \in {"sending", "polling"}

Fault == faults < MaxFaults /\ faults' = faults + 1

NoFault == UNCHANGED faults

\* A transaction is executed and its instructions take effect, whether or not
\* somebody is still waiting for it.
Land(k) ==
    /\ subs[k].net = "pending"
    /\ subs' = [subs EXCEPT ![k].net = "landed"]
    /\ applied' = [i \in Item |-> applied[i] + (IF Contains(subs[k].items, i) THEN 1 ELSE 0)]
    /\ NoFault
    /\ UNCHANGED <<mode, result, txLog, queue, pushes, accepted, doubts, owed, since>>

\* It is executed and fails, or its blockhash expires before it is executed.
Rejected(k) ==
    /\ subs[k].net = "pending"
    /\ \E outcome \in {"failed", "dropped"} : subs' = [subs EXCEPT ![k].net = outcome]
    /\ Fault
    /\ UNCHANGED <<mode, result, txLog, queue, history>>

-----------------------------------------------------------------------------
(* send_and_confirm *)

\* A mutation: what succeeded is queued again, too.
SucceedsAgain(k) ==
    /\ subs' = [subs EXCEPT ![k].client = "ok"]
    /\ retry' = IF mode = "queue" THEN PushAll(retry, subs[k].items) ELSE retry
    /\ owed' = IF mode = "queue" THEN owed \ (ToSet(subs[k].items) \ since) ELSE owed
    /\ UNCHANGED <<mode, result, txLog, input, proc, spawned>>
    /\ UNCHANGED <<pushes, accepted, applied, doubts, since>>

\* The caller of attempt k learns that it succeeded.
Succeeds(k) ==
    /\ subs' = [subs EXCEPT ![k].client = "ok"]
    /\ owed' = IF mode = "queue" THEN owed \ (ToSet(subs[k].items) \ since) ELSE owed
    /\ UNCHANGED <<mode, result, txLog, queue, pushes, accepted, applied, doubts, since>>

\* process_forever: the items of a failed chunk are retried, the last one first.
Retried(items) == PushAll(retry, Reverse(items))

\* The caller of attempt k gets an error, whatever becomes of the transaction;
\* net and why are the attempt's new state.
Fails(k, net, why) ==
    /\ subs' = [subs EXCEPT ![k].net = net, ![k].client = why]
    /\ retry' = IF mode = "queue" THEN Retried(subs[k].items) ELSE retry
    /\ doubts' = [i \in Item |->
            doubts[i] + (IF net \in {"pending", "landed"} /\ Contains(subs[k].items, i)
                         THEN 1 ELSE 0)]
    /\ UNCHANGED <<mode, result, txLog, input, proc, spawned>>
    /\ UNCHANGED <<pushes, accepted, applied, owed, since>>

\* The node takes the transaction.
Submit(k) ==
    /\ subs[k].client = "sending"
    /\ subs' = [subs EXCEPT ![k].net = "pending", ![k].client = "polling"]
    /\ NoFault
    /\ UNCHANGED <<mode, result, txLog, queue, history>>

\* No blockhash, or no signature: nothing is sent.
CompileFails(k) == subs[k].client = "sending" /\ Fault /\ Fails(k, "unsent", "err")

\* The node refuses, or takes the transaction and its answer is lost.
SubmitFails(k) ==
    /\ subs[k].client = "sending"
    /\ Fault
    /\ \E net \in {"unsent", "pending"} : Fails(k, net, "send_err")

\* confirm_transaction_result: a status decides, its absence is waited for.
PollFinds(k) ==
    /\ subs[k].client = "polling"
    /\ \/ subs[k].net = "landed" /\ Succeeds(k)
       \/ subs[k].net = "failed" /\ Fails(k, "failed", "err")
    /\ NoFault

\* A mutation: the client polls for as long as there is no status.
PollsForever(k) ==
    /\ subs[k].client = "polling" /\ subs[k].net \in {"pending", "dropped"}
    /\ subs[k].polls < MaxPolls - 1
    /\ subs' = [subs EXCEPT ![k].polls = @ + 1]
    /\ NoFault
    /\ UNCHANGED <<mode, result, txLog, queue, history>>

\* No status yet; after the last poll the caller gives up on a transaction that
\* may still land (a fault of the network, if it does).
PollWaits(k) ==
    /\ subs[k].client = "polling" /\ subs[k].net \in {"pending", "dropped"}
    /\ IF subs[k].polls + 1 < MaxPolls
       THEN /\ subs' = [subs EXCEPT ![k].polls = @ + 1]
            /\ NoFault
            /\ UNCHANGED <<mode, result, txLog, queue, history>>
       ELSE /\ Fails(k, subs[k].net, "err")
            /\ IF subs[k].net = "pending" THEN Fault ELSE NoFault

\* A poll fails: the error is returned although the transaction is under way.
PollFails(k) == subs[k].client = "polling" /\ Fault /\ Fails(k, subs[k].net, "err")

-----------------------------------------------------------------------------
(* Sending a list *)

\* map_async starts every send at once; the others start with the first.
FirstAttempts(m) ==
    CASE m = "at_once" -> [k \in DOMAIN Plan |-> Attempt(<<Plan[k]>>)]
      [] m \in {"in_order", "client"} /\ Plan # <<>> -> <<Attempt(<<Plan[1]>>)>>
      [] OTHER -> <<>>

AllOk == \A k \in DOMAIN subs : subs[k].client = "ok"

\* A mutation: the next one is sent as soon as the last was submitted.
SendBehind ==
    /\ mode \in {"in_order", "client"} /\ result = "none"
    /\ \A k \in DOMAIN subs : subs[k].client \in {"polling", "ok"}
    /\ Len(subs) < Len(Plan)
    /\ subs' = Append(subs, Attempt(<<Plan[Len(subs) + 1]>>))
    /\ NoFault
    /\ UNCHANGED <<mode, result, txLog, queue, history>>

\* In order, the next one is sent when the last was confirmed.
SendNext ==
    /\ mode \in {"in_order", "client"} /\ result = "none"
    /\ AllOk /\ Len(subs) < Len(Plan)
    /\ subs' = Append(subs, Attempt(<<Plan[Len(subs) + 1]>>))
    /\ NoFault
    /\ UNCHANGED <<mode, result, txLog, queue, history>>

\* A mutation: signatures are logged when the transactions were submitted.
LogSubmitted ==
    {Plan[k] : k \in {j \in DOMAIN subs : subs[j].net # "unsent"}}

\* send_ordered logs on its regular way out, which a failure to submit takes
\* and a failure to confirm does not.
Logged ==
    IF \E k \in DOMAIN subs : subs[k].client = "err" THEN {}
    ELSE {Plan[k] : k \in {j \in DOMAIN subs : subs[j].client = "ok"}}

\* A mutation: the last answer decides.
LastDecides == IF subs # <<>> /\ subs[Len(subs)].client = "ok" THEN "ok" ELSE "err"

\* collect::<Result<Vec<_>>>: one error makes the result an error.
Outcome == IF AllOk THEN "ok" ELSE "err"

\* The call returns when nothing it waits for is under way and nothing follows.
ListReturns ==
    /\ mode \in ListMode /\ result = "none"
    /\ \A k \in DOMAIN subs : ~Live(k)
    /\ AllOk => Len(subs) = Len(Plan)
    /\ result' = Outcome
    /\ txLog' = IF mode = "client" THEN Logged ELSE txLog
    /\ UNCHANGED <<mode, network, queue, history>>

-----------------------------------------------------------------------------
(* QueueProcessor *)

\* Somebody queues an item; the queue ignores it if it is already there.
Push(i) ==
    /\ mode = "queue" /\ pushes < MaxPushes
    /\ input' = PushAll(input, <<i>>)
    /\ pushes' = pushes + 1
    /\ accepted' = [accepted EXCEPT ![i] = @ + (IF Contains(input, i) THEN 0 ELSE 1)]
    /\ owed' = owed \cup {i} /\ since' = since \cup {i}
    /\ UNCHANGED <<mode, network, result, txLog, retry, proc, spawned, applied, doubts>>

\* process_forever calls process_all again and again; it returns at once while
\* the queue is empty, which changes nothing.
ProcessAll ==
    /\ mode = "queue" /\ proc = "idle" /\ input # <<>>
    /\ proc' = "spawn"
    /\ UNCHANGED <<mode, network, result, txLog, input, retry, spawned, history>>

SpawnBatch ==
    /\ proc = "spawn" /\ spawned < MaxSpawned
    /\ spawned' = spawned + 1
    /\ proc' = "count"
    /\ UNCHANGED <<mode, network, result, txLog, input, retry, history>>

\* The length is read again, before or after the batch took its items.
CountRemaining ==
    /\ proc = "count"
    /\ proc' = IF input # <<>> THEN "spawn" ELSE "join"
    /\ UNCHANGED <<mode, network, result, txLog, input, retry, spawned, history>>

\* One attempt for each chunk of a batch.
Chunks(items) ==
    [c \in 1 .. (Len(items) + ChunkSize - 1) \div ChunkSize |->
        Attempt(SubSeq(items, (c - 1) * ChunkSize + 1, Least(c * ChunkSize, Len(items))))]

\* An attempt somebody waits for, or whose transaction may still land; the others
\* are forgotten.
Pending(attempt) == attempt.client \in {"sending", "polling"} \/ attempt.net = "pending"

StillPending(attempts) ==
    LET kept[j \in 0 .. Len(attempts)] ==
            IF j = 0 THEN <<>>
            ELSE IF Pending(attempts[j]) THEN Append(kept[j - 1], attempts[j])
            ELSE kept[j - 1]
    IN  kept[Len(attempts)]

\* process_batch: a spawned task takes a batch and sends its chunks at once.
ProcessBatch ==
    /\ spawned > 0
    /\ spawned' = spawned - 1
    /\ input' = Rest(input, BatchSize)
    /\ subs' = StillPending(subs) \o Chunks(PopMany(input, BatchSize))
    /\ since' = since \ ToSet(PopMany(input, BatchSize))
    /\ NoFault
    /\ UNCHANGED <<mode, result, txLog, retry, proc, pushes, accepted, applied, doubts, owed>>

\* A mutation: what could not be retried in this round is dropped.
DropRest(q) == <<>>

KeptRetries(q) == Rest(q, BatchSize)

\* A mutation: what failed waits until something else is queued.
JoinOnly ==
    /\ proc = "join" /\ spawned = 0
    /\ \A k \in DOMAIN subs : ~Live(k)
    /\ proc' = IF input # <<>> THEN "spawn" ELSE "idle"
    /\ UNCHANGED <<mode, network, result, txLog, input, retry, spawned, history>>

\* try_join_all, then a single batch of what failed goes back to the queue.
JoinAndRequeue ==
    /\ proc = "join" /\ spawned = 0
    /\ \A k \in DOMAIN subs : ~Live(k)
    /\ input' = PushAll(input, PopMany(retry, BatchSize))
    /\ retry' = KeptRetries(retry)
    /\ proc' = IF input' # <<>> THEN "spawn" ELSE "idle"
    /\ UNCHANGED <<mode, network, result, txLog, spawned, history>>

-----------------------------------------------------------------------------
(* Specification *)

Init ==
    /\ mode \in ListMode \cup {"queue"}
    /\ subs = FirstAttempts(mode) /\ faults = 0
    /\ result = "none" /\ txLog = {}
    /\ input = <<>> /\ retry = <<>> /\ proc = "idle" /\ spawned = 0
    /\ pushes = 0 /\ accepted = [i \in Item |-> 0]
    /\ applied = [i \in Item |-> 0] /\ doubts = [i \in Item |-> 0]
    /\ owed = {} /\ since = {}

Client(k) == Submit(k) \/ PollFinds(k) \/ PollWaits(k)

Sender == SendNext \/ ListReturns

Processor == ProcessAll \/ SpawnBatch \/ CountRemaining \/ JoinAndRequeue

Next ==
    \/ \E k \in DOMAIN subs :
        \/ Client(k) \/ CompileFails(k) \/ SubmitFails(k) \/ PollFails(k)
        \/ Land(k) \/ Rejected(k)
    \/ Sender
    \/ \E i \in QueueItem : Push(i)
    \/ Processor \/ ProcessBatch

Spec == Init /\ [][Next]_vars

\* The attempts a behaviour can start: one for each entry of the list, or one
\* for each push and for each fault, after which an item is tried again.
MaxAttempts == IF Len(Plan) > MaxPushes + MaxFaults THEN Len(Plan) ELSE MaxPushes + MaxFaults

\* The runtime polls every future that is ready: the senders, each attempt, the
\* processor and each batch get on. Of the network only this is assumed: a
\* transaction that is not dropped is executed in the end.
Fairness ==
    /\ WF_vars(Sender) /\ WF_vars(Processor) /\ WF_vars(ProcessBatch)
    /\ \A k \in 1 .. MaxAttempts :
        /\ WF_vars(k \in DOMAIN subs /\ Client(k))
        /\ WF_vars(k \in DOMAIN subs /\ Land(k))

FairSpec == Spec /\ Fairness

-----------------------------------------------------------------------------
(* Properties *)

AttemptState ==
    [items : Seq(Item), net : {"unsent", "pending", "landed", "failed", "dropped"},
     client : {"sending", "polling", "ok", "err", "send_err"}, polls : 0 .. MaxPolls - 1]

\* The state keeps its shape, and neither queue holds an item twice.
TypeOK ==
    /\ mode \in ListMode \cup {"queue"}
    /\ \A k \in DOMAIN subs : subs[k] \in AttemptState
    /\ result \in {"none", "ok", "err"} /\ txLog \subseteq Item
    /\ proc \in {"idle", "spawn", "count", "join"} /\ spawned \in 0 .. MaxSpawned
    /\ IsInjective(input) /\ IsInjective(retry)

\* send_and_confirm_condensed_in_order and send_ordered ("sends transactions one
\* at a time after confirming the last"): whatever fails, is lost or lands late,
\* what lands is a beginning of the list.
LandedIsPrefix ==
    mode \in {"in_order", "client"} =>
        \A k \in DOMAIN subs : subs[k].net # "unsent" =>
            \A j \in 1 .. k - 1 : subs[j].net = "landed"

\* A sender of a list that returns Ok has landed all of it.
OkMeansLanded ==
    result = "ok" => /\ Len(subs) = Len(Plan)
                     /\ \A k \in DOMAIN subs : subs[k].net = "landed"

\* tx_log holds signatures of transactions that took effect, although it is
\* written on the way out of a failed send_ordered too.
LogHoldsLanded == \A i \in txLog : applied[i] > 0

\* What the senders of a list tell their caller agrees with what took effect, in
\* the order of the list.
ListsLandInOrder == LandedIsPrefix /\ OkMeansLanded /\ LogHoldsLanded

\* "Any items that failed to process retried indefinitely" (process_forever): an
\* item that was queued and not processed since is in a queue or on its way.
NothingLost ==
    \A i \in owed :
        \/ Contains(input, i) \/ Contains(retry, i)
        \/ \E k \in DOMAIN subs : Live(k) /\ Contains(subs[k].items, i)

\* The queues are well formed and hold, with the attempts, all that is owed.
QueuesHoldAll == TypeOK /\ NothingLost

\* An item takes effect more often than a queue took it only when an attempt
\* was given up while its transaction was under way.
DuplicatesAreLate == mode = "queue" => \A i \in Item : applied[i] <= accepted[i] + doubts[i]

\* Every list is answered: the polls are counted, so that a transaction that
\* never lands does not block its caller.
ListAnswered == mode \in ListMode => <>(result # "none")

\* Every item that is queued is processed, and again if it is queued again,
\* once the network stops failing.
QueueServed == \A i \in Item : i \in owed ~> i \notin owed

\* Whoever hands work to a sender or to the queue gets an answer; the fairness
\* assumed covers every attempt there is.
WorkIsAnswered == [](Len(subs) <= MaxAttempts) /\ ListAnswered /\ QueueServed
=============================================================================
