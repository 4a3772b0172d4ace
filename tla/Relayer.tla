------------------------------ MODULE Relayer ------------------------------
(***************************************************************************)
(* The relayer (relayer/src/main.rs, near_client.rs, adaptive_batch.rs)    *)
(* between a node of the network and the contract: it fetches headers of   *)
(* the node's best chain in parallel, submits them in parallel batches and *)
(* goes back where the contract lacks a parent.                            *)
(*                                                                         *)
(* The contract is LightClient itself.  Nobody sees the inside of a call,  *)
(* so the relayer moves only between calls.  Requests may fail, and a      *)
(* transaction nobody waits for any more may still be executed.            *)
(***************************************************************************)
EXTENDS LightClient, FiniteSetsExt

CONSTANTS
  NodeTips,                \* blocks that may become the node's best tip
  FirstNodeTip,
  RelayerAccount, SubmitDeposit,
  max_fork_len, fetch_batch_size, submit_batch_size, min_batch_size,
  HeaderGas, WalkGas,      \* gas of a header, of an iteration of reorg_chain
  TARGET_GAS_BUDGET, MaxGas,
  MaxFaults                \* bound: failed requests, timeouts and crashes

VARIABLES
  node,                    \* tip of the node's best chain
  final,                   \* the contract's storage as views see it
  first_block_height_to_submit,
  current_batch_size,      \* of the AdaptiveBatchSizer
  at,                      \* where the loop of sync is
  end_height, fetched,     \* what is fetched, and the headers by height
  tasks,                   \* the submissions, and the lookup at the start
  orphans,                 \* transactions that were sent and given up
  running,                 \* the task whose transaction is executed, or 0
  gas,                     \* burnt by the running call
  faults

sync_vars == <<first_block_height_to_submit, at, end_height, fetched>>

relayer_vars == <<node, final, sync_vars, current_batch_size, tasks, orphans, running, gas, faults>>

ASSUME RelayerAssumption ==
  /\ NodeTips \subseteq Hash
  /\ FirstNodeTip \in NodeTips
  /\ RelayerAccount \in Account
  /\ HeaderGas \in 1 .. MaxGas /\ WalkGas \in 1 .. MaxGas
  /\ min_batch_size \in 1 .. submit_batch_size
  /\ {SubmitDeposit, max_fork_len, fetch_batch_size, submit_batch_size, TARGET_GAS_BUDGET,
      MaxGas, MaxFaults} \subseteq Nat

-----------------------------------------------------------------------------
(***************************************************************************)
(* What surrounds the relayer.                                             *)
(***************************************************************************)
\* The node's block at a height; NoHash where the request fails.
NodeBlock(height) ==
  IF height \in GenesisHeight .. TrueHeight(node)
    THEN Ancestor(node, TrueHeight(node) - height)
    ELSE NoHash

\* The node prefers the chain with the most work.
NodeMoves ==
  /\ \E h \in NodeTips : NetWork[h] > NetWork[node] /\ node' = h
  /\ UNCHANGED <<vars, final, sync_vars, current_batch_size, tasks, orphans, running, gas, faults>>

\* Views read final blocks, which come after the ones that were executed.
Finalise ==
  /\ final # saved
  /\ final' = saved
  /\ UNCHANGED <<vars, node, sync_vars, current_batch_size, tasks, orphans, running, gas, faults>>

Fault == faults < MaxFaults /\ faults' = faults + 1

-----------------------------------------------------------------------------
(***************************************************************************)
(* Tasks.  The nonce of a transaction is counted from the access key's.    *)
(***************************************************************************)
Task(nonce, blocks, state) ==
  [nonce |-> nonce, blocks |-> blocks, state |-> state, tip |-> NoHash, gas_burnt |-> 0]

\* The process starts with a lookup; a failure of it ends the process, which
\* is started again.
Starting == <<Task(0, <<>>, "tip")>>

Answers == {"ok", "PrevBlockNotFound", "GasExceeded", "error"}

\* The access key moves to nonce n: others are counted from there.
KeyMovesTo(n, ts) ==
  [i \in DOMAIN ts |->
     IF ts[i].state = "pending" THEN [ts[i] EXCEPT !.nonce = Max({@ - n, 0})] ELSE ts[i]]

\* A transaction with a nonce the key has passed is invalid for ever.
Later(n) == {[o EXCEPT !.nonce = @ - n] : o \in {p \in orphans : p.nonce > n}}

Pending(i) == tasks[i].state = "pending"

\* NEAR executes a transaction of the relayer: the one with the lowest nonce,
\* unless that one is late.
Execute(i) ==
  /\ Pending(i)
  /\ tasks[i].nonce > 0
  /\ IF \E j \in DOMAIN tasks : Pending(j) /\ tasks[j].nonce \in 1 .. tasks[i].nonce - 1
       THEN Fault ELSE UNCHANGED faults
  /\ submit_blocks(RelayerAccount, tasks[i].blocks, SubmitDeposit)
  /\ tasks' = [KeyMovesTo(tasks[i].nonce, tasks) EXCEPT ![i].state = "running"]
  /\ orphans' = Later(tasks[i].nonce)
  /\ running' = i
  /\ UNCHANGED <<node, final, sync_vars, current_batch_size, gas>>

ExecuteOrphan(o) ==
  /\ submit_blocks(RelayerAccount, o.blocks, SubmitDeposit)
  /\ tasks' = KeyMovesTo(o.nonce, tasks)
  /\ orphans' = Later(o.nonce)
  /\ UNCHANGED <<node, final, sync_vars, current_batch_size, running, gas, faults>>

\* A given up transaction is lost or expires.
OrphanExpires(o) ==
  /\ pc = "idle"
  /\ orphans' = orphans \ {o}
  /\ UNCHANGED <<vars, node, final, sync_vars, current_batch_size, tasks, running, gas, faults>>

\* What parse_submit_blocks_response makes of the end of a call.
parse_submit_blocks_response ==
  IF HeadersDone /\ submit_blocks_succeeds THEN "ok"
  ELSE IF HeaderPending /\ Prev[Header] \notin DOMAIN db.headers_pool THEN "PrevBlockNotFound"
  ELSE "error"

\* A call that ended leaves its answer, and the gas it burnt, to its task.
Answered(answer, burnt) ==
  IF pc' = "idle"
    THEN /\ tasks' = IF running = 0 THEN tasks
                     ELSE [tasks EXCEPT ![running].state = answer, ![running].gas_burnt = burnt]
         /\ running' = 0
         /\ gas' = 0
    ELSE UNCHANGED <<tasks, running>> /\ gas' = burnt

\* The gas burnt once the next step of the call is done.  The contract's own
\* init is not the relayer's to pay.
GasAfterStep ==
  gas + (IF call.init THEN 0 ELSE IF HeaderPending THEN HeaderGas
         ELSE IF Walking THEN WalkGas ELSE 0)

\* The contract goes on with a call as long as its gas lasts.
CallStep ==
  /\ Step
  /\ GasAfterStep <= MaxGas
  /\ Answered(parse_submit_blocks_response, GasAfterStep)
  /\ UNCHANGED <<node, final, sync_vars, current_batch_size, orphans, faults>>

CallOutOfGas ==
  /\ GasExceeded
  /\ GasAfterStep > MaxGas
  /\ Answered("GasExceeded", MaxGas)
  /\ UNCHANGED <<node, final, sync_vars, current_batch_size, orphans, faults>>

-----------------------------------------------------------------------------
(***************************************************************************)
(* The loop of sync.                                                       *)
(***************************************************************************)
num_parallel_txs == Max({fetch_batch_size \div submit_batch_size, 1})

current_fetch_size == Min({current_batch_size * num_parallel_txs, fetch_batch_size})

\* The top of the loop.  With nothing to fetch it sleeps and starts again.
Loop ==
  /\ at = "loop"
  /\ first_block_height_to_submit <= TrueHeight(node)
  /\ at' = "fetch"
  /\ end_height' = Min({TrueHeight(node), first_block_height_to_submit + current_fetch_size})
  /\ fetched' = [k \in {} |-> NoHash]
  /\ UNCHANGED <<vars, node, final, first_block_height_to_submit, current_batch_size,
                 tasks, orphans, running, gas, faults>>

heights == first_block_height_to_submit .. end_height

\* One of the parallel requests is answered, by the node as it is now.
get_block_header(k) ==
  /\ at = "fetch"
  /\ k \in heights \ DOMAIN fetched
  /\ \/ fetched' = Insert(fetched, k, NodeBlock(k)) /\ UNCHANGED faults
     \/ fetched' = Insert(fetched, k, NoHash) /\ Fault
  /\ UNCHANGED <<vars, node, final, first_block_height_to_submit, current_batch_size, at,
                 end_height, tasks, orphans, running, gas>>

\* The headers below the first failure, by height.
blocks_to_submit ==
  LET got == {k \in heights : \A j \in first_block_height_to_submit .. k : fetched[j] # NoHash}
  IN  [i \in 1 .. Cardinality(got) |-> fetched[first_block_height_to_submit + i - 1]]

\* Nothing fetched: sleep.  The last block is on the main chain: skip them
\* all.  Otherwise, and where the view fails, go on.
check_submission_skipped ==
  LET n == Len(blocks_to_submit)
      on_chain == n > 0 /\ blocks_to_submit[n] \in DOMAIN final.header_to_height
  IN  /\ at = "fetch"
      /\ heights = DOMAIN fetched
      /\ \/ n = 0 /\ at' = "loop" /\ UNCHANGED <<first_block_height_to_submit, faults>>
         \/ /\ on_chain
            /\ at' = "loop"
            /\ first_block_height_to_submit' = first_block_height_to_submit + n
            /\ UNCHANGED faults
         \/ n > 0 /\ ~on_chain /\ at' = "sign" /\ UNCHANGED <<first_block_height_to_submit, faults>>
         \/ on_chain /\ at' = "sign" /\ Fault /\ UNCHANGED first_block_height_to_submit
      /\ UNCHANGED <<vars, node, final, current_batch_size, end_height, fetched, tasks,
                     orphans, running, gas>>

\* Batches of the current size with consecutive nonces.
chunks(blocks) ==
  LET size == current_batch_size
  IN  [i \in 1 .. (Len(blocks) + size - 1) \div size |->
         SubSeq(blocks, (i - 1) * size + 1, Min({i * size, Len(blocks)}))]

sign_submit_blocks ==
  /\ at = "sign"
  /\ \/ /\ at' = "submit"
        /\ tasks' = [i \in DOMAIN chunks(blocks_to_submit) |->
                       Task(i, chunks(blocks_to_submit)[i], "pending")]
        /\ UNCHANGED faults
     \/ at' = "loop" /\ Fault /\ UNCHANGED tasks
  /\ fetched' = [k \in {} |-> NoHash]
  /\ UNCHANGED <<vars, node, final, first_block_height_to_submit, current_batch_size,
                 end_height, orphans, running, gas>>

\* A task's new state, where nothing else changes but the faults.
Becomes(i, state) ==
  /\ tasks' = [tasks EXCEPT ![i].state = state]
  /\ UNCHANGED <<vars, node, final, sync_vars, current_batch_size, orphans, running, gas>>

\* A transaction whose nonce was overtaken is never executed.
InvalidNonce(i) == Pending(i) /\ tasks[i].nonce = 0 /\ Becomes(i, "done") /\ UNCHANGED faults

\* AdaptiveBatchSizer::on_gas_exceeded and on_success.
on_gas_exceeded == current_batch_size' = Max({current_batch_size \div 2, min_batch_size})

on_success(gas_burnt, num_blocks) ==
  LET gas_per_block == gas_burnt \div num_blocks
      optimal == TARGET_GAS_BUDGET \div gas_per_block
  IN  current_batch_size' =
        IF gas_per_block = 0 THEN current_batch_size
        ELSE Max({Min({optimal, submit_batch_size}), min_batch_size})

\* The answer ok: go on after the last block of the batch.
Succeeded(i) ==
  /\ tasks[i].state = "ok"
  /\ first_block_height_to_submit' = TrueHeight(tasks[i].blocks[Len(tasks[i].blocks)]) + 1
  /\ on_success(tasks[i].gas_burnt, Len(tasks[i].blocks))
  /\ tasks' = [tasks EXCEPT ![i].state = "done"]
  /\ UNCHANGED <<vars, node, final, at, end_height, fetched, orphans, running, gas, faults>>

\* The answers that make the task look for the block to go back to.
GoBack(i) ==
  /\ tasks[i].state \in {"PrevBlockNotFound", "GasExceeded"}
  /\ IF tasks[i].state = "GasExceeded" THEN on_gas_exceeded ELSE UNCHANGED current_batch_size
  /\ tasks' = [tasks EXCEPT ![i].state = "tip"]
  /\ UNCHANGED <<vars, node, final, sync_vars, orphans, running, gas, faults>>

\* Any other failure is logged.
Failed(i) == tasks[i].state = "error" /\ Becomes(i, "done") /\ UNCHANGED faults

\* The relayer stops waiting, whether the transaction was sent, is about to be
\* executed, or has been.
Timeout(i) ==
  /\ tasks[i].state \in {"pending"} \cup Answers
  /\ Fault
  /\ tasks' = [tasks EXCEPT ![i].state = "done"]
  /\ orphans' = IF Pending(i) /\ tasks[i].nonce > 0
                  THEN orphans \cup {[nonce |-> tasks[i].nonce, blocks |-> tasks[i].blocks]}
                  ELSE orphans
  /\ UNCHANGED <<vars, node, final, sync_vars, current_batch_size, running, gas>>

-----------------------------------------------------------------------------
(***************************************************************************)
(* get_last_correct_block_height: two views and requests to the node.      *)
(***************************************************************************)
\* The lookup fails: a submission gives up, the process starts again.
LookupFails(i) == Becomes(i, IF at = "start" THEN "tip" ELSE "done")

LookupFinds_past_next(i, height) ==
  /\ first_block_height_to_submit' = height + 2
  /\ tasks' = [tasks EXCEPT ![i].state = "done"]
  /\ UNCHANGED <<vars, node, final, at, end_height, fetched, current_batch_size, orphans, running, gas>>

LookupFinds(i, height) ==
  /\ first_block_height_to_submit' = height + 1
  /\ tasks' = [tasks EXCEPT ![i].state = "done"]
  /\ UNCHANGED <<vars, node, final, at, end_height, fetched, current_batch_size, orphans, running, gas>>

\* The view get_last_block_header.
ReadTip(i) ==
  /\ tasks[i].state = "tip"
  /\ final.tip_blockhash # NoHash
  /\ tasks' = [tasks EXCEPT ![i].state = "compare", ![i].tip = final.tip_blockhash]
  /\ UNCHANGED <<vars, node, final, sync_vars, current_batch_size, orphans, running, gas, faults>>

CompareTip(i) ==
  LET block == NodeBlock(TrueHeight(tasks[i].tip))
  IN  /\ tasks[i].state = "compare"
      /\ UNCHANGED faults
      /\ \/ block = NoHash /\ LookupFails(i)
         \/ block = tasks[i].tip /\ LookupFinds(i, TrueHeight(block))
         \/ block \notin {NoHash, tasks[i].tip} /\ Becomes(i, "hashes")

\* The view with its arguments (1, max_fork_len): hashes of the main chain
\* below the tip, in ascending order.
get_last_n_blocks_hashes_with_tip(s, skip, limit) ==
  LET top == Tip(s).block_height
      low == Max({Initial(s).block_height, top - limit + 1})
  IN  [i \in 1 .. Max({top - low + 1, 0}) |-> s.height_to_header[low + i - 1]]

get_last_n_blocks_hashes(s, skip, limit) ==
  LET top == Tip(s).block_height
      low == Max({Initial(s).block_height, top - limit - skip + 1})
  IN  [i \in 1 .. Max({top - skip - low + 1, 0}) |-> s.height_to_header[low + i - 1]]

\* The loop counts down from the tip that was read before, on hashes of the
\* tip there is now.  The view panics where its difference of heights would be
\* negative.
CompareHashes(i) ==
  LET hashes == get_last_n_blocks_hashes(final, 1, max_fork_len)
      n == Len(hashes)
      height(j) == TrueHeight(tasks[i].tip) - 1 - j
      same(j) == hashes[n - j] = NodeBlock(height(j))
      found == {j \in 0 .. n - 1 :
                  /\ Tip(final).block_height >= max_fork_len + 1
                  /\ same(j)
                  /\ \A k \in 0 .. j : NodeBlock(height(k)) # NoHash}
  IN  /\ tasks[i].state = "hashes"
      /\ UNCHANGED faults
      /\ \/ found # {} /\ LookupFinds(i, height(Min(found)))
         \/ found = {} /\ LookupFails(i)

\* A request of the lookup fails.
LookupFault(i) ==
  /\ tasks[i].state \in {"tip", "compare", "hashes"}
  /\ at # "start"
  /\ Fault
  /\ LookupFails(i)

-----------------------------------------------------------------------------
\* Every task of the iteration has ended.
IterationDone ==
  /\ at \in {"start", "submit"}
  /\ \A i \in DOMAIN tasks : tasks[i].state = "done"
  /\ at' = "loop"
  /\ tasks' = <<>>
  /\ UNCHANGED <<vars, node, final, first_block_height_to_submit, current_batch_size,
                 end_height, fetched, orphans, running, gas, faults>>

\* The process is killed, wherever it is, and started again.
Crash ==
  /\ pc = "idle"
  /\ at # "start"
  /\ Fault
  /\ at' = "start"
  /\ tasks' = Starting
  /\ orphans' = orphans \cup
       {[nonce |-> tasks[i].nonce, blocks |-> tasks[i].blocks] :
          i \in {j \in DOMAIN tasks : Pending(j) /\ tasks[j].nonce > 0}}
  /\ current_batch_size' = submit_batch_size
  /\ end_height' = 0
  /\ fetched' = [k \in {} |-> NoHash]
  /\ UNCHANGED <<vars, node, final, first_block_height_to_submit, running, gas>>

RelayerInit ==
  /\ Init
  /\ node = FirstNodeTip
  /\ final = EmptyStorage
  /\ first_block_height_to_submit = 0
  /\ current_batch_size = submit_batch_size
  /\ at = "start"
  /\ end_height = 0
  /\ fetched = [k \in {} |-> NoHash]
  /\ tasks = Starting
  /\ orphans = {}
  /\ running = 0
  /\ gas = 0
  /\ faults = 0

InitContract == (\E hs \in InitBlocks : init(hs)) /\ UNCHANGED relayer_vars

\* What the relayer does between calls.
Relay ==
  /\ pc = "idle"
  /\ \/ Loop
     \/ \E k \in heights : get_block_header(k)
     \/ check_submission_skipped
     \/ sign_submit_blocks
     \/ \E i \in DOMAIN tasks :
          \/ InvalidNonce(i) \/ Succeeded(i) \/ GoBack(i) \/ Failed(i)
          \/ ReadTip(i) \/ CompareTip(i) \/ CompareHashes(i)
     \/ IterationDone

Near == \E i \in DOMAIN tasks : Execute(i)

RelayerNext ==
  \/ InitContract
  \/ CallStep
  \/ CallOutOfGas
  \/ Finalise
  \/ Relay
  \/ Near
  \/ pc = "idle" /\ NodeMoves
  \/ pc = "idle" /\ \E i \in DOMAIN tasks : Timeout(i) \/ LookupFault(i)
  \/ \E o \in orphans : ExecuteOrphan(o) \/ OrphanExpires(o)
  \/ Crash

\* The tasks are scheduled, NEAR executes what it receives and finalises it.
RelayerSpec ==
  /\ RelayerInit
  /\ [][RelayerNext]_<<vars, relayer_vars>>
  /\ WF_<<vars, relayer_vars>>(InitContract)
  /\ WF_<<vars, relayer_vars>>(CallStep \/ CallOutOfGas)
  /\ WF_<<vars, relayer_vars>>(Finalise)
  /\ WF_<<vars, relayer_vars>>(Relay)
  /\ WF_<<vars, relayer_vars>>(Near)

-----------------------------------------------------------------------------
\* Once the node stays on a block higher than all it was on, the contract gets
\* to that block: whatever was lost, repeated, late or reorganised on the way,
\* the relayer finds the common block and its headers arrive in order.
CatchesUp ==
  \A best \in NodeTips :
     (\A h \in NodeTips \ {best} : NetHeight[h] < NetHeight[best]) =>
        (<>[](node = best) => <>[](saved.tip_blockhash = best))

\* The relayer never skips a header: between iterations it goes on at most one
\* above the highest header the contract holds.
NeverAhead ==
  at = "loop" =>
    \E h \in DOMAIN saved.headers_pool : first_block_height_to_submit <= TrueHeight(h) + 1
=============================================================================
