# A TLA+ model of the itcoin-fbft replicas

itcoin-fbft mines the blocks of a signet-like chain (itcoin) with a fixed cluster
of replicas. Each replica runs an FBFT automaton - PBFT with view changes,
combined with ROAST threshold signing of the block - written in Prolog
(`engine/fbft-replica-engine.pl`) and driven from C++ (`src/fbft`). This directory
holds TLA+ specifications of that automaton, of the event loop around it and of the two
Python tools with logic of their own, the TLC configurations that check them on small
instances, and TLAPS proofs that hold for every instance. Paths below are relative to the
repository's root.

## 1. The system

| Part | State | Operations | Talks to |
|---|---|---|---|
| FBFT engine, `engine/fbft-replica-engine.pl` | dynamic tables per replica: `view`, `active_view`, `seqno`, `last_exec`, `last_rep`, `val`, `checkpoint`, the logs `msg_log_*`, the certificates `view_change_Pi/Qi`, the ROAST tables, the output `msg_out_*` | a pair `pre_X` / `apply_X` for each action X: RECEIVE_REQUEST, SEND/RECEIVE_PRE_PREPARE, SEND/RECEIVE_PREPARE, SEND/RECEIVE_COMMIT, ROAST_INIT, ROAST_RECEIVE_PRE_SIGNATURE, ROAST_RECEIVE_SIG_SHARE, EXECUTE, RECEIVE_BLOCK, SEND/RECEIVE_VIEW_CHANGE, SEND/RECEIVE/PROCESS_NEW_VIEW, RECOVER_VIEW | queried by the C++ actions |
| Actions, `src/fbft/actions` | none of their own | `BuildActives` evaluates a guard, `effect` applies it and calls blockchain and wallet | engine, blockchain, wallet |
| Messages, `src/fbft/messages` | fields of one message | conversion between JSON, engine terms and C++ | engine, transport |
| `ReplicaState`, `src/fbft/state` | input buffer, active actions, output buffer | `Apply`, `ReceiveIncomingMessage`, `UpdateActiveActions` | actions |
| `Replica2`, `src/fbft/Replica2.cpp` | view database, timers | `GenerateRequests`, `CheckTimedActions`, `ApplyActiveActions`, `ReceiveIncomingMessage` | state, transport |
| Process, `src/main.cpp` | sockets | start at the node's tip, event loop | everything |
| Blockchain, `src/blockchain` | the itcoin node's chain (external) | `GenerateBlock`, `TestBlockValidity`, `FinalizeBlock`, `SubmitBlock` | the node's RPC |
| Wallets, `src/wallet` | key share, one nonce | pre-signature share, signature share, message signature | engine actions |
| Transport, `src/transport` | sockets | broadcast, receive | other replicas, the node |
| Rebuild decision, `scripts/check-repo-src-changed.py`, called by `scripts/_build-itcoin-core-if-changed.sh` | a status directory: recorded commit, recorded changes, checksum of both | compare the repository with the record, renew the record, build | git or hg, CMake |
| JSON minifier, `infra/json_minify.py` | none | remove comments and white space from a configuration file | `infra/reset-infra.sh` |

A replica reacts to four kinds of events: a message of another replica, a block
announced by its node, a request time that arrives, a timeout. After each one it
runs active actions until none is left (or eleven have run). All that a replica
stores across a restart is its view.

### What is hard

* The replicas act in any order, and messages are lost, duplicated, delayed and
  reordered; nothing is acknowledged or resent.
* A timeout may hit a replica at any moment of agreeing on, signing or executing a
  block - also the primary that is about to submit it - and the other replicas at
  other moments.
* A view change has to carry over what may have been executed, from logs that are
  cut by view (view change) and by height (garbage collection) at other moments.
* Blocks arrive by a separate channel and race the messages that led to them.
* A replica that missed a view change adopts the later view from COMMITs alone.
* ROAST messages name neither view nor height.
* A message is delivered once. One that its guard refuses is dropped for ever, or kept if it
  is exactly one block too early; a proposal that is too early for the receiver's clock is
  dropped; and actions are applied from a snapshot, at most eleven
  for an event.
* A process may stop at any moment and comes back with its view only - or, when it was just
  writing a new view, without one.
* The rebuild decision is interrupted together with the build, between any two writes of
  its record.

### What makes the parts correct

* Cluster: at most one block per height, no gap, one block per period, only after a
  quorum committed it; the chain is never rewritten.
* Agreement within a view: replicas log one proposal per slot.
* View change: prepared slots are reported, a NEW_VIEW rests on a quorum of
  replicas, executed blocks are proposed again.
* View recovery: the adopted view was really in use.
* Signing: a session that is declared final can be aggregated; no nonce signs twice; the
  block is signed although some signers stay silent; no share in a view the replica has
  left.
* Replica: views, checkpoints and the last execution never go back; no process
  stops on its own exceptions.
* Event loop: nothing that is needed later is dropped, nothing stays unhandled, the replica
  follows the chain.
* Restart: a replica comes back on the chain and not behind what it has reported.
* Rebuild decision: "has not changed" is said only of the recorded state, "no need to build"
  only of libraries that are built from it, and no interruption or damage blocks the tool.
* JSON minifier: strings are kept, comments are removed, whatever they contain.
* Progress: with a quorum up, every request is eventually executed (for signing and for the
  event loop of one replica: section 6; for agreement with view changes: planned, section 8).

`PROJECT.json` lists the hazards of the code line by line, with the properties aimed
at each of them.

## 2. Modules

| Module | Content |
|---|---|
| `FbftMessages` | cluster, quorums, message records |
| `FbftEngine` | the replicas and the network: state, `Init`, one action per engine action, `Spec` |
| `FbftSafety` | the properties, and the refinement of `Ledger` |
| `Ledger` | abstract specification: one chain that grows by one scheduled block at a time |
| `FbftRestart` | `FbftEngine` with processes that stop and start again |
| `MCFbft`, `MCFbftRestart` | start states for TLC |
| `FbftEngineProofs` | proof of type correctness |
| `FbftSlotProofs` | inductive invariant and proof of `SlotAgreement` |
| `FbftChainProofs` | proofs about the chain and the replicas' state, with restarts |
| `FbftQuorumProofs` | proofs about quorums: execution, signing, active views, what a VIEW_CHANGE keeps |
| `FbftLedgerProofs` | proofs about forks, the first view change and the refinement of `Ledger` |
| `Roast` | signing of one block: the coordinator's session table, the signers and their nonces |
| `RoastSafety` | the properties of signing |
| `RoastProofs` | proofs of the safety properties of signing |
| `ReplicaLoop` | the event loop of one replica: input buffers, active actions, the limit of actions, its clock |
| `ReplicaLoopProofs` | proof of `EarlyKept`, and of what agreeing clocks add |
| `RepoStatus` | the rebuild decision: the tool, the build step, disturbances, properties |
| `RepoStatusProofs` | proofs of its two invariants |
| `JsonMinify` | `json_minify` and its reference |
| `MCRepoStatus` | a small repository; evaluates the assumptions of `JsonMinify` as well |

`Roast` refines the one point that `FbftEngine` abstracts, how the shares of a final
session come about; both extend `FbftMessages`. They are not composed: `FbftEngine` with
session tables is out of TLC's reach. `FbftEngine` takes "F+1 replicas sent a share for
the block" as final; `FinalSessionSound` is what makes that sound, and the run
`roast_late_request` shows where it is not.

### Correspondence with the code

* A variable of `FbftEngine` is the engine's table of the same name, as a function of
  the replica. The engine's `assertz_once` lists are sets.
* An action is the C++ action class of the same name: its guard `pre_X` is the engine's
  `pre_X` (called from `BuildActives`), its primed part the engine's `apply_X` with
  everything it calls: log clearing, garbage collection, ROAST being switched off.
  `RECEIVE_REQUEST` is part of `GenerateRequests`, as in the code: requests are not
  received, each replica makes its own.
* `msg_out_X` is what was ever broadcast. A message may be received at any later time,
  by anyone, once, several times or never. `ReplicaState::Apply` drops a message whose
  guard is false (or keeps it while it is one checkpoint ahead): in the model the
  message simply stays receivable.
* `msg_log_commit` has a row for each different COMMIT, as the engine's table, which is keyed
  on the data of the COMMIT too. The data is the pre-signature share, drawn at random for
  each COMMIT (`GetPreSignatureShare`): the COMMITs of one sender for one slot are numbered.
  Without restarts a replica sends one per slot. `committed` counts rows. The table for
  RECOVER_VIEW has no data (`RecoveryCommit`).
* `blocks` is the chain of the itcoin nodes. `SubmitBlock` adds to it, and every
  replica's node may announce a block of it at any time, in any order.
* `alive` loses a replica whose process ends by an uncaught exception: building a
  NEW_VIEW with a null Chi entry, or looking up a PRE_PREPARE that is not logged.
* Initial state: height and time of the node's chain, view of the database, that view
  considered active, the first requests generated (`ReplicaState`, `main.cpp`).

In `Roast`:

* `roast[r]` is the record of the `roast_*` tables of replica r, so that
  `RECEIVE_SIG_SHARE` can be applied once for a message and, by `InitTables`, once for
  each logged COMMIT in ROAST_INIT. It yields no outcome where the engine's predicate
  fails and the transaction is rolled back. The log is a set and ROAST_INIT takes its
  COMMITs in any order, because any order of arrival is possible.
* A session holds shares, and `NoShare`, the atom false that RECEIVE_SIG_SHARE appends for a
  COMMIT whose sender is in a session already. `NoShare` is no `Share` and never aggregates,
  but the engine counts it.
* `nonce[r]` is `m_nonce` of the wallet, as the number of pre-signature shares made.
  `GetPreSignatureShare` (in SEND_COMMIT and in the reply to a request) makes the next
  one; `GetSignatureShare` signs with the present one, whatever the request says.
* Messages are consumed by delivery, and a bounded number of deliveries is repeated.
  Replies are broadcast, so they reach the coordinators of all views.
* Of the agreement remain COMMITs, timeouts and the block: a replica may be prepared at
  any time in view 0 and in a view that a quorum has entered. A COMMIT is received one by
  one at the coordinator, where it feeds ROAST; the others only count COMMITs, and
  `Committed` counts those sent.
* One block in all views, the one a NEW_VIEW proposes again. RECOVER_VIEW and the next
  height are left out.

In `FbftRestart`:

* `Restart` is `main` up to the construction of `Replica2`, with `init_notx`: all tables
  empty, the persisted view considered active, height, block and time of the node's best
  block (`Tips`: the node holds what its replica has executed or was told, and may have
  received more while the process was down). It applies to a running process, which is
  stopped first, and to one that ended by an exception. Messages that are on their way stay.
* `GenerateRequests` is the first thing in every event, so the first requests are part of
  the restart.
* `StopInSetView` is a stop between the two writes of `set_view` to the database, in
  SEND_VIEW_CHANGE or RECOVER_VIEW: nothing of the step has been sent, and no view is stored.
  `init_notx` then fails at its lookup of the view at each start, so the replica (`unset`)
  never restarts; an operator has to reset the database.

In `ReplicaLoop`:

* `m_in_msg_buffer`, `m_in_msg_awaiting_checkpoint_buffer`, `m_active_actions` and
  `num_applied_actions` are the code's, `h` is `get_h` of the engine. One round of
  `ApplyActiveActions` is one action; between two events `running` is false.
* `ApplyReceive` and `ApplySend` are `ReplicaState::Apply`. The active actions are computed
  before `ApplyActiveActions` injects the replica's own signature share into the input
  buffer: this is why `m_active_actions` is a variable and not a state function. A receive
  action keeps the time at which it was built, as `ReceivePrePrepare` does.
* `clock` is the last period whose request the replica's clock admits, the tolerance
  included; the primary proposes up to `ClockLag` periods later. `ReceivePrePrepare` refuses a
  PRE_PREPARE for a later period (`TooEarly`); for h+1 it is then gone, which `too_early`
  records. Its other refusals - an invalid block, an unknown request - do not concern the
  block of a correct primary on the replica's own chain.
* The engine is cut down to a backup in one view. The other two replicas of the quorum are
  the environment, which sends what `FbftEngine` lets it send: the next height is proposed
  when the chain has the previous block, COMMITs come when this replica has prepared, the
  block when it has committed. The fourth replica is down. The request of a block exists
  when the block comes (the horizon is five periods).

In `RepoStatus`:

* A step of the tool is a command or a write of a file; `pc` names the next one. A text is
  a sequence of parts, a checksum an injective function of the concatenated texts, as the
  tool feeds the files to SHA-1 without separators. White space around a hash, which the
  tool strips, is left out.
* A command returns, raises, or (a timeout, a lock of the repository) fails while the
  system is disturbed. A tool that raises exits with 1, and the build step then stops.
* Disturbances: `Kill` at any moment, with an empty or complete file when a write was
  going on; `Develop`, the developer changes commit or working tree at any moment;
  `Tamper`, between two executions a status file is overwritten or removed;
  `RemoveLibraries`. They end with `CalmDown`, for the liveness property.
* `recorded`, `raced` and `owed` are observers. No guard of the tool reads them.

In `JsonMinify` a character is one of seven kinds; a position is Python's index. The loop
over `re.finditer` is a fold over the starts of the matches.

### Abstractions

* Time is counted in block periods; the digest of a request is its timestamp. In `FbftEngine`
  timeouts and request times may come at any moment, so there is no clock; `ReplicaLoop` has
  one for the refusal of early proposals.
* A block is height, time, view of its generation and a tag; it is its own hash. Tags
  stand for the freedom of `GenerateBlock` to produce different blocks for one slot.
* Replicas follow the code. Byzantine replicas are not modelled, so signatures and
  block validation always succeed; silent replicas are (`Running`).
* ROAST in `FbftEngine`: session table, nonces and curve arithmetic are replaced by
  their outcome - a session for a block is final when F+1 replicas sent a share for
  it. Shares survive a view change, as the sessions do in the code.
* `FindByV_N_Req` takes the first matching PRE_PREPARE of a list: any one of the set here.

## 3. Properties

Definitions and comments are in `FbftSafety`.

| Property | Says |
|---|---|
| `TypeOK` | each table holds its kind of value, a checkpoint always exists, a replica is in ROAST for at most one slot |
| `LedgerSpec` | refinement: the submitted blocks are a chain that only grows, at the next height and for its scheduled period, so never two blocks at one height |
| `SlotAgreement` | one proposal per view and height in all logs, however it got there |
| `ViewChangeKeepsPrepared` | a VIEW_CHANGE names every slot above the checkpoint that its sender committed before |
| `NewViewHasQuorum` | a NEW_VIEW rests on VIEW_CHANGEs for its view of 2F+1 replicas |
| `NewViewKeepsExecuted` | a block submitted in an earlier view is proposed again, the very block |
| `ExecutedByQuorum` | a submitted block had COMMITs of 2F+1 different replicas for its height, all in one view, in which this block was proposed |
| `ChainOnSchedule` | no gap, and height n belongs to period n |
| `StateOnChain` | what a replica reports is on the chain, and it runs at most one block ahead of its checkpoint |
| `RoastInCurrentView` | ROAST is on only for the slot being decided in the replica's view |
| `ActiveViewJustified` | a view in use was opened by a NEW_VIEW or is proved by a quorum of COMMITs |
| `NoAbort` | no process ends by the exception of a null Chi entry or of a PRE_PREPARE that is not found (`FinalizeBlock` and `SubmitBlock` throw, too: `Roast`, section 8) |
| `NeverBack` | action property: no step lowers a replica's view, checkpoint or last execution |

`ChainOnSchedule`, `StateOnChain` and `NeverBack` are checked with restarts.

Of signing, in `RoastSafety`:

| Property | Says |
|---|---|
| `TypeOK` | the tables hold their kinds of values, a session nothing but shares and the false of COMMITs, and no signer is in a session that is not stored |
| `FinalSessionSound` | a final session has the share of each of its signers, made for its pre-signature with the committed nonce |
| `SessionsBounded` | at most n - t + 1 sessions per block |
| `NonceUsedOnce` | no wallet makes two shares with one nonce |
| `SignedUnlessSilent` | liveness: signed and executed when at most F signers are silent |
| `AskedSigns` | liveness: a signer that is asked signs, or the block is executed without it |

Of the event loop, in `ReplicaLoop`:

| Property | Says |
|---|---|
| `EarlyKept` | a delivered message for a height that is still to come is in the log or in one of the buffers, unless it is a PRE_PREPARE that the clock refused |
| `CaughtUp` | liveness: the replica takes part in every block and follows the chain to its end, unless the clock made it lose a PRE_PREPARE |
| `BufferDrains` | liveness: the input buffer becomes empty again and again |

Of the rebuild decision, in `RepoStatus`:

| Property | Says |
|---|---|
| `UnchangedIsRecorded` | the tool answers "has not changed" only for what the last complete update recorded |
| `NoNeedMeansFresh` | "No need to build" means libraries built from the compared state, if the last build that was due completed undisturbed |
| `Settles` | liveness: after the last disturbance the tool comes to answer 0, for ever |

`JsonMinify!MinifyCorrect` is an assumption that TLC evaluates before the run `repo_status`:
for every text up to the bound that is JSON with comments, `json_minify` returns the text
without comments and outer white space, or with blanks in their place when `strip_space` is
off. The one exception is spelt out in `OddSlashesBeforeEnd`.

## 4. Runs

Every passing run explores its whole bounded state space.

| Run | Cluster and bounds | Checks |
|---|---|---|
| `view_change` | 3 of 4 up, 2 requests, views 0 and 1 | `SlotAgreement`, `ViewChangeKeepsPrepared`, `NewViewHasQuorum`, `NewViewKeepsExecuted`, `NoAbort`, `RoastInCurrentView`, `LedgerSpec` |
| `recover_view` | 4 of 4 up, the last one view behind, 1 request | `TypeOK`, `ExecutedByQuorum`, `ActiveViewJustified`, `StateOnChain` |
| `tiny` | 2 of 2 up, the second one block and one view behind, 2 requests, views 0 and 1, 2 restarts, stops inside `set_view` | `ChainOnSchedule`, `StateOnChain`, `NeverBack` |
| `second_view_change` | as `view_change`, 1 request, views 0 to 2 | `ViewChangeKeepsPrepared`: violated |
| `old_view_changes` | the same | `NewViewHasQuorum`: violated |
| `lagging_replica` | 4 of 4 up, the last one block behind | `NoAbort`: violated |
| `roast_sessions` | 4 of 4 up, one view, one signer may stop, fairness | `FinalSessionSound`, `SessionsBounded`, `NonceUsedOnce`, `SignedUnlessSilent` |
| `roast_redelivery` | 1 of 1, coordinator and signer, views 0 to 2, 4 repeated deliveries | `TypeOK`, `SessionsBounded` |
| `roast_late_request` | 4 of 4 up, views 0 and 1 | `FinalSessionSound`: violated |
| `roast_unanswered` | 4 of 4 up, one view, fairness | `AskedSigns`: violated |
| `event_loop` | 3 blocks, 2 actions per event, clocks that differ by up to a period, fairness | `EarlyKept`, `CaughtUp`, `BufferDrains` |
| `repo_status` | git, 2 commits, 2 working trees, fairness; texts of up to 5 characters and a newline | `UnchangedIsRecorded`, `NoNeedMeansFresh`, `Settles`; `MinifyCorrect` |

Bounds and why they suffice for the question of the run:

* `ClusterSize = 4` is the smallest cluster with F = 1. With exactly a quorum of three
  up, each of the three is needed for every quorum, and the fourth is the silent
  replica that the protocol tolerates. `tiny` has F = 0, where the engine's quorum is
  one message: the smallest setting in which two replicas disagree on their height.
* `MaxRequest` 2 is needed for a second block on top of a first one (garbage
  collection, `seqno` after RECEIVE_BLOCK, Min_s below Max_s); a window holds one slot
  (`RequestBufferLen`), so a third block repeats the second.
* `MaxView` 1 gives one view change at any moment of either block; 2 gives a second
  one on top of an unfinished or finished first.
* `Tags` has one value: two blocks for one height that are generated in different views
  already differ by their view, and within a view a primary proposes a number once
  (proved for any `Tags`, section 7).
* `MaxNumGeneratedRequests` is 5 in the code; it is 1 or 2 here, at least one request
  beyond the next block where that matters.

* Signing with four replicas has sessions of two signers, the smallest with more than one
  signer, and up to three sessions. With four replicas two views are beyond TLC, except to
  find the violation. `roast_redelivery` combines view changes and repeated deliveries, which
  only fits one replica. In it ROAST_INIT of the second view appends `NoShare` to the open session of the first: the tables stay
  consistent, but such a session cannot be aggregated, so `FinalSessionSound` is not checked
  there. For `NonceUsedOnce` and `SessionsBounded` the theorems of section 7 cover all
  combinations in all clusters.
* In `roast_sessions` one signer may stop; for the coordinator a signer that ignored its
  request is as silent as one that stopped after its COMMIT.

* In `tiny` two restarts hit both replicas, or one replica twice, at any moment of either
  block and of the view change.
* `event_loop`: three blocks let a message wait for a block while another one waits behind
  it, at a distance of two heights; the limit of two actions (11 in the code) is reached at
  every event, so that actions are left over. `EarlyKept` is proved for all values.
  `ClockLag` is 1; every behaviour with clocks that agree is among those of the run, too,
  since the environment need not use the lag, and fairness is the same once the clock has
  come to the last period. So `CaughtUp` with the theorem
  `NoneTooEarlyHolds` says that with agreeing clocks the replica follows to the end.
* `repo_status`: two commits and two working trees give four states of the repository, one
  to be recorded, one to be built, one to come in between. Texts of five characters hold a
  string with an escaped quote, an empty block comment, and each comment sign inside each
  other context.

`CHECK_DEADLOCK FALSE` for `FbftEngine` and `Roast`: the schedule is bounded by `MaxRequest` and a
replica that may not time out any more (`MaxView`) can be left with nothing to do; a
block that is signed and received leaves nothing to do.
No symmetry: replica identities matter (`primary`, order of senders in `correct_chi`).

Every checked property comes with a mutant, a small plausible bug in one definition
that must break it (the definitions marked "Fault variant").

## 5. Findings

Disagreements between the code and what its own comments say of it.

1. `second_view_change`. The engine documents P of a VIEW_CHANGE as the set for each
   request that prepared above the checkpoint. `update_view_change_Pi` retracts the
   old Pi first and recomputes it from the log, from which the previous view change
   removed the older views. The second of two view changes in a row reports nothing.
2. `old_view_changes`. `correct_nu_element` compares views only as one branch of an
   `or` with `true`; so Nu is the whole log and its messages are counted, not its
   senders. A NEW_VIEW for view 1 can rest on a VIEW_CHANGE for view 1 and one for
   view 2 of the same replica.
3. `lagging_replica`. The null case of `correct_chi`, commented "this should never
   happen", is reached with honest replicas when one is a block behind; the primary's
   process ends when it builds the NEW_VIEW.
4. `roast_late_request`. A PRE_SIGNATURE names neither view nor height. A signer that has
   committed in the next view answers a request of the former coordinator with the nonce
   it made for the new one; the former coordinator counts the share, declares the session
   final ("Here we can execute!") and ends by the exception of `FinalizeBlock`. The delay
   of one message is enough. The signer's nonce is spent, too.
5. `roast_unanswered`. "Always send the signature share": a request that overtakes the
   COMMITs is ignored and never repeated. With three such signers nothing is signed until
   the timeout of the view.

Observations without a run of their own:

* SEND_COMMIT of the coordinator only logs its own COMMIT. When its ROAST_INIT comes first
  its own pre-signature share is never used, so that signing survives F silent signers and
  not n - t.
* `committed/4` counts rows of a table that is keyed on the data of the COMMIT. A replica that
  restarts before the block arrives commits the slot once more with a new pre-signature
  share and counts as two. With 3 of 4 replicas up, one view, one request and one restart TLC
  finds `ExecutedByQuorum` violated: the block is submitted on the COMMITs of two replicas.
  (A block needs the shares of F+1 signers only, so the signature does not prevent it.)
* A process that stops between the two writes of `set_view` leaves a database without a view
  and cannot start again until it is reset.
* "MarkMalicious(i) and break" in `apply_RECEIVE_SIG_SHARE`: the code does not break. A
  repeated message of a responsive signer counts as a second share of its session.
* The guard "do not have already gathered enough signature shares" of ROAST_INIT never
  applies, since a session is final only while ROAST is active. A coordinator that timed
  out between its last share and EXECUTE keeps the session; when it coordinates again
  before the block arrives, each ROAST_INIT fails on it.

* A restarted replica has forgotten what it proposed, prepared and committed, but not its
  view: a primary that restarts between PRE_PREPARE and the block may propose a second
  block for the same slot and view, and a backup may prepare both. A replica that restarts
  during a view change considers the view it was changing to as active, without a NEW_VIEW.
  So `SlotAgreement` and `ActiveViewJustified` are not claimed with restarts (the engine
  claims neither). With `fbft_db_reset` the view starts at 0 again.
* The configuration accepts any number of replicas, and F is floor((n-1)/3). With 5
  replicas, no fault and one view change, TLC finds two blocks at one height: 0, 2 and 3
  commit and submit a block and 3 receives it; 1, 3 and 4 time out, later 2; 3 need not report
  what is below its checkpoint, so the NEW_VIEW of 1, which rests on 1, 3 and 4, is empty,
  and 1, 2 and 4, which have not received the block, commit another one. In a cluster of 3F+1 replicas this cannot
  happen (`LedgerInTwoViews`, section 7).
* A replica that the quorum does not need can be several blocks behind; messages for h+3 and
  above are then dropped. It follows by the blocks.
* A PRE_PREPARE that comes too early for the receiver's clock is for h+1, so it is dropped
  and not kept. A replica that the quorum needs then takes no part in that block: its
  view ends by a timeout. `EarlyKept` and `CaughtUp` except this case.
* `check-repo-src-changed.py` stores the new status before the build. After an interrupted
  rebuild with the old libraries in place the next build step finds "No need to build".
  `NoNeedMeansFresh` excludes that case with `owed`.
* The two commands are not one snapshot of the repository. `git status -vv` does not show
  the contents of untracked files and `hg status` shows no contents at all, so such changes
  are not noticed.
* With hg the recorded changes may be empty. If that empty `diff.txt` is removed, the
  checksum stays the same: the tool then fails in reading it, in each execution. `Settles`
  is checked for git, whose status is never empty.
* `json_minify` does not see the end of a block comment that has an odd number of slashes
  before it, as in `/* a /*/`.

## 6. Fairness and liveness

`FbftEngine!Spec` states no fairness and no liveness property is claimed for it yet. With
lossy delivery and no resending the code guarantees progress only under assumptions on the
network and on timers; stating them is part of the plan.

`Roast!FairSpec` adds weak fairness of the replicas' `Step`: a replica that is up keeps
taking messages and active actions (`ReplicaState` rebuilds the list after each action and
`Replica2` applies from it), and the TCP connections deliver what is sent while both ends
are up. The steps of all replicas are under one fairness condition; each of them
uses up a message or adds to a table, so none can be overtaken for ever. Timeouts, view
changes and stopping are not in `Step`: they may or may not happen.
`SignedUnlessSilent` is stated for one view, where it does not rely on timeouts.

`ReplicaLoop!FairSpec`: the loop of `ApplyActiveActions` runs to its end (weak fairness of
`Loop`), time goes on (`Tick`), `ZComm::run_forever` emits `network_timeout_expired` whenever nothing arrives for
five milliseconds (weak fairness of `CheckTimedActions`), the others extend the chain, and
what is sent is delivered. Delivery is strongly fair, because an event can be taken only
between two runs of the loop, so that it is enabled again and again but not continuously: a
message waits in its socket meanwhile, and the poller serves all ready sockets. Without
`CheckTimedActions` `BufferDrains` would not hold.

`RepoStatus!Spec`: weak fairness of `Script`, since CMake runs the build step in each build
(`BUILD_ALWAYS`) and a build is run again and again. Nothing forces a disturbance, nor its
end: `Settles` speaks of the behaviours in which they end.

## 7. Proofs

TLAPS checks all theorems from nothing; the constants are arbitrary, under the
assumptions named in `FbftMessages`, `FbftEngine`, `Roast`, `ReplicaLoop` and `RepoStatus` (a
positive cluster size, start heights and views that are naturals, tags different from the 0
of the initial chain; a natural number of blocks and
of periods between the clocks, and a positive limit of actions). A theorem
that needs more says so in its statement, as a named hypothesis on the constants:

| Hypothesis | Says | Why |
|---|---|---|
| `SameStart` | all replicas find the same view in their database | a replica that starts in a later view considers it active although no NEW_VIEW opened it |
| `QuorumsIntersect` | the cluster has not 2, 3 or 6 replicas | for these sizes 2(2F+1) <= n; with 2 replicas TLC finds `RoastInCurrentView` violated |
| `OneViewChange` | no replica times out twice | the run `second_view_change` |
| `OneView` | `SameStart`, no timeout, no node is ahead of the primary's | finding 1 and 2 are about what comes after |
| `FirstChange` | `SameStart`, `OneViewChange`, all nodes start with the same chain | the findings 1 to 3 are about later view changes and about a node that starts behind |
| `ClusterSize = 3 * F + 1` | the usual sizes 1, 4, 7, ... | three quorums have a replica in common; with 5 replicas TLC finds two blocks at one height after one view change (section 5) |
| `NoSpare` | no more than 2F+1 replicas run | with 4 of 4 up, the primary of view 0 that stays behind opens view 0 again on the VIEW_CHANGEs of the others for view 1, so `NewViewHasQuorum` fails; and a replica that falls one block behind leads to the run `lagging_replica`, where `NoAbort` fails |
| `FirstViewOnce` | signing in view 0, no delivery is repeated | the run `roast_late_request`; with one repeated delivery TLC finds `FinalSessionSound` violated, too |

### The agreement

The inductive invariants build on each other; each was checked with TLC before it was proved.
The proofs have one lemma per action or one per conjunct, with one case per action that
disturbs it.

* `FbftEngineProofs!TypeCorrect`: `Spec => []TypeOK`. `TypeOK` is inductive; the point that
  needs an argument is that `get_h` is defined: a non-empty set of naturals has a least
  element (`MinIsLeast`, from the library's well-foundedness theorem), and RECEIVE_BLOCK
  keeps the checkpoint it adds.
* `FbftSlotProofs!SlotAgreementHolds`: `SameStart /\ Spec => []SlotAgreement`.
  `SlotAgreement` speaks of logs only and says nothing of what its primary may still
  propose, so it is not inductive. `SlotInv` adds the argument: in one view only the
  primary proposes; it comes into a later view by its own timeout, inactive
  (`ViewsReached`: it cannot come by RECOVER_VIEW, because the COMMITs that justify
  that step exist only in views their primary has reached); while inactive it sends at
  most one NEW_VIEW (`NewViewOnce`) and no PRE_PREPARE (`ProposalsOfPrimary`); when it
  processes its NEW_VIEW its `seqno` passes all of Chi (`OpenedByPrimary`), so that
  later PRE_PREPAREs are above it (`ProposedAboveNewView`) and use each number once
  (`ProposedOnce`); and all that is in a log was proposed in one of the two ways
  (`LoggedFromPrimary`).
* `FbftChainProofs`, for `Spec` and for `RestartSpec`, stops inside `set_view` included: `ChainOnScheduleHolds`,
  `StateOnChainHolds`, `NeverBackHolds`. None of the three is inductive: that a block fits
  the chain depends on the proposals, those on the requests of the proposer. `ChainInv`
  adds: the logs hold messages of the replica's own view, COMMITs not above the next height
  (`LogsOfView`), and only what was sent (`LogsSent`); every proposal, wherever it is stored
  or carried - log, Q, Chi - is for the request and the block of its own height
  (`ProposalsOnSchedule`), because the requests of a replica follow its checkpoint without a
  gap (`RequestsFollow`) and the primary takes the first one it has not proposed; and all
  checkpoints of a replica are for one height (`OneCheckpoint`). A restart empties the logs
  and takes its state from a block of the chain, so it keeps all of this. `NeverBack` then
  follows step by step: the checkpoint rises with RECEIVE_BLOCK since the request of the
  block is still in the log, hence above it.
* `FbftQuorumProofs!ExecutedByQuorumHolds` and `RoastInCurrentViewHolds` (`QuorumsIntersect`),
  both without restarts, after which a replica counts twice (section 5). The engine counts
  rows; the properties speak of different senders (`Committers`). `OneCommit` says that
  the two are the same: a replica that sent a COMMIT has it in its own log as long as it could
  send another one (`OwnCommitKept`). `QuorumInv` adds: Pi and Qi hold older views only, so
  that what is executed or signed is in the log (`CertificatesOld`); COMMITs are sent in
  views and at heights the sender does not come back behind (`CommitsInOrder`); and a replica
  in ROAST has a quorum of COMMITs for its slot and the proposal in its log (`RoastBacked`).
  A quorum of a later view at its checkpoint, which RECOVER_VIEW asks for, would share a
  replica with that quorum, which would have gone back to a lower height.
  `AbortsOnlyInNewViewHolds` follows from `RoastBacked`: the lookup in
  ROAST_RECEIVE_PRE_SIGNATURE always finds a proposal. It is about the exceptions that
  `FbftEngine` has; those of `FinalizeBlock` and `SubmitBlock` are not among them.
* `FbftQuorumProofs!ActiveViewJustifiedHolds` (no restarts: a restarted replica considers its
  view active), `LeavingKeepsPreparedHolds` and `ViewChangeKeepsPreparedHolds`
  (`OneViewChange`). `LeavingInv` adds that a replica stays prepared for what it committed
  while it is in that view and below that checkpoint (`PreparedKept`), which is what its
  timeout reports (`LeavingKeepsPrepared`, for any number of views). The property of the run
  is the same for *all* earlier views; it follows when there is only one.
* `FbftLedgerProofs!ForkNeedsTwoViewsHolds` (`SameStart`): two blocks at one height were
  committed by two quorums in two views (`BlocksDecided`). `LedgerInOneView` (`OneView`, with
  restarts): `Spec \/ RestartSpec => LedgerSpec`, the refinement of `Ledger` step by step.
  `LedgerInv`: all stay in the view, and the primary, the only one that submits, has executed
  the whole chain; so its next block is the next of the ledger, also when it has restarted
  and forgotten that it proposed another one. It does not use that COMMITs are of different
  replicas, so it holds with restarts.
* `FbftLedgerProofs`, the first view change (`FirstChange`, without restarts). `ChangeInv`,
  which TLC checked on all states of the run `view_change` and by simulation with all four
  replicas up, says: nobody is beyond the second view (`ViewsOfChange`); each running
  replica sends one VIEW_CHANGE, at a height of the chain (`ChangesOnce`), whose P is for the
  next height and has its block in the Q of the same message (`ChangesCarry`); what a replica
  commits later is above the height it reported (`CommitsAfterChange`); and a proposal of the
  second view follows a NEW_VIEW (`ProposalsOpened`) that was computed by `correct_chi` from
  VIEW_CHANGEs that were sent (`NewViewsJustified`).
  * `NewViewKeepsExecutedHolds` (`QuorumsIntersect`): the quorum that committed a block has a
    replica in Nu, which reports the block; the block of its entry in Chi is the same one
    because the first view proposes one block at a height.
  * `LedgerInTwoViews` (`ClusterSize = 3 * F + 1`): a block that the second view proposes
    anew is above all of Chi. Had the first view decided the same height, then a replica
    would be in both quorums of COMMITs and in Nu, it would have reported the height, and it
    would be in Chi. So the two views decide one block at a height (`NoForkInTwoViews`), and
    `Spec => LedgerSpec` follows step by step.
  * `NewViewHasQuorumHolds` and `NoAbortHolds` (`NoSpare`, the second with
    `QuorumsIntersect`): a NEW_VIEW needs the VIEW_CHANGE of every running replica, also of
    its own sender, which is then in the second view (`AllHaveChanged`). A number of the
    range of Chi below the last one is on the chain; all running replicas have committed it,
    in the first view (`CommitsAfterChange`), and the one with the lowest checkpoint says so
    (`EveryNumberSpokenFor`).

### Signing

* `RoastProofs!NonceSafe`: `Spec => []NonceUsedOnce`. `NonceInv` adds that the wallet's
  nonce is newer than every nonce its replica has signed with (`SignedBefore`): SEND_COMMIT
  only replaces it, and a reply signs and replaces it in one step. The theorem covers the
  clusters and the combinations of views, crashes and repeated deliveries that the runs
  do not reach.
* `RoastTypeCorrect` and `SessionsBoundedHolds`, for all views and repeated deliveries.
  `SessionsBounded` alone is not inductive: why should no session follow the last one?
  `Waiting` says that each session waits for as many signers as it lacks shares, and a
  signer is awaited by one session only; with n - t + 1 unfinished sessions fewer than t
  responsive signers would be left for another one. `InitTables` applies a whole log of COMMITs in one step: that it keeps
  `TablesInv` is proved by induction over the number of COMMITs, as the absence of a least
  counterexample (well-foundedness of the naturals).
* `FinalSessionSoundHolds` (`FirstViewOnce`). `SigningInv` follows each signer
  (`Tokens`): a request on its way to it, its answer on the way back, its place among the
  responsive signers, or silence, never two of these; the request and the answer are for the
  session it is counted in, with the nonce of its last pre-signature share.

### Event loop and rebuild decision

* `ReplicaLoopProofs!EarlyKeptHolds`: `Spec => []EarlyKept`. `EarlyKept` alone is not
  inductive: a message for h+3 would be dropped. `LoopInv` adds why none comes: the chain is
  at most one block ahead of the replica (`ChainClose`), because no block is made without
  its COMMIT; what it has sent and what it may send is for heights up to h+1 (`SentClose`,
  `ActiveClose`), because it prepares and commits from a log that accepts h+1 only; and so
  what is delivered to it is for heights up to h+2 (`DeliveredClose`). It holds for every
  `ClockLag`; what the clock refuses is excepted.
* `ReplicaLoopProofs!NoneTooEarlyHolds`: with `ClockLag = 0` nothing is refused by the clock. An
  action keeps the time at which it was built, so `ClockInv` has to say of every buffered
  message and of every active action that its time is late enough (`BufferedByClock`,
  `ActiveByClock`).
* `RepoStatusProofs!UnchangedIsRecordedHolds` and `NoNeedMeansFreshHolds`, for every
  repository and with all disturbances. The tool compares three files one after the other,
  and updates them one after the other. `AnswerInv` says, for each value of `pc`, what the
  comparisons so far have shown (`Comparing`) and what is stored (`Updating`), and that a
  stored checksum is the one of the last record (`HashOfRecord`: the checksum is injective
  on the concatenated texts, and the commit is one word, so that they can be told apart,
  `SplitText`). `FreshInv` adds what the build step owes.

### Only model-checked

* Liveness and ENABLED are out of the prover's reach: `SignedUnlessSilent`, `AskedSigns`,
  `CaughtUp`, `BufferDrains`, `Settles`.
* `JsonMinify` uses RECURSIVE operators, and what it computes for every text would need an
  induction over data: `MinifyCorrect` is evaluated up to its bound.

Every safety property of the agreement that a run checks is also a theorem, but those of the
first view change only for the first one: after a second timeout, with a replica to spare or
with a node that starts behind, the findings 1 to 3 show what is lost. With restarts the
theorems are `ChainOnScheduleHolds`, `StateOnChainHolds`, `NeverBackHolds` and
`LedgerInOneView`. Those about quorums are not stated for restarts, since the engine then
counts a replica twice, nor those about view changes: the VIEW_CHANGEs of a restarted replica
carry nothing of what it had prepared.

## 8. Plan

Done: the modules of section 2. Next, in this order:

1. `RequestClock`: `Replica2::GenerateRequests` and the timers of SEND_PRE_PREPARE and of
   the view change (2^view), with time as a variable for several replicas.
2. A node that refuses a block (`SubmitBlock` throws), with `FbftRestart`.
3. A coarser consensus module, in which a slot is agreed on in one step, to follow the
   first two findings over several views with larger clusters.

## 9. Not modelled

Byzantine replicas; message signatures and curve arithmetic (`src/wallet`); JSON and block
encoding (`src/fbft/messages`, `src/blockchain`); sockets (`src/transport`); the Python
benchmark framework and the deployment scripts. Of the other Python tools,
`scripts/check-code-consistency.py` looks for a copyright notice in each file and
`scripts/allow-null-return-in-json-rpc.py` relaxes a condition in generated code: text
processing in one pass, without state or interleaving. Of `check-repo-src-changed.py` the
parsing of the command line and the checks of its paths are left out.
