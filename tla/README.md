# TLA+ models and proofs for the node

The repository is a Litecoin Core 0.21 node (with the MWEB extension blocks of
libmw) merged with an older Neutron tree.  This directory models the parts of
the node whose correctness depends on sequences of steps that tests hardly
reach, checks them with TLC on small instances, and proves the most important
results with TLAPS for every value of the constants.

Several files of the tree hold unresolved merge conflicts (`net.cpp`,
`init.cpp`, `key.cpp`, `serialize.h` and others), and several are left over from
the older tree and not part of the build (`main.cpp`, `wallet.cpp`, `script.cpp`
and others directly under `src/src`).  The modules are written from files that
are whole: `coins.*`, `txdb.cpp`, `validation.*`, `chain.*`, `txrequest.*`,
`checkqueue.h`, `scheduler.*`, `validationinterface.*`, and `node`, `mmr` and
`file` of `libmw`.  Of `init.cpp`, the order of steps in `Shutdown` is used where
it is outside the conflicts.

## The parts of the system

| Part | Source (under `src/src`) | Module |
|---|---|---|
| Coins view caches | `coins.cpp`, `coins.h` | `CoinsViewCache`, `UTXOStack` |
| Coins database, flush and crash recovery | `txdb.cpp`, `validation.cpp` | `CoinsDB` |
| Transaction requests | `txrequest.cpp` | `TxRequestTracker`, `TxRequests` |
| Script check queue | `checkqueue.h`, `validation.cpp` | `CheckQueue` |
| Scheduler | `scheduler.cpp` | `Scheduler` |
| Its single-threaded client | `scheduler.cpp` | `SchedulerClient`, `SerialExecutor` |
| Validation interface | `validationinterface.cpp` | `MainSignals` |
| Chain activation, block index | `validation.cpp`, `chain.cpp` | `ChainState` |
| MWEB MMRs, leaf sets and views | `libmw/src/mmr`, `libmw/src/node` | `MMR`, `MWEBViews` |
| Their files, flush and crash recovery | `libmw/src/file`, `validation.cpp` | `MWEBNode` |
| Mempool, deployments, cuckoo cache, address manager, indexes, block download, mining | | not modelled |
| Connections, start-up | `net.cpp`, `init.cpp` | conflict markers, no single program |
| Wallet, RPC, GUI, script interpreter, cryptography, libraries | | not modelled |

How they interact: headers and blocks enter the block index, and the best chain
is activated (`ChainState`).  A block that is connected changes the coins through
a stack of caches (`CoinsViewCache`, and `MWEBViews` for its extension block),
has its scripts checked by the check queue (`CheckQueue`), and is announced to subscribers (`MainSignals`) through a queue
(`SchedulerClient`) that the scheduler's threads serve (`Scheduler`).  From time
to time the caches are flushed to the database (`CoinsDB`, `MWEBNode`).
Transactions that peers announce are requested through `TxRequestTracker`.

`PROJECT.json` lists every part, also those not modelled with the reason, every
definition with the lines it stands for, the runs, the hazards and the theorems.

## Modules, their state and their actions

**`CoinsViewCache`**.  Level 0 is the database, level 1 `CoinsTip()`, higher
levels the scoped views of `ConnectTip`, `DisconnectTip`, `VerifyDB` and the
mempool.  `cache[i][o]` is an entry with its coin and the flags DIRTY and FRESH,
which decide what a flush writes or forgets.  There is an action per operation
(reads that fill caches, `AddCoin` as its callers use it, `SpendCoin`,
`Uncache`, `SetBestBlock`, scopes, `Flush`).  The recursion `base->GetCoin` is
written with the level that ends it.  `UTXOStack` is what callers rely on:
nested versions of one map.

**`CoinsDB`**.  `BatchWrite` spreads a flush over atomic LevelDB batches, with
`DB_HEAD_BLOCKS` written before and `DB_BEST_BLOCK` after.  Every batch is a
step and the process may die before any of them.  The next start runs
`ReplayBlocks`, which rolls back and forward block by block and flushes in
batches again.  A block is its net effect on the UTXO set.  With `Pruning`,
`FlushStateToDisk` may remove block files; `fHavePruned` remembers that it did.

**`MMR`, `MWEBViews`, `MWEBNode`**.  `MMR` has the positions, hashes and roots of
Merkle mountain ranges as operators.  `MWEBViews` has `mw::CoinsViewCache` as
operators on records: what a cache over a base shows, what applying and undoing a
block makes of it, what a flush writes.  `MWEBNode` composes them with the node:
`ConnectTip` and `DisconnectTip` through a scoped view, a flush that writes the
coins in batches, then the leaf set file, the hash file and the batch that names
them (one step each, the process may die at any of them and leave a torn file),
the removal of old files, the start and `ReplayBlocks`.  The transparent half is
the block that it is at.  Two history variables bound what the properties can
promise: `replayed` (a flush that was cut short has been replayed) and
`overwritten` (a flush put hashes in the place of others).

**`ChainState`**.  The block index with its flags, `setBlockIndexCandidates`,
`m_blocks_unlinked`, `m_failed_blocks` and the active chain.  `job` is the call
of `ActivateBestChain` or `InvalidateBlock` that holds `m_cs_chainstate`; wherever
the code releases `cs_main` between steps, headers, blocks, pruning and RPC calls
come in.  Files are pruned by `FlushStateToDisk` there, and by the call of it in
`ConnectTip`, which holds `cs_main` and comes before the tip is set.  `verdict`
gives the blocks that exist and what their checks say.  The
history variable `disturbed` holds once `reconsiderblock` has left out blocks it
should put back (`Forgotten`), `InvalidateBlock` could not read a block,
`preciousblock` of the tip has moved the tip back in the order (`LosesRank`), or
a block did not connect in a reorganisation that had pruned blocks of the better
chain it came from (`LosesWayBack`).

**`TxRequestTracker`**.  `m_index[h][p]` is the announcement of transaction h by
peer p, with its state.  One action per public operation; `GetRequestable` is
its call, one step per turn of the loops in `SetTimePoint`, and its return.
`TxRequests` is the specification in the header of `txrequest.h`: announcements
without the derived states, and the rule for whom to ask.

**`CheckQueue`**.  A step is one critical section of the mutex in `Loop`, from
the clean-up after a batch to the next batch, wait or return.  Masters add
checks and `Wait`; workers may wake up spuriously and may be interrupted, also
after they were notified.

**`Scheduler`**.  A step is what a service thread does under `newTaskMutex`.
Some of `Threads` are started, the others are absent throughout, so that a
single run covers one thread and several.  Notifications come after the unlock;
`wait_until` decides whether its time has come once it has the mutex back.
`Tick` is the clock.

**`SchedulerClient`**.  Each critical section of
`SingleThreadedSchedulerClient` is an action, as is the call of `schedule` that
follows one.  Of the scheduler, the number of scheduled calls is kept.
`EmptyQueue` runs when all other threads have been joined, as in `Shutdown`.
Afterwards the main thread may still add callbacks, as `Shutdown` does when it
writes the chain state (`ForceFlushStateToDisk` adds `ChainStateFlushed`).  They
are scheduled on a scheduler that has stopped, and are dropped, as the comment
there says; `late` has them.
`SerialExecutor` is what the class promises.

**`MainSignals`**.  `m_list` grows only at its end, so an entry is its number of
creation, and the list a set of such numbers.  `Iterate` is one step per entry,
since it unlocks the mutex around each call.

A module with a name that starts with `MC` gives a specification its small
instance.  Operators called "variant" in a comment are plausible mistakes in the
code; putting one in the place of its original has to break a property.

## What the runs check

| Run | Instance | What it shows |
|---|---|---|
| `coins` | 3 caches, 1 outpoint, 2 coins, 2 blocks | flags mean what `coins.h` says; no `logic_error`; memory usage is exact; the caches implement `UTXOStack` |
| `coinsdb` | a fork of small blocks, with pruning | after any crashes the database is the UTXO set of the block it names; until a file is pruned a replay finds its blocks; recovery ends |
| `mweb` | two branches of two blocks, 4 outputs, 3 file numbers | the MWEB half is that of the best block; undo inverts apply to any depth (`VerifyDB`); nothing throws; the database names whole files of one block |
| `mweb_replay` | the same | *violated*: both halves agree after a replay |
| `mweb_hashfile` | the same | *violated*: the MMR has the hashes of its leaves after a reorganisation was flushed |
| `chainstate` | seven trees of 3 to 6 blocks, up to 3 calls | candidates and index agree with the blocks that are there; the chain is valid; a chosen chain stays usable; the tip is best; activation ends |
| `chainstate_reconsider` | the same | *violated*: the tip is best also after `reconsiderblock` |
| `txrequest` | 3 peers, 1 transaction, 3 times | sanity conditions; the best is asked; implements `TxRequests`; calls return |
| `checkqueue` | 2 masters, 2 workers, 4 checks | results are exact and nothing is left over; `Wait` returns |
| `scheduler` | 1 or 2 threads, 2 tasks, times to 1 | tasks run; all threads return after a stop; a single thread runs nothing early |
| `scheduler_client` | 2 threads, 2 clients, 3 callbacks | implements `SerialExecutor`; nothing is stranded or lost that was added before `EmptyQueue` returns, and nothing is executed after it |
| `main_signals` | 2 threads, 2 subscribers, 4 entries | reference counts are exact; nobody is skipped |

**Bounds.** Three caches are the deepest stack with a cache that has caches on
both sides. One outpoint is enough there: the flags of an entry depend on no
other entry, and the theorems hold for any number. The block tree of `MCCoinsDB`
has a fork, so a flush can be interrupted between branches, and blocks that
spend what their parents create. Three peers give a candidate before and one
after a request; transactions share nothing but the clock and the peers, and the
theorems hold for any number. Two workers and two masters make batches overlap
and make the queue be reused; four checks are the fewest with which a thread takes
more than one at a time, and a batch of at most two leaves checks in the queue.
Times of the scheduler reach below zero because `MockForward` moves tasks into
the past. Three callbacks on two threads allow two scheduled `ProcessQueue`
calls and a callback that arrives during the reset of the flag. Four entries let
both subscribers leave and come back during an iteration.
The branches of `MCMWEB` differ from the first leaf on, so that a reorganisation
replaces hashes, and a byte of the leaf set has two bits, so that a rewind ends
inside a byte; three file numbers let a flush meet the file of an earlier one.
The trees of `MCChainState` each bring about one kind of case.  In `TwoBranches`
a block below a candidate is pruned and received again; `InvalidBranch` has two
calls, for `reconsiderblock` after `invalidateblock`; in `BadBranch` a header
arrives above descendants of a failed block; `Rivals` has three calls, enough to
prefer two blocks of equal work in turn; in `OneBranch` blocks wait for others
through several generations; in `ShortBranch` a block is pruned while it waits;
in `LongWay` a reorganisation to a longer branch prunes the block that it
disconnected before it meets an invalid one.
The calls and the sequence numbers together are bounded by `MaxSteps`.
`MaxTime`, `MaxEntries`, `MaxIndex`, `MaxActions`, `MaxCalls`, `MaxSteps` and the sets of
tasks and callbacks are the only bounds on counters; they appear in guards.

**Deadlock** is not checked for the scheduler (all threads may have returned),
its client (the queue may have been emptied at shutdown), the signals (all
entries may have been used up) and `ChainState` (the calls are used up, or the
node has aborted).

**Fairness.**  Only what the code's scheduling gives: a thread that can take a
step takes it (`CheckQueue`, `Scheduler`, `SchedulerClient`), a pending
notification is delivered and time passes (`Scheduler`), checks, tasks and
callbacks return.  `EmptyQueue` follows a stop, as in `Shutdown`; `AllExecuted` is
about callbacks that are added before it returns.  In `CoinsDB`
the process goes on (`Run`); `Recovers` excepts nodes killed infinitely often
and those that report that they cannot replay.  In `ChainState` the thread that
holds `m_cs_chainstate` goes on, and one that waits to activate gets it
(`WF` on `Activate \/ Invalidate`); `ActivationEnds` excepts blocks that are
reported as mutated, see below.  No fairness is
assumed of callers, crashes or spurious wake-ups.

## Findings

* `mweb_replay`: `RollforwardBlock` applies the transactions of a block and not
  its extension block, so that after a replay the transparent coins are at the
  new tip and the MWEB coins where they were.
* `mweb_hashfile`: `File::Write` opens hash files with `std::ios::app`, for which
  the position that was set is ignored; after a reorganisation whose old branch
  had been flushed, the MMR keeps the old hashes.
* `chainstate_reconsider`: `reconsiderblock` clears the flags of the ancestors of
  a block but does not make them candidates, so that a better chain may stay
  inactive.

Observations that no run checks:

* `FlushStateToDisk` unlinks block files before it flushes the coins; a crash in
  that flush can leave `ReplayBlocks` without blocks it needs.  `CoinsDB` has
  this behaviour (`ReplayFails`), and `ReplaySucceedsUnpruned` and `Recovers` say
  what holds in spite of it.
* `control` is declared before `txsdata` in `ConnectBlock`, so on an early return
  the data goes first, against the comment above it.
* With several service threads a task may run before its time, although
  `scheduler.h` says "at/after time t": `Scheduler` has this behaviour, and
  `NotBeforeItsTimeAlone` is for one thread, which is what the node has.
* `BlockChecked` and `NewPoWValidBlock` are not queued, so that callbacks of one
  subscriber can overlap.  `MainSignals` lets them.
* A block that `ConnectBlock` reports as mutated is not marked and stays a
  candidate, so that `ActivateBestChain` tries it again.
* A pruned block that is received again gives its linked descendants new sequence
  numbers; when one of them is a candidate, the key of an element of an ordered
  set changes.  `AcceptBlock` leaves that case out.
* `CheckBlockIndex` asserts that a block is linked exactly when it and all its
  ancestors were received at some time (`validation.cpp:4958`), and that nothing
  waits in `m_blocks_unlinked` when no ancestor is missing (`:5003`).
  `ChainState` reaches states in which neither holds: a block that waits is pruned
  and its parent arrives later, or a block arrives under a failed parent, is not
  queued, and its child is.  `IndexConsistent` has the conditions under which they
  do hold.
* `ConnectTip` may prune, in the middle of a reorganisation, blocks of the chain
  that was just disconnected, since only the height of the new tip counts.  When a
  later block of the new branch fails and the tip is worse than before, the node
  cannot go back to the chain it came from until the blocks are received again.  It
  can be that no candidate is left, not even the tip, which `CheckBlockIndex`
  asserts to be one (`validation.cpp:4978`).  `LosesWayBack` marks this case.
* `preciousblock` of the tip can give it a larger sequence number than it had, once
  the tip's work has grown and the counter starts again.  A block of equal work
  that was dropped from the candidates may then rank above the tip.
* A flush of an MWEB view with a null header writes nothing, also when the header
  became null by undoing the first extension block.

## What is proved

All proofs hold for arbitrary (where counted, finite) sets of threads, peers,
outpoints, checks and callbacks, and use only the named assumptions of the
modules, which TLC evaluates in the runs.

* `CoinsViewCacheProofs`: the inductive invariant says of each entry what its
  flags claim about the view of the level *below* (`EntryOK`), not about the
  parent's own entry: the parent may hold nothing and fall through.  The flag
  properties and the absence of `logic_error` follow.  `Refinement`: the caches
  implement `UTXOStack`, for any depth.  `UsageSafe`: `cachedCoinsUsage` is the
  sum over the entries, for any finite set of outpoints.  Every operation but a
  flush changes one entry, hence one term (`TotalChange`); a flush adds
  up what it merges entry by entry (`MergedUsageExact`).  Facts about finite sums are
  shown by a smallest counterexample, since induction schemas are out of reach.
* `CoinsDBProofs`: while a flush is incomplete every coin on disk is that of the
  old or of the new tip, and during a replay every coin in the view is that of
  the block reached or of the target (`ViewInv`).  That makes rolling back and
  forward exact although it applies blocks that may already be applied.  Proved
  for any block tree.  `ReplaySafe`: until a file is pruned, what a replay needs
  is on disk, by an invariant on the block index (`IndexInv`).
* `ChainStateProofs`: the active chain has no failed block and all its blocks
  passed `ConnectBlock` (`ChainSafe`), and the chain that `ActivateBestChain` is
  on its way to is neither marked nor pruned while `cs_main` is released
  (`PathSafe`), for every tree of blocks and all verdicts.  Neither is inductive
  alone: a header may mark blocks only below a member of `m_failed_blocks`, which
  must itself be marked, and the tip must be on the way to the chosen chain while
  a step is under way (`Underway`).
  `IndexSafe`, `CandidatesSafe` and `TipSafe` are the three statements about
  `setBlockIndexCandidates` and `m_blocks_unlinked` that the run checks.  They
  need a second invariant, `JInv`.  That no candidate is missing (`Offered`) rests
  on what waits and why (`Waits`): a linked block that is not a candidate waits
  for its parent, which waits or is not on disk, and so on down to a block that is
  missing.  In the inner loop of `ActivateBestChain` the tip may be worse than it
  was, and candidates were dropped by comparison with the tip of then; so `Offered`
  compares with that one too (`job.start`), and `Returns` says that the loop can
  get back to it when it looks for another chain.  It says nothing in the middle of
  a step, where the blocks of that chain may be pruned: a step that goes on does
  not need them, and one that ends at a failing block without them is what
  `LosesWayBack` records.  What `ConnectTip` prunes is not above the tip, and so
  never on the way to the chosen chain (`PrunedIsBelow`).  `TipOffered` keeps the set from becoming empty.  `Chosen` then
  gives the tip: what was chosen is best until somebody asks for another choice.
  The order of the candidates is total because work grows from parent to child and
  addresses differ (`OrderAssumption`).  What holds along a branch is shown by its
  lowest or highest exception (`TreeAssumption`, `RootAssumption`).
* `TxRequestTrackerProofs`: the conditions of `SanityCheck` are inductive
  (`Good`), although each operation looks only at neighbours in the index; what
  `GetRequestable` returns is the best candidate.  `Refinement`: the tracker
  implements `TxRequests`, in which the states "ready" and "best" do not exist.
  Steps of the loops in `SetTimePoint` are invisible there, and what they select
  is what the rule of the specification selects.
* `CheckQueueProofs`: each check is in the queue or in one batch, `nTodo` is
  their number, and a failure is in one of them or remembered by `fAllOk`.
* `SchedulerProofs`: a scheduler with one service thread, as the node has, runs no
  task before its time, also when tasks are added and `MockForward` moves them
  while it waits: a task that is still queued is due when its wait
  ends (`IInv`).
* `SchedulerClientProofs`: `running` holds exactly while one thread executes a
  callback, and if it does not hold and callbacks are pending then a look at the
  queue is scheduled or under way (`Attended`).  From `EmptyQueue` on the main thread
  is alone and the scheduler stopped (`Alone`), so that nothing executes what is
  added later.  Hence `Serial`, `NotStranded`, `Emptied`, and the refinement of
  `SerialExecutor`.
* `MainSignalsProofs`: exact counts and valid iterators are inductive together;
  with "every entry up to the current one was notified" (`Progress`) they give
  that `Iterate` skips nobody.

Only model-checked: all liveness (`Recovers`, `Returns`, `WaitReturns`,
`AllCalled`, `ThreadsReturn`, `AllExecuted`, `ActivationEnds`), which is out of
the prover's reach, and all of `MWEBNode`: what its operators compute from the
leaves of a block is recursion over data, for which the prover has no induction.

## Not modelled

Left out of the modules above: disk-full aborts and the loss of unsynced writes
when the machine fails (a crash is that of the process), exceptions of tasks,
sequence numbers of announcements and the per-peer counts, which events the
validation interface has, restarts and shutdown in `ChainState`, several blocks
in one block file, MWEB transactions outside blocks, the leaf data that only
tests read, and the prune list, which nothing compacts.

Parts without a module:

* `net.cpp` and `init.cpp` hold unresolved merge conflicts, so that there is no
  one program to model.
* Difficulty (`pow.cpp`) is 256-bit arithmetic, which TLC's integers do not hold;
  fee estimation is floating-point statistics; cryptography is not a question of
  states.
* The mempool, deployment states, the cuckoo cache, the address manager, the
  synchronisation of the indexes, and block download are within reach of models
  like these and were not attempted.
* The wallet, RPC, REST, ZeroMQ and the graphical interface are input and output
  around these parts, or subscribers of them.  The translations in `qt/locale`
  are data.
* The older Neutron sources are not part of the build, and the bundled libraries
  are external: of LevelDB, only that a batch is atomic is assumed.
