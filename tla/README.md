# MeTTaScript in TLA+

Specifications, model checks and proofs of the stateful and concurrent parts of
MeTTaScript, a MeTTa interpreter in TypeScript (`src/`).  The program text is the
reference: an action stands for a whole method, handler or step of the code, and
`PROJECT.json` names the lines of each definition.

## 1. The system

MeTTaScript is a set of packages around one evaluator.

| Component | State | Operations | Interacts with |
|---|---|---|---|
| Table store, `core/src/table-space.ts` | completed tables in LRU order, active tables, six counters, interner, generation, utility per functor | key, getCompleted, rememberCompleted, beginActive, addActiveAnswers, endActive, clear, admitsFunctor | called by the evaluator around every pure call; keys live in its frames across calls of any depth |
| Concurrency forms and worlds, `core/src/eval.ts` | per evaluation an `St` (id counter and copy-on-write world); per environment the lock table and the loaded modules; one content-version counter | par, race, with-mutex, transaction; new-state, change-state!, new-space, fork-space, add-atom, remove-atom, import! | branches are promises on one event loop, interleaved at awaits |
| Interpretation and tabling of calls, `core/src/eval.ts`, `tabling.ts`, `eval-depth.ts` | stack of frames, producers of active tables, depth and spans | evaluation of a call, ground and moded tabling, the producer loop | table store, worlds |
| Runtime atoms of a world, `core/src/flat-atomspace.ts`, `atomlog.ts` | shared tables of facts; per world ranges, removed facts, indexes, counts, a scan for suspect facts; a log where the flat store does not apply | append, remove, clear, fork, query, count, scan | evaluator; worlds of branches share tables |
| Persistent spaces, `core/src/persistent-space.ts`, `pmap.ts` | versions: three tables and the next id | add, remove, query, snapshot, restore, fork | backs a named space |
| Parallel hyperpose on Node, `node/src/par-hyperpose.ts` | shared buffer: a slice per branch, a counter | worker script; scan and `Atomics.wait` of the main thread | `(once (hyperpose ...))` of the evaluator |
| Parallel hyperpose in the browser, `browser/src/source.ts` | running workers, results, timers | launch, settle, time out | evaluator (asynchronous hook) |
| Parallel flat matcher, `node/src/flat-parallel.ts` | warm worker pool, shared cursor, promise queue | match, close, worker script | used by programs over a `FlatKB` |
| Embedded language, `edsl/src/db.ts` over `hyperon/src/base.ts` | change log, recording depth, listeners, the open bodies; the atoms of the program and the world of evaluations | transaction, dryRun, undo, onChange, watch | evaluations write through the hook; callbacks of the program call back in while the space is put back |
| DAS client, `das-client/src/` | messages received by a proxy node | query, poll, collect | remote query agent over gRPC |
| Matching and trail, static base, compiler, parser, builtins | none, or sequential data structures | | evaluator |
| Bridges (Prolog, Python, Hyperon), grapher, debug, fuzz | adapters and user interface | | evaluator |

Where it is hard:

* **Tables.** Keys outlive the interner that encoded them; one budget is shared by
  tables that may be evicted and tables that may not; the counters are kept by
  eight methods.  Correct means: counters exact, limits kept, no key that decodes
  to another call, least recently used evicted, a revocation final.
* **Calls that recur.** A call that meets its own active table reads what is known so
  far, and is evaluated until nothing is added.  What is remembered on the way must be
  what the equations mean, and a call answered from a table must cost the depth its
  evaluation would.
* **Worlds.** Branches work on copies and are merged as deltas; ids come from a
  counter per branch; what is *outside* the world (lock table, loaded modules,
  version counter) is not rolled back and not merged.  Correct means: a join has the
  effects of all branches, handles are not reused, one version means one content,
  one body per lock, every section served whatever becomes of the others.
* **Versions that share.** A snapshot or a branch shares tables, indexes and caches with
  what goes on changing.  Correct means: each version behaves as a bag of its own, and
  an index finds what a scan finds.
* **Threads.** Shared memory with one counter and a sleeping main thread (torn reads,
  lost wakeups, dead workers); pools whose workers crash, time out or answer late.
  Correct means: what is returned is what was computed, and the call returns.
* **Callbacks.** A rollback puts the space back with the recording taken off and calls
  watchers meanwhile, which may write, subscribe, stop, or begin bodies of their own; evaluations
  tell of writes they may lose.  Correct means: a report lists what its body reported, the depth
  counts what is open, no listener is lost, and what was put back is what was there.

`PROJECT.json` lists every component with its status, and every hazard at its line.

## 2. Modules

| Module | What it is |
|---|---|
| `SequenceFunctions`, `SequenceFunctionsProofs` | sums over sequences and the part of a sequence that is in a set, as recursive functions; their lemmas, with those about sets listed in order |
| `TableSpace`, `MCTableSpace` | the table store; a small one for TLC |
| `Clauses` | a program as clauses over calls, and what it means without tables |
| `ModedTabling`, `MCModedTabling` | the evaluation of calls with ground and moded tables; 840 programs |
| `Worlds` | the world as a value: effects and `mergeWorlds` |
| `Concurrency`, `MCConcurrency` | par, race, with-mutex, transaction over `Worlds`; a small program, used by three configurations |
| `SpaceAtoms` | atoms by what the stores distinguish, and matching |
| `VersionedSpace` | abstract: holders of versions, each a sequence of atoms |
| `PersistentSpace` | versions of a persistent space |
| `FlatAtomSpace` | tables of facts and the views worlds have of them |
| `SpaceBackends`, `MCSpaceBackends` | both stores given the same calls; both implement `VersionedSpace` |
| `EdslTransactions` | transactions, dry runs, undo and listeners of `MettaDB` |
| `Hyperpose` | the branches of a hyperpose and what they come to |
| `ParHyperpose` | over `Hyperpose`: worker threads and the waiting main thread (checked as it is) |
| `BrowserHyperpose` | over `Hyperpose`: Web Workers under a worker limit (checked as it is) |
| `FlatMatcher`, `MCFlatMatcher` | the worker pool and its queue |
| `TableSpaceProofs`, `SpaceBackendsProofs`, `ConcurrencyProofs`, `FlatMatcherProofs`, `EdslTransactionsProofs`, `ModedTablingProofs` | inductive invariants and theorems about the module of the same name |
| `HyperposeProofs` | the same about `ParHyperpose` and `BrowserHyperpose` |

### TableSpace

`table` is the object: `completed` is the linked list from head to tail, `active` the
active stack, the counters keep their names.  Private methods are operators from
stores to stores (`Touch`, `Remove`, `InsertHead`, `MakeRoom`, ...), so an operation
is the composition its body writes: `RememberCompleted` removes the older table,
inserts, evicts and may reset the interner, in one step.  `keys` are the keys the
evaluator holds, of this generation or an older one; every operation takes any of
them.  A key stands for (domain, version, variant), its tokens for the set of leaves
it interns, a bag for its answers.

* The trie and the list are one sequence; that they agree is `NoVariantTwice`.
* `utility.inserts` stops counting at the threshold, where further inserts mean nothing.
* `Lookup` is `admitsFunctor`, `key` and `getCompleted` in a row, as the evaluator
  calls them; no other code runs in between.
* `AddActiveAnswers` is given a resident entry that is not over budget, as the
  producer loop does.
* `CallAssumption`: one call alone fits the interner limit (250 000 leaves).  Without
  it the limit would not hold after any `key`.

### Clauses and ModedTabling

The rewriting of atoms is abstracted to clauses: a call has alternatives, each with
premises (calls) and an answer that carries one of the premises' answers on.  `Meaning` is what
the equations give without tables: the bags up to each depth, the least set of answers closed
under the clauses, which calls reach which.  The last two are defined as the intersection of
what is closed, so that proofs can use them; TLC evaluates them once per program.  The stack of frames
is the recursion of `mettaEvalBodyG`; a step answers a call at once (a completed table, an
active variant, the depth bound), enters it, or ends a pass over its clauses, where a
moded producer goes round again while answers are added, and a ground call is remembered
with the span of levels it used.  A refused or over-budget active table ends its call as
the code's `TableResourceLimit` error and a throw takes the active tables of every
level with it.  `Evict` is the loss of a completed table to another functor.

* Bags, not ordered lists; a chain of tail calls is equivalent to the calls themselves.
* Left out: fuel, the compiled paths, the purity analysis that decides what is tabled,
  suspension and abort.

### Worlds and Concurrency

A task is an evaluation with its own `St`: `Root`, the program, and the branches it
forks.  Steps are effects, and tasks interleave between any two, since an
asynchronous operation may stand there.  `frames[t]` are the `with-mutex` and
`transaction` forms around the point of evaluation.  A request of a lock is a number;
`mutexes[n]` is the request its promise chain ends with, `open` the requests whose
`release()` was not called.  `fork` is what root is suspended on.

* A body of `with-mutex` is evaluated without the signal of its task, so a loser of a
  race runs it to its end (`Shielded`) and is cancelled behind it.
* When a branch of a `par` throws, the program is gone and the other branches run on.
* A space is a bag; the value of a cell stands for the object it holds, which is what
  the merge compares by identity.
* `handed` is history: the ids a line of evaluation was given.
* Left out: forks inside branches, `bind!` (merged the way cells are), `pragma!`,
  spaces with a pluggable backend, change listeners, and the promotion of a top-level
  import into the static program, which moves atoms without changing what is visible.

### SpaceAtoms, PersistentSpace, FlatAtomSpace, SpaceBackends

An atom is a head, possibly a nested head, and a leaf: what indexes, counts and suspect
scans tell apart.  `current[h]` is a persistent version with its tables `byId`,
`byHead` and the rest; `world[h]` is what a world holds: a
table (shared, in `tables`), ranges of it, removed facts, counts, or a log when a batch
does not suit the flat store.  Each action gives both stores the same call: `Add` (a
batch), `RemoveOne`, `Clear` and `Become` (snapshot, restore, fork), each with what it does
to the rules and their version stamp; `AskSuspect` is the scan for suspect facts with its
memo on the shared table, and `ImportSignature` a signature that defines another symbol.
`VersionedSpace` knows only sequences; the refinement mapping is the atoms a version
sees, in order.

* The tries under a persistent version are functions.
* `ValueOf` says which leaves have one value: the run has `one` and `onef`, two spellings of a
  number.  `atomEq` and matching compare values (`atom.ts` 86-119, 685-715), the flat store
  removes and counts by interned term (`flat-atomspace.ts` 437-452, 657-682).  So a removal of the
  abstract space is by one of the ways in `RemovedBy`: by value for a persistent version, by
  either for a world, as it is in the flat store or in the log.  A count is claimed
  to be what matching finds where the atom asked for has `OneSpelling` in the store.  That the
  two stores then hold the same atoms is `StoresAgree`, which is refuted.
* `SuspectsFound` speaks of what makes a fact suspect by the rules of the asking world and
  by the signatures imported before the scan began (`scan.known`).  One imported later moves
  neither token of the memo: that nothing is missed then either is `NoSuspectMissed`, refuted.
* Left out: the static base, the range index, the in-memory space of the library.

### EdslTransactions

`stack` holds the bodies that run and the restores: a frame is a transaction, a dry run or an undo,
in its body or in a phase of putting `&self` back (`clear`, `cleared`, `refilled`).  `changeLog`,
`recordDepth`, `changeListeners` keep their names; `watching` is whether the hook of `syncSpaceWatch`
is installed.  What `&self` holds is in two places, as in `base.ts`: `kb`, where the program
adds, and `world`, what evaluations added (`extra`) and which atoms of the KB they hid
(`removed`); `Visible` is the two read as one.  `shelf` is a named space, which nothing rolls back.

* A write of the program lands and is told afterwards; listeners hear of it one by one until one throws.
  The order in which they asked is left out, so that `Hearing` takes any of them.  `clearKb` and the writes of an evaluation (`EvalWrite`) are told
  first: a listener that throws keeps them from being made, and ends the evaluation.
* An evaluation works on a world of its own (`eval`), which the space takes over at its end, or
  does not when it throws.  `OpenForm` and `CloseForm` are the `(transaction ...)` of the
  language, which keeps its world or goes back; the log is not told.  A removal that finds
  nothing is told like any other.
* Between `ClearSpace`, `Refill` and `EndRestore` watchers are called, and what they do is any call of
  the program: write, evaluate, begin bodies, undo, subscribe, stop, throw.  They are
  called when the rows they watch changed, which takes a write to `&self` at some time (`stirred`).
* History: `own`, what the hook reported of a body; `missed`, `emptied`, `subscribed`,
  `stoppedLate` as commented; `quiet`, whether a callback wrote during a restore.
* Left out: asynchronous bodies, `removeMany`, several named spaces, and listeners of `onChange` or grounded
  operations that call back into the database: they hear or throw.
* A callback that throws ends a restore where it is.  That a dry run abandoned so leaves
  its entries in the log of the body around it follows from the model (`Abandon` merges its `own`), and no
  property forbids it: the code and its documentation do not say what should be there.

### ParHyperpose

Every atomic access is a step of its thread; writing a slice is one step, invisible
until the status is stored.  `Atomics.wait` compares and sleeps in one step, as it
does.  A worker may be killed between any two steps, also between its add and its
notify.  A branch that diverges is a worker that takes no step.  `TimeOut` may happen
at any time.  `firstOnly` is chosen at the start.

### BrowserHyperpose

Events of the page are atomic, threads are not: a worker posts into `inbox`, the page
delivers, and a timer or an error event may come first.  A refused worker is one whose
constructor throws.  `answer` is the array as the caller read it when the promise
resolved; `results` goes on being written.

### FlatMatcher

Threads step at the claims of the cursor.  A worker that ends sends its last events
once: `error` and `exit` after a crash, `exit` after `terminate()`.  A message to a
thread that ended is lost.  Listeners a failed call left behind settle promises
nobody looks at and are not modelled; that a late answer reaches the listeners of the
*next* call is.

## 3. What is checked

| Run | Instance | Question |
|---|---|---|
| `table_space` | 3 variants of a functor, 2 answers, 4 leaves, limits of 3 entries, 3 answers, 7 cells, 4 cells per table, 3 leaves, revocation after 2 inserts, 1 reset | is the store right under every sequence of calls, evictions and resets |
| `moded_tabling` | 3 calls, 2 answers, 840 programs, depth 5, 2 active tables, 3 known answers, 2 queries, 1 eviction | do tables hold what has a derivation, all of it where they promise so; do they leave the result of a call that does not recur alone; are they taken back on every way out; does a query end |
| `concurrency` | root and 2 branches, 3 effects, one lock, 2 ids per task, an atom of the program, an atom of the text, a module | handles, versions, imports, joins, exclusion, the table of locks, service |
| `space_backends` | 2 holders (symmetric; 61 739 states), one number in two spellings, 5 batches (one with an operation, which the flat store refuses; one with an equation), 5 patterns, 3 changes | do both stores implement a space with versions; do indexes, counts and the suspect scan find what is there |
| `edsl_transactions` | 2 atoms, 1 listener, 3 begun (bodies, undos, subscriptions), 2 writes; callbacks of a restore may do anything (2 425 216 states) | is recording right after every way out; do reports list what their bodies reported; is a listener ever lost; is what was put back what was there |
| `par_hyperpose` | 3 branches, with and without once, 1 worker killed | torn reads, lost wakeups, signals left unread, the winner, return and cleanup |
| `browser_hyperpose` | 4 branches, 2 workers, 1 refused | slots, late answers, the answer the caller reads, return and end of the workers |
| `flat_matcher` | 2 workers, 3 facts, 4 calls (one with an unknown symbol), 2 crashes, close | exact results, isolation of calls, failure |

Four runs refute a sentence of the documentation or a comment; each finding in
`PROJECT.json` quotes it.

| Run | Counterexample |
|---|---|
| `hung_match` | a worker crashes, its call fails, the next call waits for it for ever |
| `ground_table_in_moded_call` | a ground call between a moded call and its re-entry is remembered as complete in an early pass; the later passes and every later query replay the bag that misses answers |
| `unread_branch` | a worker stores its status and signals after the scan passed its slice and before the counter is loaded: the loop ends as if all were read, and the answer is `null` |
| `suspects_missed` | a signature is imported after the scan; a fact of its symbol stays unsuspected |

Nine more sentences are stated as properties and refuted with the configurations below.  They are kept
beside the runs, to be tried again when the code changes (`tlc -config X.cfg M`), and every property of
a run that leaves such a case out says so.

| Configuration, module | Property | The sentence | Counterexample |
|---|---|---|---|
| `MCConcurrencyImport`, `MCConcurrency` | `ImportTakesEffect` | `concurrency.md:93` "the world is rolled back" | a transaction imports and is rolled back; the next `import!` does nothing (`eval.ts:6296`) |
| `MCConcurrencyReads`, `MCConcurrency` | `VersionIdentifiesReads` | `tabling.ts:73-74` "keyed by the current atom-space content version" | `change-state!` after a space read: same version, another answer (`eval.ts:6003`) |
| `MCBrowserHyperposeCancelled`, `BrowserHyperpose` | `WorkersCancelled` | `source.ts:90` "workers are cancelled once the first non-empty branch result arrives" | under once a branch has answers, the call resolves, and the other workers run on |
| `MCSpaceBackendsSpellings`, `MCSpaceBackends` | `StoresAgree` | `flat-atomspace.ts:660-661` "the same fact a front-to-back scan of the whole space would remove" | `1` is held and `1.0` removed: it leaves the persistent space and stays in the flat store |
| `MCEdslTransactionsHeard`, `EdslTransactions` | `WritesHeard` | `db.ts:679` "Report every write to every space" | the first of two listeners throws; the second never hears of a write that was made (`db.ts:745`) |
| `MCEdslTransactionsStop`, `EdslTransactions` | `StopIsFinal` | `db.ts:679-680` "call the returned function to stop" | a callback stops a listener during a restore, which then puts it back (`db.ts:778`) |
| `MCEdslTransactionsShelf`, `EdslTransactions` | `ShelfExplained` | `transaction.ts:48` "Every write the body made, in order, across every space it touched" | a nested transaction writes to a named space and throws: the write stays and the outer report does not list it (`db.ts:615`) |
| `MCEdslTransactionsAdded`, `EdslTransactions` | `AddedIsHeld` | `db.ts:602` "what was held before, what is held now, and every write between" | a transaction of the language adds and rolls back: the report has an add of an atom that is not there (`eval.ts:6206`) |
| `MCEdslTransactionsEmptied`, `EdslTransactions` | `ReportWhole` | `db.ts:729-730` "Dropping them any earlier would empty the log before the report was built" | a callback begins a transaction while an inner one is rolled back; its end empties the log of the outer one |

The properties, by the way they could fail:

* A property that names several conditions is one claim in parts: `LimitsRespected` (budget,
  and the interner when nothing pins it), `KeysDecodable` (resident keys and keys held),
  `AnswersReadInTime` (nothing that signalled lies unread while the main thread sleeps or gives up; the
  lowest ready branch wins under once), `LocksExact`
  (one body per lock, an entry while and only while a chain needs it), `CallsApart` (results of a
  call from its own facts, one call at a time), `PoolConsistent` (counters, slots).
* `AnswersExact` asks two things of a table: nothing without a derivation, and all of
  the meaning when the table was completed outside any active moded call it depended
  on.  `GroundTablesComplete` drops the last condition and is refuted.
* `TablesChangeNothing` compares a query with `Meaning`: depth spans of tables make the
  stack error come where evaluation would have it.
* `RecordingConsistent` is the hook, the depth and the log in one: the log is the changes of the open
  frames one after another.  `ReportExact` compares a report with what the hook told of its body and of those
  kept in it.  Both except a log that a callback's transaction emptied (`emptied`), which is the
  counterexample of `ReportWhole`.
* `ListenersKept` bounds who is told from both sides; the upper bound leaves out those
  stopped during a restore, the counterexample of `StopIsFinal`.
* `RestoredExactly` says of a restore no callback wrote into that `&self` is what it was, in order,
  also where evaluations hid atoms or added their own.
* `ReturnsAndStops` says that each worker comes to its end by its message, error or timer;
  nobody cancels one (`WorkersCancelled`).
* `PersistentRefines` and `RuntimeRefines` are `VersionedSpace!Spec` under
  `contents <- ...`, so each step of a store is a step of a bag with versions or none.

**Bounds.**  The limits of `table_space` are chosen so that each is reached by the
others' leave: entries by three small tables, answers by one bag and an active table,
cells by two large ones, the leaf limit by any two bags.  `MaxGeneration = 1` gives keys
of an old and a new generation, which is all a key can tell; the theorems hold
for any number.  Three effects let two branches and root interact with one another:
one before a fork and one in each branch, or all in one task.  Three calls are the
least that recur through each other with one in between; two queries show what the first left
behind, one eviction is a table that a running producer counted on.  Depth 5 is reached
by recursion through two calls and not by one.  Three changes are two batches that share a
table and a removal between them, or a split after a copy.  Three begun are
two nested bodies and one of a callback, or two and a subscription, or a body and two undos; two writes are one
before a body and one in it, or one of the program and one of an evaluation, and every conjunct of
the invariants fails for a mutant within them.  Two atoms tell an order.  Three branches are needed for a winner between two others; four
branches on two workers start from a queue twice.  Four calls of the matcher are a
call that crashes, one on its leftovers, and two behind them.

**Fairness.**  `Concurrency`: a task comes to the end of each form it entered and is
resumed when its promise settles; nothing makes it have an effect, fork or throw.  That
is the event loop plus asynchronous operations that settle.  `ParHyperpose`: only the
main thread; its timer and `terminate()` must suffice.  `BrowserHyperpose`: a worker
that is launched starts, a posted message is delivered, a timer fires; nothing makes a branch
finish.  A worker the browser refused is never settled, as the code never hears of it, and
`ReturnsAndStops` claims nothing of a call that has one.  `ModedTabling`: the evaluator
takes its next step (one thread).  `FlatMatcher`: a live thread is scheduled and the
event loop turns.  `SectionsServed` excludes a section that waits inside another: the
code does wait for itself there, as any lock without reentry does.

Deadlock is not checked: each of these systems comes to rest (a budget of effects is
used up, a call returned, the generations ran out).

## 4. What is proved

Each theorem has the form `Spec => []P` (or `[][A]_vars`), for all values of the constants that
satisfy the assumptions of the module.

`TableSpaceProofs` (every budget, calls, answers, bags, `MaxGeneration`):
`CountersAgree`, `LimitsRespected`, `NoVariantTwice`, `KeysDecodable`, `RevocationIsFinal`,
`LeastRecentlyUsedEvicted`; `TypeOK` is a part of `CountersAgree`.
None of them is inductive alone: that a removal leaves the counters natural needs them
to be exact, exactness needs entries with the cost they were charged, replacing a
variant needs it to be there once, and the budget after `endActive` needs all of it.
The inductive invariant `IInv` is

* `StoreInv(table)`: the store is sound (typed, counters exact, no variant twice, keys
  resident in the current generation and decodable), fits its budget, and its interner
  is within the limit unless a table is active;
* the types of `utility`, `keys` and `recency`;
* the decodability of the keys held.

The private methods are operators on stores, so each has a lemma `Sound(t) => Sound(Op(t))`
with what it does to the budget, and the theorem of a step cites the lemmas of the
operators its body composes.  `MakeRoom` and the loop of `addActiveAnswers` are the two
places that iterate: the first is stated as the choice of how many to keep, the second by
induction on the answers of the bag.  `SequenceFunctionsProofs` has the facts about sums: the total
of a sequence after a removal, an insertion or a change.
For the order of eviction the invariant adds that the history of uses names no key twice and
that the completed tables are its first ones: an insertion or a touch moves one key to the front of
both, a removal for any other reason than the budget takes the key out of both.

`HyperposeProofs`, of `ParHyperpose` (every number of branches, any number killed): `TypeOK`,
`ResultsWhole`, `NoLostWakeup`, `AnswersReadInTime`.  The inductive invariant adds to the types
that there is room to signal (the counter is the number of workers that added, so it cannot exceed
N), that a slice holds what its status says, that results already copied are whole, and what the scan has
established of the slices it passed: a worker that signalled has its status stored, and one counted in the
counter the scan started from is read once its slice is passed.

`HyperposeProofs`, of `BrowserHyperpose` (every number of branches and workers): `PoolConsistent`,
`AnswerExact`.  The inductive invariant adds that stored results are what the branch
gave, and that a call that is not resolved has settled only branches without a winner;
the counters are cardinalities of sets of workers, so the proof goes through
`FiniteSetTheorems`.

`ConcurrencyProofs` (every number of branches, names, modules, atoms, ids and effects):
`HandlesNotReused`, `VersionIdentifiesContent`, `LocksExact`, `TypeOK`, `ParJoinsEffects`,
`ImportedOnce`.  The inductive invariant is `Typed` (every world,
snapshot and fork, in full), the first property itself, and `VersionsSound`: no world that is live
(of a task, or saved by a transaction) is newer than the version counter, and two with
one version have the same content.  A step brings in at most one world, under a version nobody
had or with the content of a world of that version, which is one lemma; what is left
is to show each effect, rollback and merge to be of one of the two kinds.

For the locks `LInv` adds what makes a promise chain a queue.  The request of a section is its own and open until the section is left; a section
behind another of its name waits for an open request that is the other's or comes
after it, so of two sections of a name the later one cannot run; the table has the last
request of a name some section is left of; only the innermost form of a task waits.
That the entry is deleted by the section whose request it is, and by no other, is what needs all four.

`ParJoinsEffects` is about `mergeWorlds`, which takes one branch after the other: each turn changes
a bag by the branch's gain over the base, cut off at zero, and the turns add up to the sum
of the gains as long as only one of them takes the atom out.  `ImportedOnce` is about what surrounds the
merge.  A world a task may go back to continues one it could go back to before, so that a
step gives imported atoms to one task only; an atom of a module that is not loaded
is nowhere; and of the branches of a fork only one holds an atom that root
does not.  `loaded` is not rolled back, which costs the effect of an import (the finding) but never
brings it in twice.  The theorem assumes `ModulesApart`: two modules have no atom in common that the
program does not add itself.  Without it a second module would rightly add the atom again.

`SpaceBackendsProofs` (any heads, leaves, operations, batches, patterns, holders): `TypeOK`, `IdsIndexed`,
`SuspectsFound`, `QueriesExact`, and both refinements, `PersistentRefines` and `RuntimeRefines`.  A version is
sound (`VersionSound`) when an atom is in the table of all atoms and in that of its head, under one
id below the next, and in no other; each table pushed its keys in increasing order.  A world is sound with respect to the shared
tables (`StoreSound`) when it sees facts of its table only, its counts are the cardinalities of what is
live in it, and it has a log only without a table; tables hold atoms that can be stored
flat.  Since a table only
grows at its end and no other world sees the facts that are new, a change of one
world leaves every other with the atoms it had: that is the argument that versions are
isolated, and each step of a store is then shown to be the step of the sequence.  Buckets are
increasing listings of sets of ids, so that a query by bucket gives the matches in the order of
a scan; `SequenceFunctionsProofs` has these facts.  For the suspect scan, worlds with one
stamp have one set of rules, and a memo of a table holds what is suspect under its stamp up to
where it was scanned, among the symbols known when the scan began.  Leaves may have values in
common: the theorems assume nothing of `ValueOf`.  A removal from the flat store is shown to be a removal
by term and one from the log or a persistent version a removal by value, and `QueriesExact` claims a
count where the atom asked for has one spelling in the store.

`FlatMatcherProofs` (every pool, facts, calls and deaths): `CallsApart`, `TypeOK`.  While a call
runs, either its facts below the cursor are shared out among the workers, each of
which is asked, scanning, has posted or is done, or an awaited worker ended with no
reply under way, and then the call cannot resolve.  When none runs all workers rest or
one is lost, and the pool never returns to the first case once it is in the second.  The bound
of the cursor in `TypeOK` is the claim that turns past the last fact are limited: each settles a message,
calls start in order, and a thread owes no more messages than calls have started (`CursorSound`); the messages
owed by all threads are counted as a finite set.

`EdslTransactionsProofs` (every depth of nesting, atoms, listeners and writes; no assumption on what
callbacks do): `RecordingConsistent`, `ReportExact`, `ListenersKept`, `RestoredExactly`.  `IInv` is the types,
these properties, and what they need of the frames:

* `DepthsNested`: each frame began at the depth of the one below, and a restore counts anew.
  A callback's bodies are counted from 0, and leaving the restore puts the depth back it began at;
* `LogOfFrames`, unless the log was emptied: the spans of the open frames chain up to the end of the log, and
  each span is what its frame reported.  A report is the span of the frame that ends, and a cut at
  its mark takes out that span only;
* `RestoreSound`: a restore nobody disturbed is the innermost frame, outside of an evaluation,
  and the space is as far back as its phase says.

There is a lemma for each way the stack changes: a change reported (`HookStep`), a frame pushed (`PushStep`), the
innermost one turned into a restore (`RestoreStep`) or moved to its next phase
(`PhaseStep`), a frame taken (`TakeStep`).  Each cites what the change does to the log (`LogGrown`, `LogPushed`,
`LogCut`, `LogMerged`), the depths and the saved listeners; the lemma of an action
says which way it is.

`ModedTablingProofs` (every set of programs, of any number of calls with any number of clauses,
every depth bound, budget and number of evictions): `TypeOK`, `ProducersNested`, `AnswersExact`,
`TablesChangeNothing`.  None of them is inductive, since a frame in the middle of its clauses holds
part of a result.  `IInv` says of the stacks

* `StackOK`, `NestOK`: each call is the premise the one below waits for, and frame `i` works for
  the active table `Rank(i)`, the number of producers up to it, whose call is not its own
  unless it is that producer;
* `ReachOK`: a call reaches those above it, and a call whose table was read reaches itself;

and of what they hold, that every result is

* *derived*: its answers are in the least model;
* *whole* (`Whole`): free of errors and in a program without a mixed cycle, it holds `m[c]` for
  each `m` in `Models`, the interpretations in which every answer follows from others of `m`, except
  that those of the call on top of the active stack, once its table was read, are bounded
  by what it knows.  This is what an early pass of a producer promises and the least
  model is not: when a pass adds nothing, the union of these interpretations is closed under the clauses, so
  that it contains the least model (`KnownIsAll`).  A ground call is remembered in the middle of such a pass and
  must hold all of its answers: outside a mixed cycle it does not reach the producer, and
  the least model cut down to what it reaches is one of the `Models` (`LeastModels`);
* *exact* (`Exact`): for a call that reaches no cycle with a moded call, it is the bag
  evaluation without tables gives with the levels left and, if nothing was cut, with any number from
  the levels it used up.  The latter is what makes a span a licence to replay: results that were not cut
  are the same with more levels (`LevelsStable`).  A frame has the sum of the clauses
  it is through with and, between two evaluations of a second premise, that multiple of it
  (`Partial`).

`Take` is shown to keep the three, clause by clause; then so does each way a call is answered
(cut, replayed, read, refused), entered or ended.  `Levels` and `Sums` are recursive functions: that a function with
their equations exists, and what follows by induction on the depth, is set induction over an
interval (`SetInduction`).

Only model-checked: liveness (`QueriesEnd`, `ReturnsAndCleansUp`, `SectionsServed`, `FailureContained`,
`MatchesResolve`, `ReturnsAndStops`), which is beyond the prover.

## 5. Not modelled

* The compiler and native loops: equivalence of generated code with the
  interpreter over all programs, which the repository tests differentially.  They are most of
  the implementation's lines, together with generated protocol code and the renderer.
* Parser, printer and builtins: pure functions of text and numbers.
* Unification and the trail: a sequential algorithm; planned.
* The DAS client: it appends what its proxy node receives to one array per query, until
  FINISHED, ABORT or a deadline; the agent that sends, and its protocol, are outside
  this repository.  The hazard is listed without a property.
* Language bridges, graph view, debugger, fuzzing, command line: input and output.

## 6. Plan

Next, in order of weight: forks inside branches; the static
base, its index on argument positions (a hazard listed without a property yet) and the
range index beside the runtime atoms; the trail.
