# TypeNative in TLA+

TypeNative is an ahead-of-time compiled language: a Rust compiler (`src/crates`)
that lowers source to a MIR with ownership, checks borrows, places drops and
emits LLVM; a runtime written in the language itself (`src/runtime/runtime.tn`)
with threads, promises, a task executor, channels and shared ownership; and a
standard library (`src/std`) that wraps the runtime in safe types.

What is hard to get right in it, and hard to test, is of six kinds:

* **the runtime's concurrency**: reference counts moved by compare-and-exchange,
  functions that copy a structure *before* they lock it, worker threads that
  sleep and are woken, groups whose memory may go only after their last task;
* **the compiler's ownership**: three passes (lowering, borrow checking, drop
  elaboration) and the code generator each know one part of when a value lives
  and dies, on every path through branches, loops, errors and cancellations;
* **the collections' storage**: blocks of raw memory with a byte per slot that says
  who owns what is in it, outside the compiler's view, which rings that wrap, gaps
  that close, sifting and rehashing must keep exact;
* **the Node-API bridge**: code the compiler emits as text, call after fallible call,
  with workers that finish between them;
* **the code generator's conventions**: several of its parts must agree on where a value
  lies and what its tag means - those that build, match, read and drop it, those that
  throw and catch it, the operators and the functions tables compare with;
* **the driver's caches**: files that several processes read and replace while
  sources change and builds are killed.

The modules here are about these six. Paths below are relative to the
repository.

## 1. Inventory

State, operations, interactions and correctness of each component. *Modelled*
names the module; the rest says what is left, and why is in section 8.

| Component | State | Operations | Correct means |
|---|---|---|---|
| **Arc / Weak** (`runtime.tn` 166-170, 454-599; `std/alloc.tn`) | header with two `usize` counts, the value after it | construct, clone, downgrade, upgrade, dispose of each, from any thread | counts equal references; the value is destroyed once, when the last Arc goes; the block is freed once, when nothing refers to it. *Modelled: Arc* |
| **Executor and task groups** (`runtime.tn` 3410-3703; `std/async.tn`) | queue, worker and idle counts; per group `active`, `cancelled`, `closing`, list of tasks | enqueue, worker loop, create/cancel/spawn/wait/isComplete/destroy of a group | each task is run once or cancelled, a group ends after its tasks, no wake-up is lost, close returns. *Modelled: TaskExecutor* |
| **Promises** (`runtime.tn` 1680-1938) | state, reference count, group's reference, context | create, wait, attachGroup, retain, release, cancelQueued | body starts once, awaiter sees a value only after it, captured values are used or destroyed, freed with the last reference. *Modelled: AsyncPromise* |
| **Channel** (`runtime.tn` 2157-2366; `std/sync.tn`) | ring of slots, `length`, `head`, `closed`, per-slot ownership flags | Begin/Commit of send and receive, their try forms, close, destroy | it is a bounded FIFO queue; every message has one owner; an unbuffered send returns when its message is taken. *Modelled: Channel, against MessageQueue* |
| **Reactor** (`runtime.tn` 2990-3225; `std/net.tn`) | the shared reactor's state word and handle, poller registrations, list of events nobody asked for yet | reactorShared, watch, unwatch, wait, waitFor; the retrying socket operations | it is made once; an event reaches the waiter of its descriptor whoever polls it, and nobody resumes for an event that is over. *Modelled in part: Reactor* |
| **Lowering to MIR** (`tn-typecheck/mir_lower.rs`) | blocks and locals under construction, loop targets, error contexts, scopes of managed locals | one per statement and expression form | every path marks storage, moves values and disposes of them as the source says. *Modelled in part: Lowering* |
| **MIR validation** (`tn-mir/validate.rs`) | initialised parts per block | graph, places, kinds, forward data flow | lowered bodies pass; a body that reads something uninitialised does not. *Modelled in part: MirValidation* |
| **Borrow checker** (`tn-typecheck/ownership.rs`) | per block: loans and moved places | forward data-flow analysis | what it accepts never reads a moved value or a dangling reference. *Modelled in part: OwnershipCheck* |
| **Drop elaboration** (`tn-mir/drop_elaboration.rs`) | live storage per block, drop flags of locals and their parts | flags beside moves and stores, drops at storage end, on edges, at exits | each value is destroyed exactly once, youngest first. *Modelled in part: DropElaboration* |
| **Code generation** (`tn-codegen-llvm`) | LLVM module | lowers each MIR instruction | a move, store, drop, call do what the MIR says; a value is matched and dropped as it was made; operators are exact or panic. *Modelled in part: CompiledBody, ValueLayout, Scalars* |
| **Typed errors** (`tn-mir/error_lowering.rs`, the error operations of `tn-codegen-llvm`, `lower_try` of `mir_lower.rs`) | the envelope of an error: its tag, its payload | throw, propagate, catch, rethrow | a clause gets errors of its type, everything is freed once. *Modelled: TypedErrors* |
| Barrier, mutex, rwlock, condition (`runtime.tn` 1990-2156) | `waiting`, `generation` | wait | the threshold-th arrival releases all. *Not modelled* |
| Raw promise (`runtime.tn` 3263-3409) | value or error, `waiters`, `consumed` | resolve, reject, wait, take, destroy | one completion, one taker, freed after the last waiter. *Not modelled* |
| Threads (`runtime.tn` 2367-2480) | handle, task block, result block | spawn, join, detach | result moved to the joiner or destroyed. *Not modelled* |
| Rc | Arc without atomics | the same | the same, for one thread. *Not modelled* |
| **Collections** (`std/collections.tn`) | slots, ownership bytes, length, capacity, head of a ring; slot states, `used` and sequence numbers of a table | those of Array, Queue, Deque, Heap, Map, Set, OrderedMap, OrderedSet, their growth, shrinking, iterators and disposal | a value has one place and is destroyed once; the answers are those of a row, a heap, a dictionary. *Modelled: Collections against Container, TypedTable against Dictionary* |
| Strings, formatting, paths, time | sequential data | - | *Only comparison, equality and hash of texts: Scalars* |
| Files, sockets, processes, console | descriptors | system calls | *Not modelled: pure I/O, but for the waiting on sockets* |
| Type checking (`tn-typecheck/bodies.rs`) | pure pass | - | *Only which operators a type has, and which errors may be thrown, handed on and caught: Scalars, TypedErrors* |
| Syntax, diagnostics, HIR, monomorphization | pure passes | - | *Not modelled* |
| **Driver caches** (`tn-driver/lib.rs`, `build.rs`; loading in `tn-hir`) | the cache file of checks and its temporary; the record beside a product | fingerprint, look, load, check, write, rename; look, load, emit, companions, record | an answer or product is what a run without a cache would give; what is unchanged is not compiled again. *Modelled: CheckCache, BuildCache, composed in Caches* |
| **Node-API bindings** (`tn-node-api`, the Node emitters of `tn-codegen-llvm`) | an addon's emitted code; blocks it allocates; queued work, deferreds | initializer, callbacks, finalizer, asynchronous work, conversions both ways | values arrive unchanged or are refused, nothing is freed twice, promises settle. *Modelled in part: NodeValues, NodeBridge* |
| CLI, language server, tests, fuzzing, scripts, frozen self-hosted compiler | - | - | *Not modelled* |

How they interact. `TaskGroup.spawn` attaches a promise to a group, retains it
and enqueues a task that refers to it; an executor worker calls `asyncWait` or
`asyncCancelQueued` on that promise and then completes the task in its group;
`TaskGroup.close` waits for the group and releases the promises. A promise's
body is a function the compiler generated: `await` in it becomes a MIR
`Suspend`, whose cancel edge must clean the frame. `Channel<T>` and `Arc<T>` are
ordinary values to the compiler, and their destructors are what elaborated drops
call. A socket operation that would block waits on the shared reactor, inside its
task's body. Lowering, validator, borrow checker, drop elaboration and code
generator communicate by the MIR body alone. An exported asynchronous function is
a promise of the runtime that a worker of Node's pool waits for. `tn check` and `tn
build` run these passes over the modules a graph loads, unless a cache answers.

Where the concurrency is: between the loads and exchanges of Arc; between a
runtime function's copy of a structure and its lock (promise, channel, barrier,
raw promise); between workers, openers of groups and cancellers; between the
tasks that poll one reactor for each other; between processes that share the cache
file of checks; between JavaScript and the workers of Node. Where failure is: thread starts,
refused spawns, interrupted polls, failing calls of Node, killed builds, errors and cancellations as edges of MIR
control flow. `PROJECT.json` lists each hazard at its line, with the properties
that cover it, or the reason why none does.

## 2. Modules

| Module | Models | Extends |
|---|---|---|
| `Arc` | Arc and Weak, one step per atomic operation | |
| `ArcProofs` | theorems about `Arc` | `Arc` |
| `TaskExecutor` | executor, groups and the code that opens and closes groups | |
| `TaskExecutorProofs` | theorems about `TaskExecutor` | `TaskExecutor` |
| `AsyncPromise` | one promise, its owner and its worker | |
| `AsyncPromiseProofs` | theorems about `AsyncPromise` | `AsyncPromise` |
| `MessageQueue` | what a channel promises: a bounded FIFO queue | |
| `Channel` | the channel and its wrapper; refines `MessageQueue` | |
| `ChannelProofs` | theorems about `Channel` | `Channel` |
| `Reactor` | the shared reactor and the operations that wait on it | |
| `ReactorProofs` | theorems about `Reactor` | `Reactor` |
| `Container` | what a row of values, or a heap, promises | |
| `Collections` | Array, Queue, Deque and Heap; refines `Container` | |
| `CollectionsProofs` | theorems about `Collections` | `Collections` |
| `Dictionary` | what a map promises | |
| `TypedTable` | the hash table and the four classes around it; refines `Dictionary` | |
| `TypedTableProofs` | theorems about `TypedTable` | `TypedTable` |
| `Mir` | the middle representation as ownership sees it | |
| `Lowering` | from source statements to a body | `Mir` |
| `MirValidation` | the validator, as operators on a body | `Mir` |
| `OwnershipCheck` | the borrow checker, as operators on a body | `MirValidation` |
| `DropElaboration` | drop elaboration, as operators on a body | `Mir` |
| `CompiledBody` | a body through validator, checker and elaboration, then its run | `OwnershipCheck`, `DropElaboration` |
| `ValueLayout` | values of all kinds in memory: built, tagged, matched, read, dropped | |
| `Scalars` | operators on values, and the built-in Ord, Equal and Hash | |
| `TypedErrors` | an error on its way up a chain of functions | |
| `NodeValues` | types, values and their conversions, as code that is emitted | |
| `NodeBridge` | an addon in a Node process | `NodeValues` |
| `SourceTree` | source files, their editing, and the loading of a module graph | |
| `CheckCache` | `tn check` in several processes, with its cache | `SourceTree` |
| `BuildCache` | `tn build`, with its record | `SourceTree` |
| `Caches` | both over the same files | `CheckCache`, `BuildCache` |
| `CacheProofs` | theorems about the caches | `Caches` |
| `MCCaches` | instance for TLC: processes check, or builds follow each other | `Caches` |
| `MCTasks` | a program uses a promise, or task groups | `AsyncPromise`, `TaskExecutor` |
| `MCLibrary` | a program uses one shared value, one collection, or one channel | `Arc`, `Collections`, `TypedTable`, `Channel` |
| `MCCompiledBody` | a program is compiled and run, or a variable holds values | `CompiledBody`, `Lowering`, `ValueLayout` |
| `MCProgram` | a compiled program uses promises and task groups, the Node bridge, the reactor, typed errors, or operators | `MCTasks`, `NodeBridge`, `Reactor`, `TypedErrors`, `Scalars` |

Components that do not interact are checked side by side in one run: the instance
chooses at the start which one is used (`Used`, `uses`), and the others stay as they
begin. The states of such a run are the sum of those of its parts.

The definitions of `PROJECT.json`'s `map` name the lines each one stands for.
Definitions marked *Mutant* are not part of any specification: each is a
plausible bug of the definition that follows, and shows that some property would
notice it.

### Arc
`strong` and `weak` are the header's counts; `arcs` and `weaks` are the objects
of the program whose reference is still counted, `implicit` the weak reference
the strong side owns together. Each runtime function is a loop of *load, test,
compare-exchange*, and each of these is an action (`RetainLoad`, `RetainCas`,
`RetainRetry`...); `*Begin` are the calls of `std/alloc.tn`, `Give` moves a
handle to another thread. `MaxCount` stands for `~0usize`: a call that would pass
it aborts. Downgrading relies on the caller's own strong reference, and upgrade
refuses a strong count of 0, as in the code.

### TaskExecutor
One action is one critical section, because executor and groups lock before they
read. `worker` says whether a worker is taking the lock, asleep, woken or busy;
`stage` follows a task from `spawn` to the release of its node; `opener` follows
the code that opened a group through spawn, enqueue, thread start, poll, wait
and release. `OpenedBy` lets a task body be that code, which is what nests
groups. `StartMayFail` lets `pthread_create` fail. Signals wake one sleeper,
broadcasts all, and conditions may wake for no reason.

### AsyncPromise
The runtime copies the whole `AsyncPromise` before it locks. `CopyPart` takes
the two parts the functions depend on in either order, the section then works on
the copy and stores it. Each thread runs a script of calls, those that
`TaskGroup.spawn`, `close` and `executorWorker` make. The variable `serial`,
chosen at the start from `Serialities`, forbids two calls from overlapping, so
that one run can say what holds with overlap and what needs its absence.

### Channel
Every operation copies the `ChannelState` field by field (`ReadField`), locks,
and writes the copy back. Begin reserves a slot and keeps the mutex while the
wrapper moves the message (`Store`, `Take`), Commit publishes and unlocks. `owner`
is the mutex, `readable` and `writable` the conditions. `sent`, `got`, `kept` and
`drops` are histories. `IsQueue` is the refinement of `MessageQueue`: the queue is
the window of `length` slots from `head`, and a receive takes effect when Begin
moves `head`.

### Reactor
`shared` and `handle` are `sharedReactorState` and `sharedReactorHandle`; the
steps of `reactorShared` (`Load`, `Claim`, `Create`, `Publish`, and the spin of
the others) are one atomic access each. A waiter tries its socket (`Operate`), and
if that would block watches it and polls until an event for it turns up
(`TakePending`, `StartPoll`, `PollAnswers`); what it polls for others goes to the
front of `pending` (`PollQueues`). `Unwatch` unregisters and clears what is left
for its descriptor, the rest of the list in its order; a poll that fails (`PollFails`) skips it, as the early return in
`std/net.tn` does. A poll holds the reactor's mutex while it waits. `available` and
`Happens` are the other ends of the sockets and the kernel's side, external.

### Collections and TypedTable
The classes share the shape of their fields, so `kind` says which one the program
made, and each class's operation is an action (`ArrayRemoveAt`, `PushFront`,
`HeapPop`). A slot holds a value or `Junk`, bits that are no value; `Put` and `Taken`
are the code generator's `store_element` and `move_element`, which set and clear the
slot's byte and destroy what is overwritten; for copied values the byte is never
set. `live` is the history of values given to the collection that still exist.
`Rehoused` is the loop of the four `reserve`s and `shrinkToFit`s; `Closed` the memory
moves of `removeAt`; sifting is the path of its swaps. An `outcome` records each
call's answer: `Container` allows those of a row, or of a heap.

`TypedTable` keeps the slot states (empty, full, tombstone), `used`, and for ordered
tables the sequence numbers. `slotFor` is the search; `insertPrehashed` includes
growing, and the destruction of a replaced value and of a key that came twice.
`shown` is the length and capacity the class around the table copies from it: not
every operation copies both. Keys have two copies each, equal and distinct. `Dictionary`
has one value per key and, for an ordered table, the relation of which key was inserted
`earlier`; TypedTable's full slots give both (`ValueOf`, `Earlier`). `resize` and
`Doubled` are loops, written as recursive functions of the slots and of the capacity.

### Mir, Lowering, MirValidation, OwnershipCheck, DropElaboration, CompiledBody
A source program is a tree of expressions and statements (`Call`, `Chain`, `Maybe`,
`Element`, `Let`, `Match`, `TryEither`, ...). `Lowered` turns it into basic blocks the
way `mir_lower.rs` does, block and local numbers included, because the borrow
checker's notion of "later" is the block number and a drop's order is the local's.
One recursive operator, `Lower`, is the recursive descent; the operator for each
form takes the part that is already lowered. `Valid` and `UninitializedUses` are the
validator, `Accepted` is `check_ownership` without its messages, `Elaborated` is
`elaborate_drops`; it leaves the instructions it adds on the edge or in the block
they belong to rather than in new blocks, which changes no path. A place is a local,
a part of one, an optional's payload or what a reference refers to, each with its
own drop flag where the code generator has one.

`CompiledBody` starts from any lowered body of `Bodies`; `Compile` is what the driver
does with it (refuse, or elaborate), and the rest executes it: conditions, errors and
cancellations go either way. The machine state is the bits of every part, its drop
flag, and what every reference refers to; next to it `owner`, `ends` and `disposals`
keep what the source means: which part owns a value, how often it ended, how often it
was disposed of.

`MCCompiledBody` makes its programs in sixteen families: control flow, pairs and
their parts, optionals, iteration, generators, `await using`, calls and methods,
closures, references, functions with a result, comparisons with lengths, templates and
construction, chains with optional chaining, JSX markup, switches with guards, tries
with several handlers, references to parts. A family takes every pair of its
statements after the same prologue, so that each (move, call, error, suspension,
exit, borrow) meets each other one inside each construct.

Programs left out, because accepted code goes wrong on them and the hazard that says so
is listed: assigning a field of a pair that was moved whole (the field leaks), an owned
payload taken by `??` or bound by a switch, suspensions inside an `await using` scope and
a try in one that does not handle an error, a generator that returns inside such a
scope, reading after a cancelled `for await`, one call that passes a reference and its
referent, self-assignment, and references that outlive the block of their referent.

### ValueLayout, Scalars, TypedErrors
`ValueLayout` has one variable of the compiled program: `holds` is its type, `content` its
memory, a word or a tree of slots, `objects` what instances of classes hold. The program
puts a value in (`lower_assignment`, which destroys the old one if the type
`type_needs_drop`), overwrites a field of an object, wraps the value in an optional or
a union, takes it out again, passes an object as one of its base class, and drops it.
`intended` is the value the program means; `blocks` are those allocated. `Read` finds
the value again the way a match does (tag, arm, place of each part), and
`lower_drop_value_at_pointer` gives the blocks the drop code frees. `ValuesKept` says
that both agree with `intended`. The losses it knows are named by `LossOf`: fields a
derived class adds when the object is dropped as its base class, and a struct that is
overwritten and needs a drop only for fields of a type parameter or for its own method.

`Scalars` computes: `ScalarsInit` chooses an operation and operands, one step gives the
`result`. Integers are bits, so that overflow, shifts and signs are what LLVM makes of
bits. `OperatorsExact` compares with arithmetic on integers; of the operators the type
checker takes, only the bitwise ones of floats may have no code. An operator that a struct
or class takes from an interface (`FromInterface`) is not its subject: the documents
promise it the interface's witness, which is `OperatorsHaveCode`, a property of its own that
run `interface_operators` refutes. `===` of two optionals
compares whether both hold a value, not the values; the property says so.

`TypedErrors` runs one chain of functions (`callers`), the deepest first. `moving` is the
envelope that travels, `binding` the variable of a catch clause, `remains` what nobody
freed. `WellTyped` are the rules of the type checker; a tag is the place of the type in
the sorted list of the function that throws, and is looked up in the list of the `try`.

### NodeValues and NodeBridge
The emitters of `tn-codegen-llvm` write the code of a callback once per signature. The
operators named for them (`CallbackCode`, `CompletionCode`, `FinalizerCode`, the
conversions) give that code as a sequence of instructions, already specialised to
the values of one call; `else` of an instruction is the code it goes on with when it
fails. `code` is what is left of what JavaScript runs: one piece at a time, `now` says
which. A call of Node or of the allocator fails or not (`Succeed`, `FailOnce`,
`Refuse`); `Access` takes, uses and frees memory, which is a set of blocks
`<<call, role, path>>`, and what is freed or used while not allocated is remembered in
`misused` (`EverythingFreedOnce`). Workers execute queued work (`Execute`, `Finish`), Node's loop completes it
(`Complete`), may cancel it, and collects objects JavaScript has let go of (`Collect`).
Node itself is external. Strings and bytes have no owner in the language and no block.
Widths of integers are scaled down (`Bits`), with their range tests and words.

### SourceTree, CheckCache, BuildCache, Caches
`versions` is what each source file holds. A check of one process goes through `Hash`
(one file at a time), `Look`, `Load` (one module at a time), `Check`, `Open`, `Write` and
`Rename` of the temporary file, whose name all processes share: `contents` has a
cell per file of the directory, so that a handle can outlive its name. A diagnostic
is stood for by the contents it is derived from. `WriteFails`, `HashFails` and `Exit`
are the failures passed over and the kill at any step. Edits come between any two
steps; `undoing` says whether files may go back to what they held, and then edits come
between checks only, since the code cannot notice an edit that is undone within one.

A build looks at its record, loads, emits the product (`Emit`, which may fail half way),
its companions and the record, and may be killed after each (`Leave`). One runs at a
time, and between builds files are edited and `Meddle` removes or overwrites what was
built. `settled` is a history: the setup that was built last, if nothing has
changed since. `Caches` puts the two side by side; neither writes what the other reads.

## 3. Runs

| Run | Instance | Shows |
|---|---|---|
| `library` | a shared value: 2 threads, 3 handles, counts up to 2. Rows: heaps of 5 values, some equal in order, the other classes up to 3 in blocks of up to 6 slots, copied or moved; tables: 3 keys with 2 copies, up to 16 slots; channels: one thread with capacity 2, producer and consumer with capacity 1, and unbuffered | counts equal references; the value lives while it is shared; the block is used only while it is there, and freed when nobody uses it; the destructor runs although others keep upgrading. Every value has one place; tables are sound: searches end and a key is in one slot; every message has one owner; `Container`, `Dictionary` and `MessageQueue` are implemented; a taken send returns |
| `compiled_body` | 5016 programs, runs of up to 8 values; or two values of 90 types | lowering makes valid MIR; what is accepted reads nothing uninitialised; each value is destroyed exactly once on every path, youngest first, disposed of before where it must be, never read after; references valid in bodies without loops; values are read and freed as they were made |
| `program` | a promise: the scripts of both threads, overlapping or not. Task groups: 3 tasks, 2 groups (one inside a body of the other), 2 workers, starts may fail. The bridge: calls of functions with every type at its bounds and outside, of asynchronous functions, of a class; up to 2 failures, 1 worker. The reactor: a task that reads one socket twice, one that writes another once, a thread that polls; one interruption. Errors: chains of three functions, 3 types. Operators: widths 3, 4 and 14, signed and not, texts of up to 3 bytes | without overlap the context is consumed once; either way no value before a body has ended, nothing touched after the free, and who slept while a body ran wakes. `active` counts the unfinished; a group is freed after its tasks; no lost wake-up; groups close, tasks complete. Nothing is freed twice or used after, only what is known to be kept is left; values cross unchanged or are refused; caller and callee agree on forms; promises settle. One reactor is made; nobody alone on its socket resumes in vain; an event reaches its waiter. A clause gets errors of its type. Operators other than those taken from interfaces are exact or panic; the functions of tables agree with them |
| `caches` | 2 processes that check, or builds of 2 setups; 2 files with 2 contents, 3 files in the cache's directory, 3 products | answers and products are of the sources as they are; what is unchanged is not compiled |
| `async_twice` | the promise's scripts, overlapping | *violated*: owner and worker both start the body |
| `async_await_stuck` | a task that is awaited while a worker runs it | *violated*: the await sleeps after the only broadcast and never returns |
| `executor_pool_exhausted` | 2 parents that each close a group of their own, 2 workers | *violated*: every worker waits inside `close()` and the children stay queued |
| `compiled_reference` | 9 programs with a reference a method returned | *violated*: it outlives its referent |
| `enum_numbers` | the types of `compiled_body`, matches asked to be right for every enumeration | *violated*: numbers other than 0, 1, ... select a wrong arm |
| `caught_as_thrown` | one chain, of a test of the repository | *violated*: the wrong clause runs |
| `text_hash` | texts with a byte whose highest bit is set | *violated*: they have no hash |
| `interface_operators` | the operators of `program` | *violated*: an operator a struct or class has by an interface compiles to nothing |

Violated runs are disagreements between the code and what the repository says
about it; `PROJECT.json` quotes them under `findings`. What only theorems state is not
checked again by a run: the type invariants of `Arc`, `TaskExecutor`, `AsyncPromise`,
`Reactor`, `Channel`, the collections and the caches, `PoolCounted`, `OneWorkerPerTask`,
`ExitAfterChildren`, `OutcomeIsFinal`, `CleanupOnce` and `SlotsMatchQueue`.

### Why the bounds are enough
* `library`, shared values: the counts interact by twos (a release and an upgrade, two
  releases, a downgrade and a dispose). A limit of two lets both counts reach the refusal,
  and at that limit no more than three objects exist at once, so three handles are all that
  can be used. Two upgrades that race with each other need a limit of three; that race, like
  every larger number of handles and threads, is left to the theorems.
* `program`, executor: a second worker is what can race for a task or a wake-up; three
  tasks leave one queued while two run; one nested group is what can block a
  worker. `MaxWorkers = 2` stands for 64 so that the pool limit is met.
* `program`, promise: the scripts are the longest that the library performs on one
  promise: spawn, await, drop, close, and the worker's one call.
* `library`, channels: with capacity 2 and four messages the ring wraps; capacity 1 and 0
  are the boundary cases; two threads are one per side.
* `library`, collections: three values in a ring of three or four slots meet every position of
  the head, before and after growth; five let a heap sift two levels both ways. The
  three keys begin their search at the last slot of eight, so that searches wrap,
  collide and pass tombstones, and elsewhere in other sizes. Tables have 8, 16 or
  9 slots, with and without a mask. The theorems remove the bounds.
* `program`, reactor: two descriptors are one's own and another's; two operations on one
  descriptor let an event of the first be left over for the second; the poller is the
  thread that takes events of any; `MaxPolls`, `MaxFailures` and `MaxPending` are 1,
  since a second poll, failure or queued copy repeats the first.
* `compiled_body`: see the families above. `MaxValues = 8` stops runs that make more
  values: straight-line programs make at most that many, and loops run at least twice.
  Types of values are all leaves and small types, and composites of two of them: code
  for a part depends on the part's type and its place only. Two values are what an
  assignment needs.
* `program`, bridge: every scalar type at both bounds and one past each; short arrays;
  two failures, since the first runs the code that undoes and the
  second meets a failure in that code; one worker leaves a second call queued;
  `Garbage` is what the stack may hold where Node wrote nothing.
* `program`, errors: a thrower, one that hands on, catches or rethrows, and one behind it;
  three types are two in a class hierarchy and a struct. The chains are those in which
  the lists agree in the numbers of what comes through, since others fail
  (`caught_as_thrown`).
* `program`, operators: all pairs of values of 3 and 4 bits, so that every carry, sign and
  shift occurs; 14 bits with values at the bounds, wider than the hash, which is 7 bits.
  Two bytes, equal or not, at each of three places, and shorter texts.
* `caches`: two processes are what can share the temporary file, and one more file
  than they can hold open lets a third be the cache. The entry imports the other module
  in one of its contents only, so that the graph itself changes; the other has an
  error in one content. Three products: two builds and a stranger's. The theorems
  remove these bounds.

### Fairness
* `Arc` (`FairUse` of `MCLibrary`): weak fairness of each thread's *running call*: a
  scheduled thread goes on.
  No thread has to start a call. A retry loop is not excluded from repeating, but
  an exchange only fails because another one succeeded, and handles are finite.
* `TaskExecutor`: weak fairness of each worker and of each opener's current call,
  and of `close`: the library closes groups with `await using`.
  Spurious wake-ups, cancellation and spawning are not fair. `GroupsClose` and
  `TasksComplete` say where every group and every task ends and stays, in runs that are not
  aborted and in which no thread start fails.
* `AsyncPromise`: weak fairness of each script; bodies end. It is enough for what a thread
  that sleeps while a body runs may count on (`SleeperWakes`), and an await that returns in
  all other cases too (`AwaitReturns`) is refuted under the same fairness.
* `Channel`: strong fairness of a thread inside an operation: one that waits for a
  mutex free again and again gets it, which POSIX schedulers provide in practice and
  no weaker assumption gives. Nobody has to start an operation.
* `Reactor`: weak fairness of each thread that runs; strong fairness of taking the
  mutex for the tasks that wait, as for channels; and strong fairness of each descriptor's
  report by a poll: epoll keeps ready descriptors in a queue and rotates it. Nobody has to
  send, and the free-standing poller goes on when it runs but need not get the mutex again.
* `NodeBridge`: weak fairness of begun code (V8 runs it to its end), of the workers and of
  completions. JavaScript need not make its next call, and collects when it likes.
* `Collections`, `TypedTable`, `CompiledBody`, `ValueLayout`, `Scalars`, `TypedErrors` and the
  caches have no liveness properties.

An instance that chooses between uses states the same fairness of the same actions, for
runs in which they are used (`FairUse`, `FairTasks`, `FairProgram`).

`CHECK_DEADLOCK FALSE` is set in every configuration: all of these systems stop by
design when the program has no more calls to make.

## 4. What is proved

`ArcProofs` proves, for every set of threads, every set of handles and every
`MaxCount` of at least 2 (assumption `ArcConstants`):

| Theorem | States |
|---|---|
| `Invariance` | the inductive invariant `IInv` |
| `TypeCorrect` | `TypeOK` |
| `CountsCorrect` | `CountsMatchHandles`: no update of a count is lost |
| `NoDanglingArc` | `ValueLivesWhileShared` |
| `HeaderFreedAtLast` | `FreedAtLast`: the block is there while it is used, and freed when it is not |
| `CleanupHappensOnce` | the action property `CleanupOnce` |

The argument. `CountsMatchHandles` alone is not inductive: a thread between load
and exchange must be known to work on an object it owns and that is still counted
(`CallsOwnTheirHandle`); a release that is about to store `current - 1` must have
read at least 1 (`ReleasesSawACount`); the weak reference of the strong side
must have one owner, the Arc objects together or the single thread that took the
count to 0 (`OneStrongSide`); and value and block must be in the phase that these
imply (`ValuePhase`, `BlockPhase`). `IInv` conjoins them. There is one lemma per
kind of step; `CountAdd` and `CountRemove` are the facts about cardinalities they
share. Only finiteness of the sets of counted objects is needed, and it is part of
the invariant, so the constants need not be finite.

`TaskExecutorProofs` proves, for every set of tasks, groups and workers, every nesting
of groups, every limit of at least one worker, with or without failing thread starts
(assumption `ExecutorConstants`):

| Theorem | States |
|---|---|
| `TypeCorrect` | `TypeOK` |
| `ActiveIsExact` | `ActiveCountsUnfinished` |
| `PoolIsCounted` | `PoolCounted` |
| `WakeupsReach` | `NoLostWakeup` |
| `OneWorker` | `OneWorkerPerTask` |
| `ExitIsLast` | `ExitAfterChildren` |
| `GroupOutlivesUse` | `NoUseAfterFree` |
| `OutcomesStand` | the action property `OutcomeIsFinal` |

The argument. A task is in one place at a time, and its `stage` says which: in a
spawner's hands (`SpawnersHoldTasks`), in the queue (`QueueHoldsQueued`), in a worker's
hands (`WorkersHoldTasks`), and from spawn to release in its group's list
(`ListsHoldSpawned`). A group's memory follows its opener, and an opener that releases
has seen `active = 0` (`GroupsFollowOpeners`); with `active` exact, a released task is a
complete one. The counters (`Counters`) are cardinalities of sets that grow and shrink by
one, hence finite although the constants need not be, and `NoLostWakeup` is inductive
with them: `executorEnqueue` appends one task and signals one sleeper, and a worker that
was woken takes one task or finds none.

`AsyncPromiseProofs` proves (assumption `PromiseConstants`):

| Theorem | States | For |
|---|---|---|
| `TypeCorrect` | `TypeOK` | any two sequences of calls, overlapping or not |
| `ValueIsWritten` | `ValueOnlyAfterBody` | the same |
| `ContextGoesOnce` | `ContextConsumedOnceSerially` | any two sequences, no two calls overlapping |
| `FreedOnceUnused` | `FreedAtLast`: nothing is touched after the free; and freed in the end, if no two calls overlapped | the scripts of programs (`Programs`) |

A thread works on a copy, so the invariant `Published` speaks of copies and answers as
well as of the promise: until a body has ended none of them says "ready"; `Calling` says
that a thread inside a call still has it in its script. `Serially` says what a call
that is alone may rely on, its copy is the promise, from which `ContextThere` follows:
while the state is 0 the context has not been consumed.

For memory the calls have to be those of a program: an arbitrary script may release
what it does not hold. `Programs` says that the owner awaits any number of times and
drops; or attaches the promise to a group, retains it, passes it on, uses and drops it
or not, and closes the group, while the worker makes any calls of wait and cancel. The
instance of the runs satisfies it. The argument is in four phases, `Alone`, `Attaching`,
`KeptByGroup` and `Closed`, whose disjunction `Kept` is inductive: overlapping calls can
lose a *count*, but none loses the *group's reference*, because each copy taken since the
attachment has it and only the group's release gives it up; so the promise is not freed
before that, and then the worker is done (`Polling`). Serially `refs` is exactly what the
rest of the script still gives up (`Counted`, `Owed`), which is 0 at its end.

`ReactorProofs` proves, for any number of threads, sockets, operations and failures
(assumption `ReactorConstants`), `TypeCorrect`, `MadeOnce` (`SharedOnce`) and
`ResumedForAReason` (`NotResumedInVain`). The invariant `Maker` follows the state word: 0,
nobody has begun and there is no reactor; 1, at most one thread is between claim and
publication; 2, it exists and nobody makes another; and whoever is past `reactorShared`
has seen 2. `Fresh` is about the events: one that is queued for a task alone on its
socket, or that it was just given, is still true of the socket, because what would make
it false is that task's own operation, and before the next one `Unwatch` has cleared what
was queued. `RemovedFrom`, `TailFrom` and `OrderedFrom` are the facts about the list.

`ChannelProofs` proves, for every set of threads, every capacity and every number of
messages, with uses that are `Disciplined` - a thread is alone at the channel, or a
sender and a receiver share one slot, or none -

| Theorem | States |
|---|---|
| `TypeCorrect` | `TypeOK` |
| `MessagesHaveOneOwner` | `OneOwner` |
| `SlotsAreTheQueue` | `SlotsMatchQueue` |
| `ChannelIsQueue` | `IsQueue`: the refinement of `MessageQueue` |

The hypothesis is what the type system enforces and more: with two slots and two threads
the theorems are false (section 5). The invariant conjoins `Placed` (what each place
of an operation implies for mutex, slot and message), `CopiesFresh` (a copy is out of date
in the length only, and only on the side where writing it back loses nothing), `Ring` (the
slots that own a message are the window from `head`, and one more while an operation is
between Begin and Commit) and `Owned` (each message handed over is in one slot, in one
hand, received, kept or dropped, which the history adds up). The refinement needs that window
as a sequence: `WindowGrows` and `WindowShrinks` say what moving `length` and `head`
does to it, and every other step stutters.

`CacheProofs` proves, for every number of processes, files, contents and setups
(assumptions `TreeConstants`, `CheckConstants`, `BuildConstants`):

| Theorem | States |
|---|---|
| `TypeCorrect` | the types of `CheckCache` |
| `ChecksAnswerCurrent`, `AnswersCurrentBesideBuilds` | `AnswersCurrent`, of checks and of the composition |
| `RecordIsTrue` | the types of `BuildCache`, and that a record tells what its product was made from whenever both bear the same stamp |
| `BuildsAreCurrent` | `BuildsAnswerCurrent` |
| `UnchangedCompilesNothing` | `UnchangedIsReused` |

Those about checks assume that all files are collected (`AllCollected`): a symbolic link or
a directory that is passed by is not fingerprinted, and the hazard is listed. In
their invariant, `EntrySound` says of every whole entry in the cache's directory, under
whatever name, that no file was loaded for it in an older state than its fingerprint tells,
nor, where contents come back, in a newer one; `Reading`, `Loading` and `Answering` say
the same of every process on its way there. So an entry with the fingerprint of the
present was loaded since then, and is of the present, however writes, renames and kills fell.
For builds, two products never bear one stamp, so a record and a product that agree are
of one build, and no edit fell between its load and its record.

`CollectionsProofs` proves, for any values and any order of them, any capacities and
lengths, copied or moved (assumption `CollectionsConstants`):

| Theorem | States |
|---|---|
| `Invariant` | the inductive invariant `IInv`, with the types of the state |
| `ValuesOwnedOnce` | `OwnedOnce` |
| `CollectionIsContainer` | `IsContainer`: the refinement of `Container` by all four classes |

The argument. `Holds(memory, capacity, First, Size)` says that the block holds values in
the `Size` slots from `First` on, going around its end, and that no other slot's byte is
set; for an array with an iterator the window begins at the cursor. The rest of `IInv` says
that `live` is the range of that row and that no value is in it twice (unless values are
copied), and that a heap is ordered. Lemmas say what each way of changing a block does to the
window and to the row: `PutLast`, `PutFirst`, `TakeFromFront`, `TakeFromBack`,
`Replaced`, `GapCloses`, `EmptiedIs`, `RehousedIs`. With `WholeStep` and `BecomesSo` each
operation then has a short lemma of its own. A heap's sift takes a path that is a function
recursive in the slots. That such a function exists and gives a path that ends where
the comparison stops (`PathsExist`, `PathsLead`) is proved by induction over what is left
of the way, which is drawn from the library's theorem on minimal elements, since its
induction rules are not usable here. From that come that rising and
sinking end (`RisesIs`, `SinksIs`), that moving values along a path permutes them
(`SiftKeeps`), that the heap is ordered again (`RiseOrders`, `SinkOrders`) and that its root
is a least value (`RootIsLeast`).

`TypedTableProofs` proves, for any keys, hashes and capacities, ordered or not
(assumption `TypedTableConstants`: hashes and capacities are natural numbers):

| Theorem | States |
|---|---|
| `TableInvariant` | the inductive invariant `TableInv`, with the types of the state |
| `TableIsSound` | `TableSound`: searches end, and keys and values are owned once |
| `TableIsDictionary` | `IsDictionary`: the refinement of `Dictionary` |

The argument. `Dictionary` speaks of keys, so the proof must know that the slot a search
ends in is the key's, wherever collisions and removals have put it. `Found` says that
no empty slot lies between the start of the search for a full slot's key and that slot;
`Unique` that no two full slots have one key; `Room` that `used` counts at least the slots
that are not empty and is less than all, so one is empty. None of the three is inductive
alone: `Found` survives an insertion because the slot taken is one the search came to
(`Ends`), and a removal because a tombstone is not empty; `Room` needs that growing comes
before an insertion, not after. From them `SlotForIs` draws what `slotFor` returns,
since the probes go once around a ring (`RingIs`). `FillKeeps`, `VacateKeeps` and
`ReplaceKeeps` say what the three ways of changing a slot do to all that. `ResizeIs` is by
induction over the slots that are moved, drawn from the library's theorem on minimal
elements: the function that moves them exists (`MovesExist`), and after m slots the new
block is well-formed and holds their entries (`MoveOne`). `used` starts again at the number of
entries there, which is why a target above the length is enough.
`Proper`, `OwnedOnceEach` and `OwnedCount` count the owners; `AddedView`, `ReplacedView` and
`RemovedView` say what a dictionary sees of each change. An iterator gives the entries in
order because what is left lies at its position or after it (`Ahead`) and sequence
numbers are distinct and below the next one (`Numbered`): `SelectedIs`, `FirstIs`.

### Checked by TLC only
* Liveness, everywhere: fairness and ENABLED are outside the prover's reach
  (`DroppedAtLast`, `GroupsClose`, `TasksComplete`, `SleeperWakes`, `TakenSendReturns`,
  `EventReachesWaiter`, `PromisesSettle`).
* Compiled bodies: the passes are recursive operators over programs.
* The Node bridge, `ValueLayout` and `TypedErrors`: conversions, layouts and class
  hierarchies recur over types.
* `Scalars`: bits of integers, which the provers have no theory of.

## 5. What the violated runs say

* **A pool of waiting workers.** `TaskGroup.close()` in a task body keeps its worker;
  `executorEnqueue` starts no worker past the 64th. With as many such bodies as
  workers nothing moves again.
* **A promise started twice.** `asyncWait` decides on a copy made before
  `pthread_mutex_lock`. Owner and worker can both see state 0.
* **An await that never returns.** The same copy may say 1, the body running
  (`runtime.tn` 1760). The worker then stores 2, broadcasts and unlocks; the owner locks,
  tests its copy and waits on the condition (1770-1772), which nobody signals again.
  `SleeperWakes`, which does hold, says where the line is: who went to sleep while the body
  was still running is woken by its end.
* **Operators of interfaces without code.** The type checker accepts `a + b` of two structs or
  classes that implement the interface of `+`; `lower_binary` has no path that calls the
  method and ends in `Unsupported`. `docs/implementation-status.md:358` says such an operator
  selects a named witness.
* **A reference that holds no loan.** A call's result gets the loans of the call's
  operands; the receiver operand is the owner itself, and the loan is held by the bound
  method. `let r = a.get(); a = new; use(r)` is accepted.

* **A tag that means something else.** An error's tag is its type's place in the sorted
  list of the function that throws it; a `try` looks it up in the sorted list of all the
  errors its block mentions. If another call in the block adds a type ahead of it, a
  wrong clause runs, on a value of another type.
* **Enumerations with numbers of their own.** A fieldless enumeration is built as its
  declared number, and `SetDiscriminant` then stores the variant's index over it; a match
  compares with the declared numbers.
* **A text that is not ASCII has no hash.** `bytesHash` adds each byte cast to `u64`; casts
  extend the highest bit whatever the type, so that a byte from 128 on is nearly 2^64,
  and the checked addition panics. Maps with such keys do.

More was met and is recorded as hazards with a note instead of runs of their own:
disposals skipped (the cancel edge of a suspension drops the scope's locals before the
block with their disposals, and the block for an error that no catch handles throws
without disposing), a payload with two owners (`??` and a binding switch read it with a
copy whatever its type), a receive on a channel with two or more slots that writes back a
`length` from before it had the mutex (in safe code `Channel<T>` stays with one thread,
its raw pointers make it neither Send nor Sync; alone, or with one slot, or without a
buffer and without the try forms, the copies are harmless, which run `library` shows), a
hole that the public `Array.takeAt` leaves inside an array, a lost state update by `asyncRetain`, contexts and captured values
not destroyed in two rare ways, a blocking receive that starts waiting after the only
signal, an idle count that lags behind signals, a spawn after cancellation that
aborts, a loan that ends at a loop's back edge, a self-assignment, a field assigned in a
pair that was moved away, a throw inside its own try, callbacks that free nothing once one
of their tests fails, results of methods and copies of borrowed arrays that nobody frees,
signatures whose two sides disagree on a form, a private field of an error that shifts
the public ones, the two zeros of a float that
are equal and hash differently, the losses of `ValueLayout`, a cache that does not see every input, an edit undone within one check.

Two documents say more than the code without any behaviour of a program depending on
it here: `docs/compiler-architecture.md:316` has every MIR transformation followed by a
validator, while the driver validates before the borrow checker only; and its section
12.2 has `instanceof` walk the chain of bases, while the code generator compares
descriptors for equality.

## 6. Abstractions

* Memory is sequentially consistent; Acquire/Release/Relaxed are not told apart.
* A copy that races with a store is taken field by field in any order; stores happen
  in one step under a mutex, so a torn store shows nothing that untorn ones do not.
* Payloads are identities. Allocation failure is modelled where the code goes on
  after it (`Construct`, thread starts), not in `channelCreate` and `asyncCreate`.
* A promise's body runs to its end inside one call, as `asyncWait` runs it.
* In the reactor an event is "in", "out" or "hup" of one descriptor; reads take all there
  is, so no level stays raised after an operation; allocation succeeds; the kqueue
  platforms are not modelled.
* The elements of collections are identities; a copied element has no owner. Stores
  into memory a caller reached through `atMut` or `getMut` are the caller's.
  Doubling is unbounded (sizes stay far below `usize`), hashes are fixed per key.
* The validator's tests that no two borrows have one region (`validate_regions`) and that
  calls fit signatures are left out of `MirValidation`: the bodies of the model have no
  regions and no types. So is the refusal of a partial move from a value that must move whole
  (`ownership.rs` 1067-1079) from `OwnershipCheck`: it needs a type with a drop of its own
  and fields of other owners, which no local of the model has.
* In compiled bodies values are of one type with a destructor, or plain, a pair of them,
  an optional one, a reference or a closure of one capture. A template stands for its one
  capture, an element has two properties, fragments build their children as a dynamic
  array, a switch is on an optional. Branch conditions are free. Indexing,
  casts, `instanceof` (on an owned value it clears the flag without a new owner),
  dereferencing assignment (`*r = v` does not destroy the old value), raw operations and
  panics are left out.

* In the bridge a callback is specialised to the values of its call; the text of names,
  property descriptors and messages is left out; numbers of JavaScript are integers.
* In `ValueLayout` leaves are words, owned texts and raw pointers; alignment, sizes,
  constants and generic instances are left out, and so is a constructor that throws, whose
  object stays allocated. `Scalars` leaves out the arithmetic of floats and
  checked casts. `TypedErrors` leaves out the drop of an envelope that
  nobody catches.
* A cache's fingerprint tells contents apart: collisions of the hash are left out. No two
  writes of a product give the same length and time of modification.

## 7. Plan

What is left that would add most, in this order:

1. **`TaskScheduler`**, an abstract specification of what spawning promises (each
   task runs or is cancelled, a group ends after its tasks), refined by
   `TaskExecutor`, with the step simulation proved.
2. **Indexing and dereferencing assignment** in `Lowering` and `CompiledBody`, for which
   places need a part that is not known statically.

## 8. Not modelled, and why

* **Barrier and raw promise.** Both copy their state before they lock, and the hazards
  are listed. But a `Barrier` holds a raw pointer and is not Send, so safe code never
  has two threads at one; and nothing in `src/std` calls the raw promise. No document
  says what either promises, so a model would have to invent the callers and the claim.
* **Threads.** One hand-over of a result block, by `join` or `detach`, each of which
  consumes the handle: there is no interleaving beyond that of `pthread_join`.
* **Mutex, rwlock, condition**: the C library's.
* **Rc**: Arc without interleaving.
* **`Array.takeAt` outside the iterator and `Map.nextEntry` on a map that stays in use**:
  both are public, and leave a hole or an old length behind; no document says what the
  next call should answer.
* **Strings, formatting and the front end** (syntax, HIR, types), but for what `Scalars` and
  `TypedErrors` take of them: sequential functions over data. Tests, snapshots and fuzzers reach them, and a model would repeat
  the code. The type checker's result, the kind of every local and the signature of every
  call, is an input of `Lowering`.
* **Monomorphization**: substitution of types, which changes no ownership.
* **Code generation** beyond the instructions of `CompiledBody`, the values of `ValueLayout`
  and the operators of `Scalars`: the ABI of foreign functions, debug information, linking.
* **Files, processes, the command line, the language server**: I/O around one run of the
  passes.
* `compiler-tn` is frozen and not part of the active build.
