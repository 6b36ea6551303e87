# A TLA+ verification project for quickjs-rusty-jit

The repository binds the QuickJS engine to Rust and adds an execution engine of its own: a compiler from
QuickJS's stack bytecode to register code, a virtual machine for that code, a template JIT for x86-64, three
loop recognisers that fold loops, and a process-wide cache of native code. These modules model that engine and
compare it with what the bytecode means; and they model the library around it: a Context with its promises, jobs, closures and
exceptions, the ownership of the engine's values by Rust variables, the conversions, and serde. Paths below are relative to the repository; `sys` stands for
`src/libquickjs-sys/src`.

## 1. Inventory

| Component | Source | State it keeps | Operations |
|---|---|---|---|
| Register compiler | `sys/compiler.rs` | pc, simulated stack height, emitted code, map from offsets to indices, jumps to patch | `compile_bytecode` |
| Register VM | `sys/register_interpreter.rs` | 256 registers, pc; the caller's locals; reference counts in the engine | `run_register_vm` |
| Template JIT | `sys/jit.rs` | the code of a function, in a `JitBuffer` | `compile_to_native`, then running it |
| Loop recognisers | `sys/jit.rs` | none (pure functions on register code) | `compile_constant_counted_loop`, `compile_branchy_modulo_loop`, `compile_bitwise_hash_loop` |
| Tiered call | `sys/register_interpreter.rs` | the frame's locals, handed from tier to tier | `js_register_interpreter`, called by a hook in `JS_CallInternal` |
| Native code cache | `sys/register_interpreter.rs` | `Mutex<HashMap<(hash, length), address>>`, shared by threads | lookup, insert (bounded), remove |
| Stack interpreter | `sys/interpreter.rs` | sp, pc, locals | `js_fast_interpreter` |
| Engine and glue | quickjs.c (a submodule, absent), `embed/extensions.c`, `sys/lib.rs` | the engine's heap | everything else |
| Context | `src/src/context/*.rs` | runtime, context, callbacks, module loader, the job queue in the engine | `new`, `reset`, `eval*`, `call_function`, `execute_pending_job`, `resolve_value`, `add_callback`, drop |
| Host callbacks | `src/src/callback.rs` | closures kept alive by the context; the arguments of a call | call from C, conversion of arguments and errors |
| Values and ownership | `src/src/value/*.rs` | one reference each on an engine value | clone, drop, extract, replace, properties, arrays, calls, iterators, promises |
| Conversions and helpers | `src/src/value/value.rs`, `utils.rs`, `value/bigint.rs` | none | `ToOwnedJsValue`, `TryFrom<OwnedJsValue>`, `create_*`, `ensure_no_excpetion` |
| Serializer | `src/src/serde/ser.rs` | root, current, a stack of half-built containers, the pending key | one method per data type, `to_js` |
| Deserializer | `src/src/serde/de.rs` | current, a stack of containers with the index of their next item | one method per data type, `from_js` |
| Compilation to bytecode | `src/src/compile.rs` | none | `compile`, `compile_module`, `run_compiled_function`, `to_bytecode`, `from_bytecode` |
| Module loader, console, errors, `bin/qjs.rs` | `src/src/*.rs` | none of their own | thin wrappers and I/O |

How they interact. The C interpreter calls `js_register_interpreter` with a function's bytecode, locals and
constant pool before it runs the function itself. The call looks for cached native code, else compiles the
bytecode to register code and that to native code, else runs the register code on the VM. Whatever tier runs
may answer `JS_UNINITIALIZED`: the next one, at last the C interpreter, then starts the function **from its first
instruction**, with fresh registers and with the locals as they are. The cache is the one piece of state several
threads share.

A Context is the one owner of an engine runtime and of one engine context. The host calls its operations, one after another;
the engine calls back into closures the Context keeps, and into `Context.context` itself: `resolve_value` hands the engine a
pointer to that field, which it overwrites at every job. Scripts reach closures and promises through the global object. Exceptions
wait in the runtime until some operation takes them. Values leave a Context as `OwnedJsValue`s, each of which owns one reference; `JS_SetProperty*`
takes that reference over. serde builds values and reads them through the same operations.

What is hard. (1) Register numbers are the heights of a stack simulated in one linear pass, so control flow and
expression stacks interact. (2) A tier that gives up may have changed the frame. (3) Registers own references
that no type keeps track of. (4) Widths: u8 and u16 fields, int32 overflow, numbers beyond 2^53. (5) Folded loops
must return what the loop would have. (6) The cache's lock is released between lookup, compilation, insertion,
run and eviction. (7) Jobs, promises, callbacks and exceptions outlive the call, and the engine context, they
belong to. (8) `resolve_value` gets its result from two global variables that older awaits write too. (9) References that the engine takes over,
also when an assignment fails, and handles that are copied. (10) A number changes its representation between Rust and the engine at i32, 2^53, i64 and
u64, a string at a NUL. (11) The serializer's stack beside `current` and `root`, with failures between two parts of a value; cycles and
shared parts in the deserializer. PROJECT.json lists each hazard at its line, with the
properties that catch it.

## 2. Modules

| Module | What it is |
|---|---|
| `JSValues` | values and arithmetic, once as the VM computes it (`vm_binary`) and once as JavaScript defines it (`js_binary`) |
| `Bytecode` | the stack bytecode as cells, one per byte |
| `StackMachine` | the abstract specification: what the bytecode means (`Promise`) |
| `RegCompiler` | `compile_bytecode`, both passes |
| `RegisterVM` | `run_register_vm` on the code RegCompiler emitted |
| `RegisterVMRefinement` | the mapping from registers to operand stack and the implementation of `StackMachine` |
| `NativeCode` | what `compile_to_native` emits, as it runs: the value of a recognised loop, else the templates |
| `TieredCall` | one call through all tiers, next to a run by the C interpreter alone |
| `LoopRecognisers`, `FoldedLoop` | the recognisers and folds; a recognised loop against the loop itself |
| `NativeCache` | threads that look up, compile, insert, run and evict |
| `Context` | one runtime, its contexts, promises, jobs, closures and exceptions; every operation of `Context` and of promises |
| `JSHeap` | values and containers with reference counts, as serde and the handles use them |
| `Serializer`, `Deserializer` | `to_js` and `from_js`, one action per call or request of a Rust type |
| `Serde` | a value through both, or a script's value through `from_js` |
| `OwnedValues` | `OwnedJsValue`, `OwnedJsArray`, `OwnedJsObject`, `OwnedJsPropertyIterator`: who owns which reference |
| `Conversions` | Rust types to values and back, as operators |
| `HostCallback` | a script's call of a closure, from its arguments to its result, error or panic; values through a type and back |
| `RegisterVMProofs` | theorems about `RegCompiler` and `RegisterVM` |
| `StackMachineProofs` | theorems about `RegisterVMRefinement` and `TieredCall`: the tiers do what the stack bytecode means |
| `NativeCacheProofs`, `ContextProofs` | theorems about `NativeCache` and `Context` |
| `JSHeapProofs` | lemmas about references in a heap of any size, and induction and recursion over numbers |
| `ValuesProofs`, `ConversionProofs`, `SerdeProofs` | theorems about `HostCallback` (with `OwnedValues`; with `Conversions`) and `Serde` (with `Serializer` and `Deserializer`) |
| `Assembler`, `SampleFunctions`, `SampleLoops`, `MC*` | bytecodes and constants for TLC |

Composition: `RegisterVM` EXTENDS `RegCompiler` (the code it runs is always code the compiler model emitted, never
one made up), `NativeCode` EXTENDS `RegisterVM` and has an instance of `LoopRecognisers` (the recognisers are tried before the templates), `TieredCall` composes all of them with two instances of
`StackMachine`, `FoldedLoop` composes `RegCompiler`, `LoopRecognisers` and `StackMachine`. `Deserializer` EXTENDS `Serializer` (it reads the
heap the serializer built) and `Serde` composes the two; `HostCallback` EXTENDS `OwnedValues` and `Conversions`, so that the actions of
all Rust variables interleave with the calls of closures. All of these EXTEND `JSHeap`. `Context` stands alone: what it needs to know of a value is
which promise it came from.

How state corresponds to code:

* `RegCompiler`: `pc`, `stack_height`, `reg_instructions`, `pc_to_inst_idx`, `jumps_to_patch` are the variables of
  `compile_bytecode`. One iteration of its `while` loop is one action; the iteration of the patching loop is another.
  `Emit` is the part all arms share. `Reject` is every `Err` of the first pass. The cells of a bytecode stand for
  its bytes: an opcode's cell carries its decoded operand, the cells of the operand bytes only say that they are
  operand bytes. The compiler never reaches such a cell as an instruction, because its first pass walks from
  instruction to instruction; a jump may name one, and fails to compile.
* `RegisterVM`: `vpc`, `regs`, `var_buf` are pc, regs and the frame's locals. `refs` is the reference count of the
  heap values of the constant pool, taken together; the pool's own reference makes it start at 1. `Balance` is what it is off by. `VMBail` is every place that
  frees all registers and returns `JS_UNINITIALIZED`.
* `RegisterVMRefinement`: `SourcePc` is the bytecode offset whose expansion contains the VM's pc, `SourceStack` the
  registers below the simulated height. A step of the VM inside an expansion is a stutter.
* `TieredCall`: `tier` says which tier has the frame. `FreshCode` is what may follow when no cached code ran or the cached code gave up: native code (recognised or from templates), or,
  when it cannot be compiled or mmap fails, what `should_fallback_to_c_after_native_miss` decides. `dirty` is a history variable: a tier gave up with locals
  written. The comparison run comes first and its result is kept in `expected`.
* `NativeCache`: `cache` is the map, `code` says which function's code each mapped buffer holds, and `step`, `fn`, `entry`,
  `owned` are the program counter and local variables of each thread's call. `retired` is a history variable.
  `CompileNative` is compilation and mmap; `LeaveScope` is `JitBuffer`'s Drop, which unmaps what was not forgotten.
* `Context`: `runtime`, `context`, `callbacks` are the fields of `Context`; `made` and `released` count `JS_NewContext` and `JS_FreeContext`.
  `globals` is what the script can name. `promise`, `told`, `reactions`, `jobs`, `exception` are the engine's; a job remembers the context it belongs to and,
  when it calls a closure, which one; `exception` is the number of the call that threw it. `slot` is the pair `__promiseResult`, `__promiseValue` of each context's global object, with what the
  code would take for a promise in the value. An operation that runs no loop is one action. `resolve_value` is `AttachResolver` and then one `ResolveFindsNoJob`, `ResolveRunsJob` or `ResolveThrows` per turn of its loop;
  when it finds that the promise was fulfilled, `CheckSlot` has it start again with the value, as the recursive call of `context.rs:332` does, until the value is none the code takes for a promise. What counts as one is any
  object with a function `then` or `catch` (`is_promise`): a promise of the engine, or a "thenable" of a script, whose `then`, if it has one, calls a handler at once, in a job or never, and returns something with a `catch` or not
  (`AttachThenable`; if not, a TypeError stays pending). `execute_pending_job` is a loop of `Drain*` actions. What a script does in a call (return, throw, make or settle a promise, queue a job, call
  closures) is chosen nondeterministically. `runtime = "crashed"` is an operation that handed a null context to the engine, the drop and the reset included (`WorkInNull`, `AwaitCrashes`). `abandoned`, `orphaned` and `dangling` are history variables
  that the properties need: promises whose await ended too early, a reset with jobs or functions left, closures entered after their end.
* `Serializer`: `ser` has the fields of the Rust struct (`root`, `paths`, `current`, `current_is_key`, `current_key`) and the heap; `tokens` is the sequence of
  calls so far, which describes the Rust value; `frames` is the part of the `Serialize` implementation that remembers which compounds are open. `SerializeEnd` is the
  `end` of all compounds, `ToJsReturns` and `ToJsFails` the end of `to_js` with the Drop of the serializer. `leaked` has the values that a release build neither stores nor frees.
* `Deserializer`: `de` has `paths` and `current` and, besides, what the type is in the middle of. When `tokens` is not empty the type is the one that wrote them,
  otherwise it is `deserialize_any` all the way down.
* `OwnedValues`: `host` says what each Rust variable owns, `heap` the containers and their counts, `raws` references held as raw `JSValue`s, `tables` the
  property tables of iterators with how often each was freed. `over` is a history variable: references given back once too often.
* `HostCallback`: `call` is the closure's call a script waits for, with the engine's `argv` and the `OwnedJsValue`s not yet converted; the closure's body is any
  sequence of actions of `OwnedValues`. `exchange` is a value on its way through a type and back.

Scaled widths. The bounds of i32, 2^53, i64, u64, i128 and u128 are constants of `Serializer` and `Conversions` of which only the order is assumed. `U8` is the number of values of a u8, a u16 has `U8^2` and an i32 `U8^4`; `MantissaBits` is the width of
a float64's significand. The compiler runs with `U8 = 4`, so that its fields wrap; the engines with `U8 = 16` (16-bit ints, sixteen registers), so that
code is indexed by a u16 and a stack can still outgrow the registers. Float64 values are integers rounded to `MantissaBits` bits, to the even one of two;
NaN and -0 are values of their own. Fractions and infinities are left out: no operator of the VM produces them from
the values of the model.

## 3. Runs

| Run | What it asks | Bounds |
|---|---|---|
| `MCRegCompiler` | does the compiler end, stay inside the slice and give every jump its target, for malformed code too? | all programs of up to 3 instructions over 27, whole and cut short; jumps from -4 to 9 |
| `MCRegisterVM` | does compiled code on the VM implement the stack machine, up to the last register, and where do reference counts go wrong? | straight-line code of up to 2 free instructions and an operator, conditionals, loops, `&&`; stacks of 12 to 18 slots, and more with `dup` and scratch, on 16 registers; every well-formed sequence of up to 4 of 14 instructions over a heap value: duplicated, dropped, stored, loaded, overwritten, compared |
| `MCTieredCall` | does the caller see the C interpreter's result? | functions that terminate, of all tiers, and loops of the three recognised shapes; those native code can be made for also start from a cached entry, and all without memory for native code |
| `MCNativeCache` | does every thread run the code it means to, and does the cache stay within its bound and forget only what gave up? | 2 threads, 3 functions of which 2 have one hash, 3 buffers, room for 1 entry |
| `MCFoldedLoop` | does a folded loop return what the loop computes? | 863 loops; 12-bit ints, 20-bit significands |
| `MCContext` | whose result does an await return, in which context does it leave the handle, does an await end, who frees a context, does a closure outlive its calls, when is the queue empty? | 2 promises, 1 closure, 2 engine contexts, 3 operations; about 310 000 states |
| `MCSerde` | does a value come back as it was written, are all references given back on every path, are cycles found and only cycles? | values of up to 3 parts over 12 numbers and 3 strings; all graphs of two arrays, objects or proxies with up to 2 elements; about 94 500 states |
| `MCValues` | are counts exact and tables freed once, do values survive a conversion and its inverse, where does a conversion panic? | 3 variables (symmetric), 2 containers with 1 entry, 1 iterator table; 8 types plain, in `Option`, `Vec` and `HashMap`, numbers on both sides of each bound; about 126 500 states |

The bounds are chosen so that each interesting case occurs: an expansion is at most four instructions long and looks
at two stack slots, so three instructions give every pair of neighbours and a jump over, into and out of each; the
functions of `SampleFunctions` reach every action of the VM and of the templates; loops move up, down, by steps that do
not divide the distance, start beyond the limit, overflow int32 in the accumulator. Three buffers let one function's
code be compiled by both threads while another is mapped; a single entry is always full when the other key arrives. Retired and forgotten buffers are never unmapped in the
program; in the model the buffers run out, which is the failed mmap of `CompileMisses`.
Two promises let the outcome of one be found by the await of the other, and one be fulfilled with the other; a third would only lengthen the chain. Two contexts let one reset succeed and one
fail; three operations are enough to leave a job that throws in the queue, abandon an await by it and await the second promise, to register a closure, leave a job that calls it and reset, and to call once more after an await (with one promise, five operations give the same answers). Three parts make a compound in a
compound with a scalar; two containers make a cycle of length one and two, a shared part and a proxy in each place. Two containers and three variables give a container
that holds another, a variable that overwrites it and one that iterates. `MaxAtOnce` keeps iterators, frozen containers and raw values from being multiplied with one another, not from being interleaved with
everything else.

Runs that TLC finds violated, each a disagreement between the code and a statement of the repository (PROJECT.json,
"findings"):

| Run | Property | What happens |
|---|---|---|
| `TernaryVM` | `ImplementsStackMachine` | `c ? a : b` leaves its value in another register on each path |
| `DirtyFallback` | `FallbackIsInvisible` | a tier gives up with a local written, the next one reads it |
| `RoundedLoop` | `FoldIsResult` | the exact sum of a loop whose running sums are rounded |
| `RefusedAssignment` | `CountsExact` | the engine has freed the value a frozen object refuses; the variable, "still managed" according to the comment above the call, frees it again |

More inputs and properties on which TLC finds the code to depart from what it is compared with are defined beside these. They are checked by giving the definition to the configuration named:

| Definition | In | Property | What happens |
|---|---|---|---|
| `ModBytecodes` | `MCRegisterVM.cfg`, in place of `MCBytecodes` | `ImplementsStackMachine` | `-4 % 2` is 0 and not -0, `INT_MIN % -1` is NaN (`sys/register_interpreter.rs:305`) |
| `ManyLocalsBytecodes` | the same, with `NumLocals = 17` | `ImplementsStackMachine` | a store to a local beyond a u8 goes to another one (`sys/compiler.rs:379`) |
| `EqualBytecodes` | the same | `ImplementsStackMachine` | two heap values of one content are unequal: halves of pointers are compared (`sys/register_interpreter.rs:389`) |
| `DropBytecodes` | the same | `NoReferenceStolen` | a dropped value is freed again when the run ends (`sys/register_interpreter.rs:221`) |
| `CompareBytecodes` | the same | `NoReferenceLost` | the operand that `===` overwrites is never freed (`sys/register_interpreter.rs:391`), although the ends of the run free all registers "to prevent leak" |
| `HashOperandLoops` | `MCFoldedLoop.cfg`, in place of `AllLoops` | `FoldIsResult` | a loop that shifts `i` is folded as if it shifted `hash` (`sys/jit.rs:749`) |
| `AliasedLoops` | the same | `FoldIsResult` | accumulator and induction variable are one local, folded as two (`sys/jit.rs:497`) |
| | `MCContext.cfg` | `AwaitReturns` | a promise fulfilled with an object that only has a `catch` is awaited for ever, although it is settled (`context.rs:332`; the comment at `:273` says that `resolve_value` returns the final value) |
| | the same | `ErrorsAreOwn` | the exception an earlier call left is reported by a later one that succeeded (`utils.rs:335`; the comment at `:333` says "when an error ocurred") |
| | the same | `NoClosureEnteredLate` | a job that a reset left in the queue calls a closure the reset dropped (`context.rs:167`; the comment at `:160` says "All state and callbacks will be removed") |

The passing runs of `ImplementsStackMachine`, `CleanFallbackIsInvisible` and `FoldIsResult` leave these inputs out and nothing else: `MCRegisterVM` has no conditional
expression that leaves a value on the stack at a join other than `&&`, whose heights agree, no `%` with a negative
operand and no product that is -0 (the integer path has no -0), no heap value compared with another of the same content, and no local beyond a u8; `MCTieredCall` and `MCFoldedLoop` have no loop that is folded to another number than it
computes. Heap values are dropped, stored away and overwritten in `MCRegisterVM`: `ReferencesDrift` says that the count goes wrong at just these instructions, each time by one; `NoReferenceLost` and `NoReferenceStolen` say that it does not go wrong, and fail on the functions above.
`CleanFallbackIsInvisible` is about calls without dirty locals.

What the properties of the library say is exactly where it departs from the plain expectation, and that it departs nowhere else:

| Property | The exception it names | In the code |
|---|---|---|
| `SettledValueIsItsOwn` | besides the outcome of the promise, and of those that its value leads to, that of another promise is returned when the await of that one ended too early: a job threw, the loop found the outcome of a third, or a thenable may call its handler again | `src/src/context/context.rs:285`: two global variables for all awaits; `:332` |
| `HandleIsCurrent` | after a thenable that answered before the loop began, on an empty queue, the Context is left with a null pointer, in which only `execute_pending_job` returns; after a reset with jobs pending it may work in the freed context | `context.rs:316`: the engine writes the job's context, or NULL, through a pointer into the Context |
| `ContextsFreedOnce` | a reset that cannot make a new context frees the old one twice | `context.rs:167-173` |
| `ClosuresOutliveCalls` | a reset with jobs or reactions pending, or with functions in the hands of the host, drops closures those still call; `NoClosureEnteredLate`, without the exception, fails | `context.rs:167` |
| `AwaitEnds` | a promise that no job settles, and a thenable, make `resolve_value` spin for ever; so may the value of a settled one, which is awaited in its turn (`AwaitReturns`) | `context.rs:295`, `:332` |
| `CountsExactUnfrozen` | once a script has frozen a container, assignments may be refused (`RefusedAssignment`) | `value/object.rs:86-105`, and the same in `array.rs` |
| `TablesFreedOnce` | a property iterator that was cloned frees its table once per clone | `value/object.rs:119` |
| `EchoKeepsValues` | text after a NUL, members with such names or called `__proto__`, fractions and numbers beyond i64 read as integers | `value/value.rs` |
| `PanicsAreKnown` | a BigInt small enough to be kept inside the value makes `create_bigint` fail and its caller panic; a HashMap looks its key up again by what is left of it at its first NUL, and finds another member or `undefined`, which aborts where a BigInt is wanted | `utils.rs:270`, `value/value.rs:714` |
| `ChangesAreKnown` | an i64 below the range of i32 is cut; `Some(None)` becomes `None` | `serde/ser.rs:180` |
| `RefusalsAreKnown` | integers beyond i32 are written as floats, which their own type does not accept; bytes | `serde/ser.rs:195` |

After a reference was given back once too often (`over` counts it), or a table freed twice, nothing is claimed of what follows: `Sound` guards the later steps of
`HostCallback`, so that the step that does it is checked and what undefined behaviour would do next is not. That the engine keeps BigInts in the range of i32 inside the value, and
that it asserts a BigInt where it prints one, is assumed of quickjs.c.

Fairness. `CompilerSpec`, `CallSpec` and `LoopSpec` assume weak fairness of the whole next-state relation: the code is a
loop of one thread that nothing suspends for ever. `NativeCache!Spec` assumes it of each thread's steps inside a call:
its lock is held only for a lookup, an insertion or a removal, and no thread keeps it. Nothing obliges a thread
to call. `Context!Spec` assumes it of `ResolveStep` and of `DrainStep`, the turns of the two loops, which run in the thread of their caller until they return; nobody has to call, no job has
to settle a promise, and `AwaitEnds` is therefore about promises that are settled or have a job in the queue that settles them. The queue
only grows while a script runs, so a bounded number of turns reaches that job. `Serde!Spec` assumes it of `Deserialize`, for the same reason. `CallEnds` is about functions the C interpreter ends; `Terminating` of `SampleFunctions` is that set.
`CHECK_DEADLOCK FALSE` is set where a call that has ended has no further step; `NativeCache` threads may always call again,
and are checked for deadlock. A Context ends with its drop or when the host calls no more, a conversion when its value is there, and the Rust variables of `MCValues` when a reference was given back too often; those
runs set it too.

## 4. Proofs

`RegisterVMProofs` proves of the compiler, for every set of bytecodes, every width and every length of code:

* `CompilerTypeCorrect`: `CompilerSpec => []CompilerTypeOK`. The compiler never decodes beyond its slice (`pc` stays in
  `0 .. Len(bytecode)`), the simulated height never drops below zero, and every field it emits fits its width.
* `CompilerJumpsStayInside`: `CompilerSpec => []JumpsStayInside`. The targets are known only in the second pass, so the property, which
  speaks of finished code, is not inductive. The invariant says of the code at any time that its jumps go to an index of it or to its
  end (0 before they are patched), that every index recorded for an offset is at most its length, and that every jump to patch is one of its
  instructions. The cast to u16 can only make an index smaller.
* `CompilerKeepsOrder`: `CompilerSpec => []ExpansionsInOrder`. Strengthened by: only offsets up to `pc` have an index, and those before it have
  one below the length of the code, because no expansion is empty.

The three come from one inductive invariant, `CompilerInv`.

On top of it, `CompilerJumpsReachTheirTargets`: `CompilerSpec => []JumpsReachTheirTargets`. The second pass finds an instruction by its index alone, so patching one
jump could disturb another. `JumpsInv` says that every pending jump comes from one translated offset, and that every translated jump is pending or already patched; two offsets never share
an index, because expansions are in order and not empty (`CompilerInv`), and hence a patch changes no other jump.

It proves of the register VM, for every bytecode, every number of registers and every width of ints and significands:

* `VMTypeCorrect`: `Spec => []VMTypeOK`. Most of it is arithmetic: `ToInt32` and `ToUint32` wrap, a shift stays in its width, a bit operation on two bit patterns is a bit pattern, a sum or a product is
  an int or a float the significand can hold (`Rounded`), and no branch of `vm_binary` leads out of the values of the engine.
* `VMPanicsOnlyBeyondRegisters`: `Spec => []PanicsOnlyBeyondRegisters`. The VM reads registers that the compiler numbered when it simulated the stack, so the invariant `CodeInv` says of every
  instruction, from the moment it is emitted, which offset of the bytecode it came from and that the registers it reads lie below the height there (`HeightAt`) and the scratch registers above it (`FromOffset`).
* `VMReferencesDrift`: `Spec => ReferencesDrift`, with no condition on what the code does with heap values. `Balance`, the count less what the pool, the locals and the registers hold, grows by one at an instruction that overwrites
  a heap value, shrinks by one at one that drops it or stores it away, and stays as it is at every other step, the ends of the run included. No invariant but the types is needed: each step is compared with what it does to the number of
  references in registers and locals (`CountChange`, `WriteCounted`), and the ends with the sum of what all registers give back. So the two ways in which a count goes wrong are the two the code has (`register_interpreter.rs:221` and `:231`; `:391`), and the number of times is
  the number of such instructions executed.

`StackMachineProofs` proves, for every bytecode, constant pool, number of registers and width:

* `VMImplementsStackMachine`: `Spec /\ []InScope => ImplementsStackMachine`. Each step of the VM is a step of the stack machine, a hand-over where the machine allows one, or leaves the machine where it is.
* `CallFallbackIsInvisible`: `CallSpec /\ []InScope /\ [](result = "ok" => FitsRegisters) /\ []FoldsAreExact => []CleanFallbackIsInvisible`. Whichever tiers a call went through before, and wherever they gave up, it returns what the C interpreter
  alone would have returned, a number perhaps in its other representation, as long as no tier gave up with a local written. (The run `DirtyFallback` shows what happens otherwise.)

The refinement is proved for code in the domain that `InScope` of `RegisterVMRefinement` describes, and each part of it is a place where the code departs from its reference, with the input that shows it:

| `InScope` says | without it |
|---|---|
| there are at most `U8` locals, `U16` constants and fewer than `U16` instructions | `ManyLocalsBytecodes`: numbers are cut to their field |
| `JumpsKeepHeight`: an instruction is reached at the same height of the stack by a jump as by the linear pass | the run `TernaryVM` |
| no `NegativeZeroDue`: no operation of two ints has the result -0 | `ModBytecodes` |
| no `EqualApart`: two different heap values that are compared differ in content | `EqualBytecodes` |

It is true in every state of the run `MCRegisterVM` (TLC checks it when it is added to `MCRegisterVM.cfg`). Overflow of ints, immediates cut in halves, floats, mixed operands, giving up in the middle of an expansion,
backward jumps and functions that need more registers than there are lie inside it. The argument:

* where the code is: `ExpandInv` says, from the moment it is emitted, that the instructions at the index recorded for an offset are the `Expansion` of the opcode there, at the height the first pass had. So
  every index of the code belongs to one opcode, and the next one begins where its expansion ends (`Layout`, `NextInstruction`);
* what is computed: `IntsFit` says that ints stay in 32 bits, and `SameResult` that on such operands the VM's arithmetic, which adds ints with an overflow check and falls back on floats, gives what the stack machine's, which
  computes in floats and narrows the result, gives, except where -0 is due. `PushIntIs` says that an immediate cut in halves is put together again;
* where the VM is: `There` (`WhereInv`) says that the VM is in an expansion, at its beginning or after k instructions of it, and `Mid` what the registers written so far hold. The operand stack of the machine is the registers below the height;
* step by step: one lemma for each group of opcodes (`OfPushImmediate` to `OfBranch`) says that a step inside an expansion leaves the machine where it is and that its last one is the opcode's step, a
  hand-over, or the end of the call. Steps of the compiler change neither.

The tiered call starts the same bytecode up to four times, in different machines, and compares ends that may lie far apart in time. What makes them comparable is that the stack machine is deterministic (`After`): a code has one
run from fresh locals, and what it ends with is one outcome (`IsRun`, `RunsAgree`, `OneEnd`). So `CallInv` speaks of one machine only: the run by which the call is judged, each tier (through the operand stack its registers stand for,
`TierState`), and the C interpreter after them are all at a state that this run comes to (`ComesTo`), until a tier gives up with a local written; a call that is done has the outcome the run ends with.

* a tier starts again at the first state of the run (`TierStarts`), because nothing the one before it wrote is seen: registers are fresh and no local was written;
* the register VM goes along the run by the refinement above;
* the code of a recognised loop returns the number the run ends with, perhaps as a float where the run has an int: that is `FoldsAreExact`, and hence the end of a call is one that `EndsLike` the run;
* the templates give up earlier than the VM, on floats and on an overflow, and does what the VM does where it goes on (`NativeRan`, `NativeOperates`). Both have `Ran` in common, and the lemmas about each group of opcodes (`RanIsExplained`)
  are about `Ran`; hence they hold of both.

Its hypotheses are `InScope`, as above, that a function the compiler accepted has the registers it needs (without them the VM itself panics, or cuts a register's number to its field), and `FoldsAreExact`: what a recognised loop is folded to is what the
loop computes. The last is an induction over the loop for each shape of it, which is out of the provers' reach, and it is not true of all loops: `RoundedLoop`, `HashOperandLoops` and `AliasedLoops` are three the code folds to another number. All three hypotheses are true in every state of the run `MCTieredCall`
(TLC checks them of it when a module extends both `MCTieredCall` and `RegisterVMRefinement`), and `MCFoldedLoop` compares 863 loops more.

The proof attempt corrected the model again. `RoundF64` looked for the exponent of a rounded number in `1 .. MantissaBits`, where the product of two wide numbers has none, so the choice was of no
value at all; it now looks as far as the number is long. `HeightAt` was defined through the choice of the instruction before, which nobody can unfold without knowing that there is one; it is now the running sum that the first pass
computes. And what the bytecode names in the frame, constants and locals, is now an assumption (`OperandsAssumption`), because the Rust code indexes both through raw pointers; so is that an int of the pool and an immediate are i32.

`NativeCacheProofs` proves, for any number of threads, functions and buffers, any hash and any bound, from the inductive invariant `CacheInv`:

* `CacheTypeCorrect`, `CacheRunsMappedCode`, `CacheStaysBounded`, `CacheKeepsRetiredOut`: the invariants of the run.
* `CacheKeepsSteady`: the action property `SteadyStaysCached`.

`RunsMappedCode` speaks only of threads about to run; the strengthening follows an address from where it comes from. A published address, and
one that a call holds, is mapped and holds code of its key (`CachedMapped`, `EntryMapped`). A `JitBuffer` is owned only until it is forgotten, and no scope is
left before (`OwnedUntilForgotten`): hence nothing is ever unmapped. A buffer not yet inserted is known to one thread only (`FreshIsPrivate`),
so it cannot be retired before; code being evicted is code that gave up (`EvictedGaveUp`).

`ContextProofs` proves, for any number of promises, closures, engine contexts and calls:

* `ContextTypeCorrect`: `Spec => []ContextTypeOK`, by `ContextInv`: besides the types, a job that settles has a promise, one that calls has a closure, what a script can name exists, and an
  operation in progress has a live runtime.
* `OkMeansTheQueueIsEmpty`: `[]OkMeansDone`, inductive as it stands.
* `NoClosureCalledLate`: `[]ClosuresOutliveCalls`, by `OwnedInv`: as long as no reset left jobs behind, everything in the queue and every reaction involves kept closures and the current context only.
* `ContextsAreFreedOnce`: `[]ContextsFreedOnce`, by `FreedInv` on top of it.
* `HandleStaysCurrent`: `Spec => HandleIsCurrent`, by `AwaitInv`: when the loop of `resolve_value` finds an outcome before it ran a job, a thenable has told it; else its last job was one of the current context.

The steps are first traced back to a few effects (`Steps`). One predicate, `EngineOK(B, C)`, says that queue and reactions involve closures of B and contexts of C alone, and one lemma
that every step of the engine preserves it; type correctness takes all closures and contexts for B and C, ownership the kept closures and the current context.

Its second part adds `AwaitsGetTheirOwn`: `Spec => []SettledValueIsItsOwn`. The slot is written by the handlers of every await there ever was, so the invariant `SettledInv`
follows the handlers. `Fits` says that each handler in a reaction or a job belongs to a promise whose await was abandoned and speaks of an outcome that promise told;
`Once` allows one exception while an await is in progress, a single element of the queue or of the reactions, which belongs to the promise awaited now. `RunJobOnce` shows that
this element stays single on its way from reaction to `then`, or to `pass` and `catch`, and is gone when it has spoken. So what a slot says of a promise is true (`SlotInv`), and the promise it speaks of is the one that is awaited or an abandoned one (`WaitInv`). `ChainInv` follows the recursion: what is awaited is `Reached` from the promise
the call was given, over values of fulfilled promises; so is what the call returns in the end (`TrueAnswer`).

`JSHeapProofs` has what the next three share. The references a heap holds of a container are a cardinality over all entries of all containers;
`HeldSplit` and `HeldChanges` say how it changes when one container does. The provers cannot instantiate the library's induction theorems, so `Induction`, `Recursion` and `Reached` state induction over `0..N`,
and that a recursively defined function exists and satisfies its equation, as first-order facts about a set or a function; they follow from `Least`, that every set of numbers has a least element.

`ValuesProofs` proves, for any number of variables, containers, entries, iterators, tables and arguments of a call:

* `ReferencesAreAccounted`: the inductive invariant `Accounted`. Whatever a variable, a raw value, an entry, or the call in progress names is a container there is; the count of each container is
  `External` (what is held outside the heap) plus `HeldInHeap`, less `over`, the references given back once too often.
* `CountsAreExact`: `[]CountsExactUnfrozen`, from it and `NoneRefused`: as long as nothing is frozen no assignment has been refused, and `over` is zero everywhere.
* `TablesAreFreedOnce`: `[]TablesFreedOnce`, by `TablesAccounted`: for each table, as long as no iterator over it was cloned, users and frees together are one.

The property alone is not inductive. `FreeValue` is a sweep: a container whose count reaches zero is taken apart and what it held is given back in turn, so the lemmas follow a reference on its way between the
places it may be in, and `FreeValueBalanced` is an induction over the sweep with a heap in which one reference is held by nobody. A refused assignment gives one back twice, which `over` and the guard `Sound` separate
from the other steps; a call frees its arguments in order, which is again an induction (`FreeAllBalanced`).

`ConversionProofs` proves, for all widths of the integers, and for arrays, objects and HashMaps of any size whose elements are plain values:

* `ExchangesAreTraced`: the inductive invariant `ExchangeInv`. An exchange holds what was sent, or what the first conversion of it gave, or what the second gave of that; a status that ends it is the one of the
  conversion that failed.
* `PanicsOfConversions`: `[]PanicsAreKnown`, and `ConversionsKeepValues`: `[]EchoKeepsValues`.
* `HostTypes`: `[]HostTypeOK`, from `Accounted` and `ExchangeInv`.

The invariant only names the results of the two conversions; what those are is the substance of the proof. `Decided` says how a list of results becomes one, and `VecRead`, `MapRead`, `VecWritten` and `MapWritten` that the
conversions of containers decide so, in an order of a HashMap nobody knows (`SomeOrder`). `Present` and the object a HashMap becomes are recursive functions, of which an induction gives what matters: the elements
found, and the members of the object (`PresentFrom`, `MapNodeIs`). Then each shape of a type has one lemma per direction that says with which status the first conversion and the second end (`VecReadsWell`,
`MapEchoesWell`, ...), one that what Rust sent comes back (`MapComesBack`), and one that a script's value does (`MapEchoKept`). The last rests on `NameSeen`: where the iteration over an object ends early, because a
getter throws, no member with an ordinary name is lost unless the conversion panics. `Present` is written as a function rather than with `SelectSeq`, which the provers cannot unfold.

The proof attempt corrected the model twice. `TryMap` went on after a member whose own value throws, whereas the iterator in `object.rs` does not get past it and the loop of `try_from` ends; and
`PanicsAreKnown` did not know of the abort after a key with a NUL, which no object of the run had shown. `MCValues` now has such objects.

`SerdeProofs` proves, for Rust values and graphs of containers of any depth, length and sharing, any set of numbers and all widths, with and without debug assertions:

* `CountsOfContainersAreExact`: `[]ReferencesExact`, on every path, failing ones included.
* `OpenContainersAreAPath`: `[]SpineIsAPath`.
* `OnlyKeysFail`: `[]FailsOnlyForKeys`, the part of `RefusalsAreKnown` about `to_js`.

* `EngineValuesAreTyped`: `[]SerdeTypeOK`, with `from_js` included: its path never runs empty under a compound that is open.
* `CircularMeansCyclic`: `[]CircularIffCycle`.

The first three come from one invariant, `SerInv`. `set_node_value` keeps the counts only if it finds a place for its value or fails properly, and whether it does depends on `current`, its kind and the pending key, which no
count knows of. So `Building` ties the serializer to the compounds of the Rust value around the next call (`frames`): compound number i has its container in the spine at `Depth`, two deep for a tuple or struct variant;
that container is an array just when the compound is a list; a key is pending just when the compound waits for the value of a member; and a prototype was set only if the compound has a member called `__proto__`, which
it then has once, so that no reference to a prototype is overwritten. The spine stays a path because a new container is
younger than all others, so that the ones on it are distinct and storing into the current one changes no other.
`from_js` changes nothing of this.

The other two rest on a second invariant, `DeInv`. `Safe` says that the path of the Deserializer is a walk of distinct containers from the root, each read at the place where the one before is being read, and that it is as long as the
compounds in progress ask for (two deep for a variant with fields). Then a container that is met again closes a cycle that a value can be read along, however long (`WalkCloses`), and a compound that ends always has a container to leave.
The converse is about what was read and is no longer on the path. For a type that takes any value, `Surveyed` says that there is a set of containers read to the end, each ranked above everything it leads to, and that all entries before the
current one of each container on the path lead into that set; when the root is in it, no cycle can be reached (`RankedIsAcyclic`). A type that reads only one part of a value is used on what `to_js` wrote of the same type, and
that is a tree: a container leads to later ones only (`Ascending`, which every step of `to_js` keeps, and which orders all of it at once). `get_proxy_target` follows chains of proxies; that it ends, and at a container
that is no proxy, is an induction over their age (`TargetIs`). `Reach` is a recursive function, whose equation comes from `Recursion` of `JSHeapProofs`.

The proof attempt added an assumption the model had made silently, that a text is no number (`TextIsNoNumber`): the number of a container could otherwise be taken for the name of a variant.

They assume what the modules assume of their constants: `U8` at least 2, an int at least one bit and narrower than the significand,
bytecodes that are sequences of cells and name constants and locals there are (QuickJS numbers both; neither the compiler nor the VM checks), a constant pool numbered from 0, whose ints and the immediates of the bytecode are of 32 bits; a hash that is a function of the bytecode, finitely many
keys, and a null address that is no buffer; at least one engine context, promises and closures that are distinct things and none of them `None`. `None` is no number, no string and no value either; there are
finitely many Rust variables; what is exchanged is a value of a script, or a Rust value in the range of its type, the names of an object's members differ, and `None` and the string with a NUL are no numbers; the widths are ordered as those of Rust are, the bound of u64 being twice that of i64 and one, and a number is in the range of its kind; a graph of a script is well formed, and every proxy in it is younger than its target
(a proxy is made of an object there was before). Each proof is laid out as an initial-state lemma, one lemma per action or group of
actions with one step per conjunct of the invariant, and the temporal step.

Only model-checked: of the tiered call, its types (`CallTypeOK`), because the C interpreter also runs what the compiler rejects, and that its operand stack never underflows there is a promise of QuickJS about its bytecode which nothing in this
repository states; the folds (`FoldIsResult`), which
compare a closed form with a loop, an induction over the loop for each shape of it; of serde, what changes on the way (`ChangesAreKnown`) and which types refuse what (`RefusalsAreKnown` for `from_js`), because both
compare a value with what a type reads of it at the other end of two stacks; and everything that is liveness (`CompilerEnds`, `CallEnds`, `CallsEnd`, `RecognisedLoopsEnd`, `AwaitEnds`, `FromJsEnds`), because the provers installed cannot do liveness under fairness or ENABLED.

## 5. Not modelled

* The encoding of x86-64 instructions, mmap and mprotect, tracing.
* quickjs.c: it is not in the tree. `StackMachine` is what the Rust code relies on it for, and marked external where no Rust code
  implements the same opcode.
* `js_fast_interpreter`: the meaning of its opcodes is `StackMachine`'s; its write-back of sp and pc and its reference counts are not modelled.
* Values: the counts of strings, symbols and BigInts (owned and freed exactly as containers are), atoms, dates, symbols, `PartialEq` and Debug. Functions, promises and
  modules are values to `OwnedValues` and operations to `Context`.
* Closures: what their bodies do beyond the operations of `OwnedValues`, and custom callbacks' work on raw values, which is their author's unsafe code.
* Context: scripts that assign to the three names of the helper script of `resolve_value`; a thenable that calls its handler more than once in one await; getters of a thenable that change what it is between two reads; functions the host keeps across a reset, other than those of closures;
  what a host that goes on in a null context would do after the crash.
* Four hazards PROJECT.json lists have no property, for the reasons given there: buffers forgotten in the native code cache, two functions of one hash, an exception
  reported by a later operation, clones of a property iterator.
* The leak of a half-built array when an element's conversion panics, and serde's borrowed strings.
* Limits of memory and stack, the interrupt handler and the promise-rejection hook: they are handed to the engine. The Builder holds no state of its own.
* Module loader: reading files and resolving paths are I/O of its user; that a loader fails in the middle of an import is part of `Context`. Console: formatting. The
  command line shell, error types and their texts: no state. The bytes of `to_bytecode` are opaque.

## 6. Plan

Built first, in this order: `JSValues`, `Bytecode`, `RegCompiler` (with proofs), `StackMachine`, `RegisterVM` and its refinement, `NativeCode`,
`TieredCall`, `NativeCache` (with proofs), `LoopRecognisers` and `FoldedLoop`.

Then, above the engine: `Context` (with proofs), `JSHeap`, `Serializer`, `Deserializer` and `Serde`, `OwnedValues`, `Conversions` and `HostCallback`, and the proofs about values, conversions and serde; last, the proofs about the register VM and the tiered call.

Left to do:

1. `FastInterpreter`: `js_fast_interpreter` with exact reference counts and its write-back of sp and pc, shown to implement `StackMachine`.
2. Proofs: `CallTypeOK`, from an assumption that states what QuickJS promises of the heights of its operand stack; exactness of `checked_counted_iterations`.
