------------------------------- MODULE Context -------------------------------
(***************************************************************************)
(* Context of src/context/context.rs: one engine runtime with its queue of *)
(* jobs, the engine context the host works in, the closures behind its     *)
(* host functions, and the operations that await a promise by running      *)
(* jobs.  A host calls one operation after another; the jobs of the queue  *)
(* run only inside resolve_value and execute_pending_job, one per step.    *)
(*                                                                         *)
(* What a script or a function of the engine may do is chosen at each      *)
(* call: return a value, throw, queue a job, return a promise.  What       *)
(* resolve_value takes for a promise is one of the engine or any object    *)
(* with a function then or catch; a plain value is known by the promise    *)
(* that told it.  Scripts leave the three names of the helper script of    *)
(* resolve_value alone.                                                    *)
(***************************************************************************)
EXTENDS Integers, Sequences

CONSTANTS
  Promises,           (* The promises and thenables scripts may make.        *)
  Callbacks,          (* The closures the host may register.                 *)
  MaxContexts,        (* Bound: engine contexts made by one Context.         *)
  MaxCalls,           (* Bound: operations the host calls.                   *)
  None                (* A null pointer, nobody, nothing.                    *)

ASSUME ContextAssumption ==
  /\ MaxContexts \in Nat \ {0} /\ MaxCalls \in Nat
  /\ None \notin Promises \cup Callbacks \cup Nat
  /\ Promises \cap Callbacks = {}

VARIABLES
  runtime,            (* "none", "live", "freed", or "crashed".              *)
  context,            (* Context.context.                                    *)
  made,               (* How many engine contexts were made.                 *)
  released,           (* How often JS_FreeContext was called on each.        *)
  callbacks,          (* Context.callbacks.                                  *)
  globals,            (* What scripts of the context can name: host          *)
                      (* functions, by their closures, and promises.         *)
  promise,            (* State of each promise; "thenable" is an object of a *)
                      (* script with a function then or catch.               *)
  told,               (* Outcomes each of them told its handlers.            *)
  reactions,          (* What is registered on each pending promise.         *)
  jobs,               (* The runtime's queue.                                *)
  exception,          (* The call in which the pending exception was thrown. *)
  slot,               (* __promiseResult and __promiseValue of each context. *)
  call,               (* The operation in progress.                          *)
  calls,              (* How many were called.                               *)
  answer,             (* What the last one returned.                         *)
  abandoned,          (* Promises whose await ended before their outcome, or *)
                      (* that may call their handler again.                  *)
  orphaned,           (* A reset left jobs of the old context behind.        *)
  dangling            (* Closures entered after they were dropped.           *)

engine == <<promise, told, reactions, jobs, exception, slot, dangling>>
handle == <<runtime, context, made, released, callbacks, globals, orphaned>>
host == <<call, calls, answer, abandoned>>
vars == <<engine, handle, host>>

Contexts == 1..MaxContexts

-----------------------------------------------------------------------------
(* The engine: promises, reactions and jobs.                               *)

Outcomes == {"fulfilled", "rejected"}

(* What a promise tells: value is what the code would take for a promise   *)
(* in its turn, None any other value.  Reasons are never awaited.          *)
Outcome(o, v) == [outcome |-> o, value |-> v]

Job(kind, p, c, b, v) ==
  [kind |-> kind, promise |-> p, context |-> c, callback |-> b, value |-> v]
JobKinds ==
  {"fulfil", "reject", "throw", "then", "pass", "catch", "host", "idle", "answer", "refuse"}

(* The resolver of resolve_value, and host functions on a promise: on says *)
(* which function, if any, hears of which outcome.                         *)
Resolver(p) == [kind |-> "resolver", promise |-> p, context |-> context,
                on |-> [o \in Outcomes |-> None]]
HostReaction(p, on) == [kind |-> "host", promise |-> p, context |-> context, on |-> on]

(* Mutant: the handler of the other outcome is not left out.               *)
Fire_NoHandler(r, t) ==
  Job(IF r.kind = "host" THEN "host" ELSE IF t.outcome = "fulfilled" THEN "then" ELSE "pass",
      r.promise, r.context, r.on[t.outcome], t.value)

(* The job of reaction r when its promise tells outcome t.  The resolver   *)
(* is then(f).catch(g): a rejection reaches g one job later.               *)
Fire(r, t) ==
  Job(CASE r.kind = "resolver" -> IF t.outcome = "fulfilled" THEN "then" ELSE "pass"
        [] r.kind = "host" -> IF r.on[t.outcome] = None THEN "idle" ELSE "host",
      r.promise, r.context, r.on[t.outcome], t.value)

(* A settled promise of the engine has told its outcome, once.             *)
Attach(r) ==
  IF promise[r.promise] = "pending"
    THEN /\ reactions' = [reactions EXCEPT ![r.promise] = Append(@, r)]
         /\ UNCHANGED jobs
    ELSE /\ \E t \in told[r.promise] : jobs' = Append(jobs, Fire(r, t))
         /\ UNCHANGED reactions

OutcomeOf(job) ==
  IF job.kind \in {"fulfil", "answer"} THEN Outcome("fulfilled", job.value)
  ELSE Outcome("rejected", None)
Fired(p, t) == [i \in DOMAIN reactions[p] |-> Fire(reactions[p][i], t)]

(* Mutant: __resolvePromise without its catch.                             *)
Spawned_NoCatch(job) ==
  IF job.kind \in {"fulfil", "reject"} THEN Fired(job.promise, OutcomeOf(job)) ELSE <<>>

(* The jobs a job queues; those of __resolvePromise are links of its chain.*)
Spawned(job) ==
  CASE job.kind \in {"fulfil", "reject"} -> Fired(job.promise, OutcomeOf(job))
    [] job.kind = "then" -> <<[job EXCEPT !.kind = "idle", !.value = None]>>
    [] job.kind = "pass" -> <<[job EXCEPT !.kind = "catch"]>>
    [] OTHER -> <<>>

(* The handlers of __resolvePromise; a thenable calls them from a job of   *)
(* its own.                                                                *)
Slot(result, p, v) == [result |-> result, value |-> p, inner |-> v]
SetSlot(job) ==
  slot' = [slot EXCEPT ![job.context] =
             CASE job.kind \in {"then", "answer"} -> Slot("true", job.promise, job.value)
               [] job.kind \in {"catch", "refuse"} -> Slot("false", job.promise, None)
               [] OTHER -> @]

(* A promise is settled once; doing it again changes nothing.              *)
Settle(p, t) ==
  IF promise[p] = "pending"
    THEN /\ promise' = [promise EXCEPT ![p] = t.outcome]
         /\ told' = [told EXCEPT ![p] = @ \cup {t}]
         /\ reactions' = [reactions EXCEPT ![p] = <<>>]
    ELSE UNCHANGED <<promise, told, reactions>>

(* JS_ExecutePendingJob on a queue that is not empty.                      *)
RunJob ==
  LET job == Head(jobs) IN
  /\ jobs' = Tail(jobs) \o Spawned(job)
  /\ SetSlot(job)
  /\ CASE job.kind \in {"fulfil", "reject"} -> Settle(job.promise, OutcomeOf(job))
       [] job.kind \in {"answer", "refuse"} ->
            /\ told' = [told EXCEPT ![job.promise] = @ \cup {OutcomeOf(job)}]
            /\ UNCHANGED <<promise, reactions>>
       [] OTHER -> UNCHANGED <<promise, told, reactions>>
  /\ dangling' = IF job.kind = "host" THEN dangling \cup ({job.callback} \ callbacks)
                 ELSE dangling

(* What may be pending after the job.  A host function of a reaction may   *)
(* fail: the engine takes its exception, and any that was pending before,  *)
(* to reject the promise of the reaction.                                  *)
LeftByJob == {exception} \cup (IF Head(jobs).kind = "host" THEN {None} ELSE {})

Throws == jobs # <<>> /\ Head(jobs).kind = "throw"

-----------------------------------------------------------------------------
(* Creation, reset and drop.                                               *)

Idle == call.op = "idle"
NoCall == [op |-> "idle", promise |-> None, awaiting |-> None, context |-> None]
Answer(kind, p, v, c) == [kind |-> kind, promise |-> p, value |-> v, blame |-> c]
Unset == Slot("unset", None, None)

Init ==
  /\ runtime = "none" /\ context = None /\ made = 0
  /\ released = [c \in Contexts |-> 0]
  /\ callbacks = {} /\ globals = {} /\ orphaned = FALSE
  /\ promise = [p \in Promises |-> "new"]
  /\ told = [p \in Promises |-> {}]
  /\ reactions = [p \in Promises |-> <<>>]
  /\ jobs = <<>> /\ exception = None /\ dangling = {}
  /\ slot = [c \in Contexts |-> Unset]
  /\ call = NoCall /\ calls = 0 /\ answer = Answer("none", None, None, None)
  /\ abandoned = {}

(* JS_NewContext may fail: the runtime is freed and there is no Context.   *)
New ==
  /\ runtime = "none"
  /\ \/ runtime' = "live" /\ context' = 1 /\ made' = 1
     \/ runtime' = "freed" /\ UNCHANGED <<context, made>>
  /\ UNCHANGED <<released, callbacks, globals, orphaned, engine, host>>

(* The host calls an operation, and one that works in Context.context.     *)
MayCall == Idle /\ runtime = "live" /\ calls < MaxCalls /\ calls' = calls + 1
Called == MayCall /\ context # None

Returns(kind, p, v, c) ==
  /\ call' = NoCall
  /\ answer' = Answer(kind, p, v, c)

(* Every operation but execute_pending_job, reset and drop among them,     *)
(* hands Context.context to the engine, which reads through the pointer.   *)
Crash == runtime' = "crashed"
WorkInNull ==
  /\ Idle /\ runtime = "live" /\ context = None
  /\ Crash
  /\ UNCHANGED <<context, made, released, callbacks, globals, orphaned, engine, host>>

(* Mutant: the context is not given back.                                  *)
FreeContext_Not(n) == UNCHANGED released
FreeContext(n) == released' = [released EXCEPT ![context] = @ + n]

Dropped(freed) ==
  /\ FreeContext(freed)
  /\ runtime' = "freed" /\ context' = None /\ callbacks' = {}

Drop ==
  /\ Idle /\ runtime = "live" /\ context # None
  /\ Dropped(1)
  /\ UNCHANGED <<made, globals, orphaned, engine, host>>

(* Mutant: the handle keeps its old value.                                 *)
ResetMakes_OldHandle == made' = made + 1 /\ UNCHANGED context

(* JS_NewContext and s.context = context.                                  *)
ResetMakes == made' = made + 1 /\ context' = made + 1

(* Context::reset: the old context is freed and the closures are dropped,  *)
(* the runtime and its queue stay, and so do the functions the host keeps. *)
(* When no new context can be made, the Context is dropped with the old    *)
(* one still in it.                                                        *)
Reset ==
  /\ Called
  /\ globals' \in SUBSET (globals \cap Callbacks)
  /\ orphaned' = (\/ orphaned \/ globals' # {} \/ jobs # <<>>
                  \/ \E p \in Promises : reactions[p] # <<>>)
  /\ \/ /\ made < MaxContexts
        /\ FreeContext(1)
        /\ ResetMakes /\ callbacks' = {}
        /\ UNCHANGED runtime
        /\ Returns("value", None, None, None)
     \/ /\ Dropped(2)
        /\ UNCHANGED made
        /\ Returns("reset failed", None, None, None)
  /\ UNCHANGED <<engine, abandoned>>

-----------------------------------------------------------------------------
(* Host functions.                                                         *)

(* create_callback without its push: the closure is dropped on return.     *)
KeepClosure_Not(b) == UNCHANGED callbacks
KeepClosure(b) == callbacks' = callbacks \cup {b}

(* create_callback, create_custom_callback; the host hands the function on *)
(* to a script.                                                            *)
CreateCallback(b) ==
  /\ Called
  /\ KeepClosure(b)
  /\ globals' = globals \cup {b}
  /\ Returns("value", None, None, None)
  /\ UNCHANGED <<runtime, context, made, released, orphaned, engine, abandoned>>

(* What a call throws stays pending when it is not taken.                  *)
LeavesPending == exception' = calls'

(* add_callback on a name that cannot be written: the closure is kept.     *)
AddCallbackFails(b) ==
  /\ Called
  /\ KeepClosure(b)
  /\ LeavesPending
  /\ Returns("error", None, None, calls')
  /\ UNCHANGED <<promise, told, reactions, jobs, slot, dangling, runtime, context, made, released,
                 globals, orphaned, abandoned>>

AddCallback(b) == CreateCallback(b) \/ AddCallbackFails(b)

-----------------------------------------------------------------------------
(* get_exception, and what the operations do with an exception.            *)

(* The exception is taken and turned into text; the toString of what was   *)
(* thrown may throw in its turn, and that exception stays.                 *)
TakeException(c) == exception' \in {None, c}

(* ensure_no_excpetion: own tells whether the operation itself threw.      *)
EnsureNoException(own) ==
  IF own \/ exception # None
    THEN /\ TakeException(calls')
         /\ Returns("error", None, None, IF own THEN calls' ELSE exception)
    ELSE /\ Returns("value", None, None, None)
         /\ UNCHANGED exception

-----------------------------------------------------------------------------
(* What an operation that runs a script or a function may end in.          *)

(* The script may call every host function it can name; it may leave in    *)
(* the queue nothing, a microtask that throws, one that calls a host       *)
(* function.                                                               *)
CallsHost == dangling' = dangling \cup ((globals \cap Callbacks) \ callbacks)
Ran ==
  /\ CallsHost
  /\ \E js \in {<<>>, <<Job("throw", None, context, None, None)>>}
               \cup {<<Job("host", None, context, b, None)>> : b \in globals \cap Callbacks} :
       jobs' = jobs \o js

ReturnsPlain ==
  /\ Ran
  /\ Returns("value", None, None, None)
  /\ UNCHANGED <<promise, told, reactions, exception, slot, handle, abandoned>>

(* An error without an exception: a missing function, a value that does    *)
(* not convert.                                                            *)
ReturnsUnfit ==
  /\ Ran
  /\ Returns("error", None, None, None)
  /\ UNCHANGED <<promise, told, reactions, exception, slot, handle, abandoned>>

(* The exception is in the value returned, and check_exception takes it.   *)
ThrowsChecked ==
  /\ TakeException(calls')
  /\ Returns("error", None, None, calls')
  /\ UNCHANGED <<promise, told, reactions, jobs, slot, dangling, handle, abandoned>>

(* JsFunction::call wraps what JS_Call returns, an exception too, and      *)
(* resolve_value passes it on: it is not an object.                        *)
ThrowsUnchecked ==
  /\ LeavesPending
  /\ Returns("value", None, None, None)
  /\ UNCHANGED <<promise, told, reactions, jobs, slot, dangling, handle, abandoned>>

(* A getter throws where the host reads a property: the error has a text   *)
(* of its own and the exception stays.                                     *)
GetterThrows ==
  /\ LeavesPending
  /\ Returns("error", None, None, calls')
  /\ UNCHANGED <<promise, told, reactions, jobs, slot, dangling, handle, abandoned>>

(* How a promise of the engine may end.  Fulfilling it with a thenable     *)
(* makes it follow that one, so the value is an object with a catch only,  *)
(* or one that gets its then later.                                        *)
Endings ==
  {Outcome("rejected", None)} \cup
    {Outcome("fulfilled", v) :
       v \in {None} \cup {w \in globals \cap Promises : promise[w] = "thenable"}}

(* A script makes promise p: settled, to be settled by a job, or by none.  *)
MakePromise(p) ==
  /\ promise[p] = "new"
  /\ \/ /\ \E t \in Endings : /\ promise' = [promise EXCEPT ![p] = t.outcome]
                              /\ told' = [told EXCEPT ![p] = @ \cup {t}]
        /\ UNCHANGED jobs
     \/ /\ promise' = [promise EXCEPT ![p] = "pending"]
        /\ \E js \in {<<>>} \cup
             {<<Job(IF t.outcome = "fulfilled" THEN "fulfil" ELSE "reject",
                    p, context, None, t.value)>> : t \in Endings} : jobs' = jobs \o js
        /\ UNCHANGED told

MakeThenable(p) ==
  /\ promise[p] = "new"
  /\ promise' = [promise EXCEPT ![p] = "thenable"]
  /\ UNCHANGED <<told, jobs>>

(* The script returns what counts as a promise: resolve_value awaits it if *)
(* it is called.                                                           *)
ReturnsPromise(p, resolve) ==
  /\ \/ MakePromise(p) \/ MakeThenable(p)
     \/ p \in globals /\ UNCHANGED <<promise, told, jobs>>
  /\ globals' = globals \cup {p}
  /\ IF resolve
       THEN /\ call' = [op |-> "await", promise |-> p, awaiting |-> p, context |-> None]
            /\ UNCHANGED answer
       ELSE Returns("value", None, None, None)
  /\ UNCHANGED <<reactions, exception, slot, dangling, abandoned,
                 runtime, context, made, released, callbacks, orphaned>>

(* The script, or a function of with_resolvers, settles p.                 *)
Settles(p) ==
  /\ p \in globals /\ promise[p] = "pending"
  /\ \E t \in Endings : Settle(p, t) /\ jobs' = jobs \o Fired(p, t)
  /\ Returns("value", None, None, None)
  /\ UNCHANGED <<exception, slot, dangling, handle, abandoned>>

Resolved == \E p \in Promises : ReturnsPromise(p, TRUE)

-----------------------------------------------------------------------------
(* The operations of Context that run scripts.                             *)

Eval ==
  /\ Called
  /\ \/ ReturnsPlain \/ ThrowsChecked \/ Resolved
     \/ \E p \in Promises : Settles(p) \/ ReturnsPromise(p, FALSE)

EvalAs ==
  /\ Called
  /\ ReturnsPlain \/ ReturnsUnfit \/ ThrowsChecked \/ Resolved

(* js_module_loader compiles the module the engine asks for, and takes an  *)
(* older exception for its own.                                            *)
Imports ==
  /\ exception # None
  /\ TakeException(calls')
  /\ Returns("error", None, None, exception)
  /\ UNCHANGED <<promise, told, reactions, jobs, slot, dangling, handle, abandoned>>

(* The value of a module is a promise.                                     *)
EvalModule ==
  /\ Called
  /\ \/ ThrowsChecked \/ Imports
     \/ \E p \in Promises, resolve \in BOOLEAN :
          ReturnsPromise(p, resolve) /\ promise'[p] # "thenable"

CallFunction ==
  /\ Called
  /\ \/ ReturnsPlain \/ ReturnsUnfit \/ ThrowsUnchecked \/ Resolved
     \/ \E p \in Promises : Settles(p)

SetGlobal ==
  /\ Called
  /\ \/ GetterThrows
     \/ /\ Returns("value", None, None, None)
        /\ UNCHANGED <<engine, handle, abandoned>>

(* set_console: the function that writes, then the script that uses it.    *)
SetConsole(b) ==
  \/ AddCallback(b)
  \/ /\ Called
     /\ KeepClosure(b)
     /\ globals' = globals \cup {b}
     /\ TakeException(calls')
     /\ Returns("error", None, None, calls')
     /\ UNCHANGED <<promise, told, reactions, jobs, slot, dangling, runtime, context, made,
                    released, orphaned, abandoned>>

(* resolve_value.                                                          *)

Awaiting == runtime = "live" /\ call.op = "await"
Resolving == runtime = "live" /\ call.op = "resolve"

(* is_promise reads then and catch, and their getter may throw.            *)
AwaitFails ==
  /\ Awaiting /\ context # None /\ promise[call.awaiting] = "thenable"
  /\ exception' = calls
  /\ Returns("error", call.promise, None, calls)
  /\ UNCHANGED <<promise, told, reactions, jobs, slot, dangling, handle, calls, abandoned>>

(* The properties are read, and the helper script run, in a null context.  *)
AwaitCrashes ==
  /\ Awaiting /\ context = None
  /\ Crash
  /\ UNCHANGED <<context, made, released, callbacks, globals, orphaned, engine, host>>

(* Mutant: the script does not set __promiseResult back.                   *)
ClearSlot_Not == slot
ClearSlot == [slot EXCEPT ![context] = Unset]

(* What a thenable may tell: f is called with any value, g only if then()  *)
(* returned something with a catch.                                        *)
Tellings(chained) ==
  {Outcome("fulfilled", v) : v \in {None} \cup (globals \cap Promises)}
    \cup (IF chained THEN {Outcome("rejected", None)} ELSE {})

(* __resolvePromise on an object of a script: its then(), if it has one,   *)
(* calls a handler at once, in a job it queues, or never.  If nothing with *)
(* a catch comes back the TypeError stays pending, which JsFunction::call  *)
(* does not look at.                                                       *)
AttachThenable(p) ==
  /\ \E chained \in BOOLEAN :
       /\ exception' = IF chained THEN exception ELSE calls
       /\ \/ slot' = ClearSlot /\ UNCHANGED <<told, jobs>>
          \/ \E t \in Tellings(chained) :
               /\ slot' = [slot EXCEPT ![context] =
                             IF t.outcome = "fulfilled" THEN Slot("true", p, t.value)
                             ELSE Slot("false", p, None)]
               /\ told' = [told EXCEPT ![p] = @ \cup {t}]
               /\ UNCHANGED jobs
          \/ \E t \in Tellings(chained) :
               /\ slot' = ClearSlot /\ UNCHANGED told
               /\ jobs' = Append(jobs, Job(IF t.outcome = "fulfilled" THEN "answer" ELSE "refuse",
                                           p, context, None, t.value))
  /\ CallsHost
  /\ abandoned' = abandoned \cup {p}
  /\ UNCHANGED reactions

(* __resolvePromise on a promise of the engine.                            *)
AttachNative(p) ==
  /\ slot' = ClearSlot
  /\ Attach(Resolver(p))
  /\ UNCHANGED <<told, exception, dangling, abandoned>>

(* The helper script, then __resolvePromise.                               *)
AttachResolver ==
  /\ Awaiting /\ context # None
  /\ IF promise[call.awaiting] = "thenable" THEN AttachThenable(call.awaiting)
     ELSE AttachNative(call.awaiting)
  /\ call' = [call EXCEPT !.op = "resolve", !.context = context]
  /\ UNCHANGED <<promise, handle, calls, answer>>

(* The await of call.awaiting ends with the outcome found.                 *)
Forsakes(found) == abandoned' = abandoned \cup ({call.awaiting} \ {found.value})

(* is_bool on __promiseResult after a job that leaves exception left.  The *)
(* value is awaited in its turn if it looks like a promise; a rejection    *)
(* becomes an error of its text, made in Context.context, or the error of  *)
(* making it.                                                              *)
CheckSlot(found, left) ==
  \/ /\ found.result = "unset"
     /\ exception' \in left
     /\ UNCHANGED <<runtime, call, answer, abandoned>>
  \/ /\ found.result = "true" /\ found.inner # None
     /\ call' = [call EXCEPT !.op = "await", !.awaiting = found.inner]
     /\ Forsakes(found) /\ exception' \in left
     /\ UNCHANGED <<runtime, answer>>
  \/ /\ found.result = "true" /\ found.inner = None
     /\ Returns("settled", call.promise, found.value, None)
     /\ Forsakes(found) /\ exception' \in left
     /\ UNCHANGED runtime
  \/ /\ found.result = "false" /\ context' # None
     /\ Returns("rejected", call.promise, found.value, None)
     /\ Forsakes(found) /\ exception' \in left
     /\ UNCHANGED runtime
  \/ /\ found.result = "false" /\ context' = None
     /\ Crash
     /\ exception' \in left
     /\ UNCHANGED <<call, answer, abandoned>>
  \/ /\ found.result = "false"
     /\ exception' = calls
     /\ Returns("error", call.promise, None, calls)
     /\ Forsakes(found)
     /\ UNCHANGED runtime

(* The engine stores the context of the job it ran in Context.context, and *)
(* NULL when there was none.                                               *)
ResolveFindsNoJob ==
  /\ Resolving /\ jobs = <<>>
  /\ context' = None
  /\ CheckSlot(slot[call.context], {exception})
  /\ UNCHANGED <<promise, told, reactions, jobs, slot, dangling, made, released, callbacks,
                 globals, orphaned, calls>>

ResolveRunsJob ==
  /\ Resolving /\ jobs # <<>> /\ ~Throws
  /\ RunJob
  /\ context' = Head(jobs).context
  /\ CheckSlot(slot'[call.context], LeftByJob)
  /\ UNCHANGED <<made, released, callbacks, globals, orphaned, calls>>

(* get_exception takes the exception of the job; the reactions of what was *)
(* awaited stay behind.                                                    *)
ResolveThrows ==
  /\ Resolving /\ Throws
  /\ jobs' = Tail(jobs)
  /\ context' = Head(jobs).context
  /\ TakeException(calls)
  /\ Returns("error", call.promise, None, calls)
  /\ abandoned' = abandoned \cup {call.awaiting}
  /\ UNCHANGED <<promise, told, reactions, slot, dangling, runtime, made, released, callbacks,
                 globals, orphaned, calls>>

-----------------------------------------------------------------------------
(* execute_pending_job.                                                    *)

(* It works on the runtime, with a pointer of its own.                     *)
Draining == runtime = "live" /\ call.op = "drain"
ExecutePendingJob ==
  /\ MayCall
  /\ call' = [NoCall EXCEPT !.op = "drain"]
  /\ UNCHANGED <<answer, abandoned, engine, handle>>

DrainRunsJob ==
  /\ Draining /\ jobs # <<>> /\ ~Throws
  /\ RunJob
  /\ exception' \in LeftByJob
  /\ UNCHANGED <<handle, host>>

(* Mutant: a job that throws does not end the loop, nor is it reported.    *)
DrainFails_Silently == Returns("drained", None, None, None)
DrainFails == Returns("error", None, None, calls)

DrainThrows ==
  /\ Draining /\ Throws
  /\ jobs' = Tail(jobs)
  /\ TakeException(calls)
  /\ DrainFails
  /\ UNCHANGED <<promise, told, reactions, slot, dangling, handle, calls, abandoned>>

DrainEnds ==
  /\ Draining /\ jobs = <<>>
  /\ Returns("drained", None, None, None)
  /\ UNCHANGED <<engine, handle, calls, abandoned>>

-----------------------------------------------------------------------------
(* Operations that judge their success by the pending exception.           *)

(* compile, compile_module: nothing runs.                                  *)
Compile ==
  /\ Called
  /\ \E own \in BOOLEAN : EnsureNoException(own)
  /\ UNCHANGED <<promise, told, reactions, jobs, slot, dangling, handle, abandoned>>

RunCompiledFunction ==
  /\ Called
  /\ Ran
  /\ \E own \in BOOLEAN : EnsureNoException(own)
  /\ UNCHANGED <<promise, told, reactions, slot, handle, abandoned>>

(* from_bytecode looks at the value it got, and takes only its own.        *)
FromBytecode ==
  /\ Called
  /\ \/ ThrowsChecked
     \/ /\ Returns("value", None, None, None)
        /\ UNCHANGED <<engine, handle, abandoned>>

(* OwnedJsPromise::resolve, reject, all, all_settled, race, any,           *)
(* with_resolvers: they make a promise, which is lost on an error.         *)
NewPromise(p) ==
  /\ Called
  /\ MakePromise(p)
  /\ \E own \in BOOLEAN : EnsureNoException(own)
  /\ globals' = IF answer'.kind = "value" THEN globals \cup {p} ELSE globals
  /\ UNCHANGED <<reactions, slot, dangling, abandoned,
                 runtime, context, made, released, callbacks, orphaned>>

(* run_module: a module that does not evaluate to a promise is an error    *)
(* without an exception.                                                   *)
RunModule(p) ==
  \/ NewPromise(p)
  \/ Called /\ exception = None /\ ReturnsUnfit

(* OwnedJsPromise::then, then2, catch, finally: the reaction is there also *)
(* when they report the exception of an older call.                        *)
React(p, on) ==
  /\ Called
  /\ p \in globals /\ promise[p] # "thenable"
  /\ {on[o] : o \in Outcomes} \subseteq globals \cup {None}
  /\ Attach(HostReaction(p, on))
  /\ EnsureNoException(FALSE)
  /\ UNCHANGED <<promise, told, slot, dangling, handle, abandoned>>

Then(p, b) == React(p, [o \in Outcomes |-> IF o = "fulfilled" THEN b ELSE None])
Catch(p, b) == React(p, [o \in Outcomes |-> IF o = "rejected" THEN b ELSE None])
Finally(p, b) == React(p, [o \in Outcomes |-> b])
Then2(p, b1, b2) == React(p, [o \in Outcomes |-> IF o = "fulfilled" THEN b1 ELSE b2])

-----------------------------------------------------------------------------
ResolveStep ==
  \/ AwaitFails \/ AwaitCrashes \/ AttachResolver
  \/ ResolveFindsNoJob \/ ResolveRunsJob \/ ResolveThrows
DrainStep == DrainRunsJob \/ DrainThrows \/ DrainEnds

Next ==
  \/ New \/ Drop \/ Reset \/ WorkInNull
  \/ Eval \/ EvalAs \/ EvalModule \/ CallFunction \/ SetGlobal
  \/ Compile \/ RunCompiledFunction \/ FromBytecode
  \/ ExecutePendingJob
  \/ \E b \in Callbacks : AddCallback(b) \/ SetConsole(b)
  \/ \E p \in Promises : NewPromise(p) \/ RunModule(p)
  \/ \E p \in Promises, b \in Callbacks :
       Then(p, b) \/ Catch(p, b) \/ Finally(p, b) \/ \E b2 \in Callbacks : Then2(p, b, b2)
  \/ ResolveStep \/ DrainStep

(* The loops run on in the thread of the caller; nobody has to call.       *)
Spec == Init /\ [][Next]_vars /\ WF_vars(ResolveStep) /\ WF_vars(DrainStep)

-----------------------------------------------------------------------------
(* Properties.                                                             *)

Reactions ==
  [kind : {"resolver", "host"}, promise : Promises, context : Contexts,
   on : [Outcomes -> Callbacks \cup {None}]]
(* A job that calls a closure has one.                                     *)
QueuedJobs ==
  {job \in [kind : JobKinds, promise : Promises \cup {None}, context : Contexts,
             callback : Callbacks \cup {None}, value : Promises \cup {None}] :
     job.kind = "host" => job.callback # None}

(* Every variable holds a value the code may store there.                  *)
ContextTypeOK ==
  /\ runtime \in {"none", "live", "freed", "crashed"}
  /\ context \in Contexts \cup {None} /\ made \in 0..MaxContexts
  /\ released \in [Contexts -> Nat]
  /\ callbacks \subseteq Callbacks /\ globals \subseteq Callbacks \cup Promises
  /\ promise \in [Promises -> {"new", "pending", "fulfilled", "rejected", "thenable"}]
  /\ told \in [Promises -> SUBSET [outcome : Outcomes, value : Promises \cup {None}]]
  /\ reactions \in [Promises -> Seq(Reactions)] /\ jobs \in Seq(QueuedJobs)
  /\ exception \in 0..MaxCalls \cup {None}
  /\ slot \in [Contexts -> [result : {"unset", "true", "false"},
                            value : Promises \cup {None}, inner : Promises \cup {None}]]
  /\ call \in [op : {"idle", "await", "resolve", "drain"}, promise : Promises \cup {None},
               awaiting : Promises \cup {None}, context : Contexts \cup {None}]
  /\ calls \in 0..MaxCalls
  /\ answer \in [kind : {"none", "value", "error", "settled", "rejected", "drained",
                         "reset failed"},
                 promise : Promises \cup {None}, value : Promises \cup {None},
                 blame : 0..MaxCalls \cup {None}]
  /\ abandoned \subseteq Promises
  /\ orphaned \in BOOLEAN /\ dangling \subseteq Callbacks

(* A value of a fulfilled promise of S that is awaited in its turn is in S.*)
HoldsValues(S) == \A p \in S : \A t \in told[p] : t.value # None => t.value \in S

(* What resolve_value returns is the outcome of the promise it was given,  *)
(* or where the value of that one looks like a promise, the outcome of     *)
(* that, and so on.  Two global variables of the script carry outcomes     *)
(* over; another's is found there only when the await of that one ended    *)
(* too early, because a job threw or because it found the outcome of a     *)
(* third in its turn, or when a thenable calls its handler again.          *)
SettledValueIsItsOwn ==
  answer.kind \in {"settled", "rejected"} =>
    LET q == answer.value IN
    /\ Outcome(IF answer.kind = "settled" THEN "fulfilled" ELSE "rejected", None) \in told[q]
    /\ \A S \in SUBSET Promises :
         (abandoned \cup {answer.promise} \subseteq S /\ HoldsValues(S)) => q \in S

(* What the loop of resolve_value finds when a thenable called its handler *)
(* before then() returned, and no job is in the queue.                     *)
AnsweredAtOnce ==
  LET found == slot[call.context] IN
  jobs = <<>> /\ found.result # "unset" /\ promise[found.value] = "thenable"

(* When a call returns, the Context works in the engine context made last, *)
(* although the loop of resolve_value lets the engine write Context.context*)
(* at every job.  It does not when a reset left jobs of the old context or *)
(* functions behind.  And an await of a thenable that answers at once runs *)
(* the loop on an empty queue, which leaves a null pointer; after that     *)
(* only execute_pending_job returns.                                       *)
HandleIsCurrent ==
  [][(runtime' = "live" /\ Idle' /\ ~orphaned') =>
       \/ context' = made'
       \/ context' = None /\ call.op = "resolve" /\ AnsweredAtOnce
       \/ context' = None /\ context = None /\ call.op = "drain"]_vars

(* Each engine context is given back once: by the reset that replaces it   *)
(* or by the drop of the Context, unless a reset failed, whose drop frees  *)
(* the old context a second time, or left jobs behind.                     *)
ContextsFreedOnce ==
  (~orphaned /\ answer.kind # "reset failed") =>
    \A c \in Contexts :
      released[c] = IF c < made \/ (c = made /\ runtime = "freed") THEN 1 ELSE 0

(* The engine calls no closure after it was dropped: Context.callbacks     *)
(* keeps them as long as scripts and jobs can reach them.  A reset drops   *)
(* them while jobs that call them may still be in the queue, and functions *)
(* with the host.                                                          *)
ClosuresOutliveCalls == dangling # {} => orphaned

(* When execute_pending_job returns Ok every job has run; one that threw   *)
(* is reported, and the jobs behind it are left in the queue.              *)
OkMeansDone == (Idle /\ answer.kind = "drained") => jobs = <<>>

(* The promise is settled, or a job in the queue settles it.               *)
Settling(p) ==
  \/ promise[p] \in {"fulfilled", "rejected"}
  \/ /\ promise[p] = "pending"
     /\ \E i \in DOMAIN jobs : jobs[i].kind \in {"fulfil", "reject"} /\ jobs[i].promise = p

(* resolve_value waits for a promise of the engine no longer than until it *)
(* is settled: it returns, or goes on to await the value.  (It spins for   *)
(* ever on a promise that no job settles.)                                 *)
AwaitEnds ==
  \A p \in Promises :
    LET waits == call.op = "resolve" /\ call.awaiting = p IN (waits /\ Settling(p)) ~> ~waits

(* What the comments of the source say and the code does not do.           *)

(* resolve_value runs "the event loop until it is resolved, and return[s]  *)
(* the final value": of a settled promise it returns.                      *)
AwaitReturns ==
  \A p \in Promises :
    (Resolving /\ call.promise = p /\ promise[p] \in {"fulfilled", "rejected"}) ~> Idle

(* An operation reports an error "when an error ocurred": in itself.       *)
ErrorsAreOwn == (Idle /\ answer.kind = "error") => answer.blame \in {None, calls}

(* After a reset, "all state and callbacks will be removed": no closure is *)
(* entered after it was dropped.                                           *)
NoClosureEnteredLate == dangling = {}
=============================================================================
