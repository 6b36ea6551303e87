---------------------------- MODULE ContextProofs ----------------------------
(***************************************************************************)
(* What holds of a Context for any number of promises, closures, contexts  *)
(* and calls: the safety properties of Context, proved from inductive      *)
(* invariants.  A step of Next is first traced back to one of a few        *)
(* effects on the queue of jobs and on the reactions.                      *)
(***************************************************************************)
EXTENDS Context, SequenceTheorems, TLAPS

(* A job and a reaction whose closures are in B, made in a context of C.   *)
(* Only jobs that settle a promise, or speak for a thenable, need to have  *)
(* one.                                                                    *)
JobsOf(B, C) ==
  {j \in QueuedJobs : /\ j.context \in C
                      /\ j.kind \in {"fulfil", "reject", "answer", "refuse"} => j.promise \in Promises
                      /\ j.kind = "host" => j.callback \in B}
ReactionsOf(B, C) ==
  [kind : {"resolver", "host"}, promise : Promises, context : C,
   on : [Outcomes -> B \cup {None}]]
EngineOK(B, C) == reactions \in [Promises -> Seq(ReactionsOf(B, C))] /\ jobs \in Seq(JobsOf(B, C))

(* An operation in progress has a runtime, a number and what it works on.  *)
InCall ==
  call.op # "idle" =>
    /\ runtime \in {"live", "crashed"} /\ calls \in 1..MaxCalls
    /\ call.op # "drain" => call.promise \in Promises /\ call.awaiting \in Promises
    /\ call.op = "resolve" => call.context \in Contexts

-----------------------------------------------------------------------------
(* The steps of a Context.                                                 *)

(* SetGlobal, FromBytecode that succeed; SetConsole whose script throws.   *)
Quiet == Returns("value", None, None, None) /\ UNCHANGED <<engine, handle, abandoned>>
ConsoleFails(b) ==
  /\ Called
  /\ KeepClosure(b)
  /\ globals' = globals \cup {b}
  /\ TakeException(calls')
  /\ Returns("error", None, None, calls')
  /\ UNCHANGED <<promise, told, reactions, jobs, slot, dangling, runtime, context, made,
                 released, orphaned, abandoned>>

CalledStep ==
  /\ Called
  /\ \/ ReturnsPlain \/ ReturnsUnfit \/ ThrowsChecked \/ ThrowsUnchecked \/ GetterThrows
     \/ Imports \/ Quiet
     \/ \E p \in Promises : Settles(p)
     \/ \E p \in Promises, resolve \in BOOLEAN : ReturnsPromise(p, resolve)

JudgedStep ==
  \/ Compile \/ RunCompiledFunction
  \/ \E p \in Promises : NewPromise(p)
  \/ \E p \in Promises, on \in [Outcomes -> Callbacks \cup {None}] : React(p, on)

ClosureStep ==
  \E b \in Callbacks : CreateCallback(b) \/ AddCallbackFails(b) \/ ConsoleFails(b)

LEMMA Steps ==
  ASSUME Next
  PROVE  \/ New \/ Drop \/ Reset \/ WorkInNull \/ CalledStep \/ JudgedStep \/ ClosureStep \/ ExecutePendingJob
         \/ ResolveStep \/ DrainStep
  <1>1. CASE Eval \/ EvalAs \/ EvalModule
    BY <1>1 DEF Eval, EvalAs, EvalModule, Resolved, CalledStep
  <1>2. CASE CallFunction \/ SetGlobal \/ FromBytecode
    BY <1>2 DEF CallFunction, SetGlobal, FromBytecode, Resolved, CalledStep, Quiet
  <1>3. CASE \E b \in Callbacks : AddCallback(b) \/ SetConsole(b)
    BY <1>3 DEF AddCallback, SetConsole, ClosureStep, ConsoleFails
  <1>4. CASE \E p \in Promises : NewPromise(p) \/ RunModule(p)
    BY <1>4 DEF RunModule, JudgedStep, CalledStep
  <1>5. ASSUME NEW p \in Promises, NEW b \in Callbacks, NEW b2 \in Callbacks,
               Then(p, b) \/ Catch(p, b) \/ Finally(p, b) \/ Then2(p, b, b2)
        PROVE  JudgedStep
    <2>1. \E on \in [Outcomes -> Callbacks \cup {None}] : React(p, on)
      BY <1>5 DEF Then, Catch, Finally, Then2
    <2> QED
      BY <2>1 DEF JudgedStep
  <1>6. CASE \E p \in Promises, b \in Callbacks :
               Then(p, b) \/ Catch(p, b) \/ Finally(p, b) \/ \E b2 \in Callbacks : Then2(p, b, b2)
    BY <1>5, <1>6
  <1>7. CASE Compile \/ RunCompiledFunction
    BY <1>7 DEF JudgedStep
  <1> QED
    BY <1>1, <1>2, <1>3, <1>4, <1>6, <1>7 DEF Next

-----------------------------------------------------------------------------
(* The queue of jobs and the reactions.                                    *)

LEMMA SingletonSeq ==
  ASSUME NEW S, NEW x \in S
  PROVE  <<x>> \in Seq(S)
  OBVIOUS

(* What a promise may tell.                                                *)
Tellable ==
  {t \in [outcome : Outcomes, value : Promises \cup {None}] : t.outcome = "rejected" => t.value = None}

LEMMA OutcomeTellable ==
  /\ \A v \in Promises \cup {None} : Outcome("fulfilled", v) \in Tellable
  /\ Outcome("rejected", None) \in Tellable
  BY DEF Outcome, Tellable, Outcomes

LEMMA EndingsTellable == Endings \subseteq Tellable
  BY OutcomeTellable DEF Endings

LEMMA TellingsTellable ==
  ASSUME NEW chained \in BOOLEAN
  PROVE  Tellings(chained) \subseteq Tellable
  BY OutcomeTellable DEF Tellings

(* A reaction becomes a job of the same closures.                          *)
LEMMA FireInQueue ==
  ASSUME NEW B, B \subseteq Callbacks, NEW C, C \subseteq Contexts,
         NEW r \in ReactionsOf(B, C), NEW t \in Tellable
  PROVE  Fire(r, t) \in JobsOf(B, C)
  <1>0. t.outcome \in Outcomes /\ t.value \in Promises \cup {None}
    BY DEF Tellable
  <1>1. /\ r.kind \in {"resolver", "host"} /\ r.promise \in Promises /\ r.context \in C
        /\ r.on[t.outcome] \in B \cup {None}
    BY <1>0 DEF ReactionsOf
  <1>2. CASE r.kind = "resolver"
    <2>1. Fire(r, t) = Job(IF t.outcome = "fulfilled" THEN "then" ELSE "pass",
                           r.promise, r.context, r.on[t.outcome], t.value)
      BY <1>2 DEF Fire
    <2> QED
      BY <1>0, <1>1, <2>1 DEF Job, JobsOf, QueuedJobs, JobKinds
  <1>3. CASE r.kind = "host"
    <2>1. Fire(r, t) = Job(IF r.on[t.outcome] = None THEN "idle" ELSE "host",
                           r.promise, r.context, r.on[t.outcome], t.value)
      BY <1>3 DEF Fire
    <2> QED
      BY <1>0, <1>1, <2>1 DEF Job, JobsOf, QueuedJobs, JobKinds
  <1> QED
    BY <1>1, <1>2, <1>3

LEMMA FiredInQueue ==
  ASSUME NEW B, B \subseteq Callbacks, NEW C, C \subseteq Contexts,
         reactions \in [Promises -> Seq(ReactionsOf(B, C))],
         NEW p \in Promises, NEW t \in Tellable
  PROVE  Fired(p, t) \in Seq(JobsOf(B, C))
  <1> DEFINE rs == reactions[p]
             n == Len(rs)
  <1>1. rs \in Seq(ReactionsOf(B, C))
    OBVIOUS
  <1>2. n \in Nat /\ rs \in [1..n -> ReactionsOf(B, C)] /\ DOMAIN rs = 1..n
    BY <1>1, LenProperties
  <1>3. \A i \in 1..n : Fire(rs[i], t) \in JobsOf(B, C)
    BY <1>2, FireInQueue
  <1>4. [i \in 1..n |-> Fire(rs[i], t)] \in [1..n -> JobsOf(B, C)]
    BY <1>3
  <1>5. [i \in 1..n |-> Fire(rs[i], t)] \in Seq(JobsOf(B, C))
    BY <1>2, <1>4, SeqDef
  <1> QED
    BY <1>2, <1>5 DEF Fired

(* What a job tells.                                                       *)
LEMMA JobTells ==
  ASSUME NEW job \in QueuedJobs
  PROVE  OutcomeOf(job) \in Tellable
  BY OutcomeTellable DEF OutcomeOf, QueuedJobs

LEMMA SpawnedInQueue ==
  ASSUME NEW B, B \subseteq Callbacks, NEW C, C \subseteq Contexts,
         reactions \in [Promises -> Seq(ReactionsOf(B, C))],
         NEW job \in JobsOf(B, C)
  PROVE  Spawned(job) \in Seq(JobsOf(B, C))
  <1>1. CASE job.kind \in {"fulfil", "reject"}
    <2>1. job.promise \in Promises /\ OutcomeOf(job) \in Tellable
      BY <1>1, JobTells DEF JobsOf
    <2>2. Spawned(job) = Fired(job.promise, OutcomeOf(job))
      BY <1>1 DEF Spawned
    <2> QED
      BY <2>1, <2>2, FiredInQueue
  <1>2. CASE job.kind = "then"
    <2>1. [job EXCEPT !.kind = "idle", !.value = None] \in JobsOf(B, C)
      BY <1>2 DEF JobsOf, QueuedJobs, JobKinds
    <2>2. Spawned(job) = <<[job EXCEPT !.kind = "idle", !.value = None]>>
      BY <1>2 DEF Spawned
    <2> QED
      BY <2>1, <2>2, SingletonSeq
  <1>3. CASE job.kind = "pass"
    <2>1. [job EXCEPT !.kind = "catch"] \in JobsOf(B, C)
      BY <1>3 DEF JobsOf, QueuedJobs, JobKinds
    <2>2. Spawned(job) = <<[job EXCEPT !.kind = "catch"]>>
      BY <1>3 DEF Spawned
    <2> QED
      BY <2>1, <2>2, SingletonSeq
  <1>4. CASE job.kind \notin {"fulfil", "reject", "then", "pass"}
    <2>1. Spawned(job) = <<>>
      BY <1>4 DEF Spawned
    <2> QED
      BY <2>1, EmptySeq
  <1> QED
    BY <1>1, <1>2, <1>3, <1>4

LEMMA AttachKeeps ==
  ASSUME NEW B, B \subseteq Callbacks, NEW C, C \subseteq Contexts,
         EngineOK(B, C), NEW r \in ReactionsOf(B, C),
         told \in [Promises -> SUBSET Tellable], Attach(r)
  PROVE  jobs' \in Seq(JobsOf(B, C)) /\ reactions' \in [Promises -> Seq(ReactionsOf(B, C))]
  <1>1. r.promise \in Promises
    BY DEF ReactionsOf
  <1>2. CASE promise[r.promise] = "pending"
    <2>1. Append(reactions[r.promise], r) \in Seq(ReactionsOf(B, C))
      BY <1>1, AppendProperties DEF EngineOK
    <2> QED
      BY <1>1, <1>2, <2>1 DEF Attach, EngineOK
  <1>3. CASE promise[r.promise] # "pending"
    <2>1. PICK t \in told[r.promise] : jobs' = Append(jobs, Fire(r, t))
      BY <1>3 DEF Attach
    <2>2. Fire(r, t) \in JobsOf(B, C)
      BY <1>1, FireInQueue
    <2>3. Append(jobs, Fire(r, t)) \in Seq(JobsOf(B, C))
      BY <2>2, AppendProperties DEF EngineOK
    <2> QED
      BY <1>3, <2>1, <2>3 DEF Attach, EngineOK
  <1> QED
    BY <1>2, <1>3

LEMMA SettleKeeps ==
  ASSUME NEW B, NEW C, EngineOK(B, C), NEW p \in Promises, NEW t, Settle(p, t)
  PROVE  reactions' \in [Promises -> Seq(ReactionsOf(B, C))]
  <1>1. <<>> \in Seq(ReactionsOf(B, C))
    BY EmptySeq
  <1> QED
    BY <1>1 DEF Settle, EngineOK

LEMMA HeadAndTail ==
  ASSUME NEW B, NEW C, EngineOK(B, C), jobs # <<>>
  PROVE  Head(jobs) \in JobsOf(B, C) /\ Tail(jobs) \in Seq(JobsOf(B, C))
  BY HeadTailProperties DEF EngineOK

LEMMA RunJobKeeps ==
  ASSUME NEW B, B \subseteq Callbacks, NEW C, C \subseteq Contexts, EngineOK(B, C), jobs # <<>>, RunJob
  PROVE  jobs' \in Seq(JobsOf(B, C)) /\ reactions' \in [Promises -> Seq(ReactionsOf(B, C))]
  <1> DEFINE job == Head(jobs)
  <1>1. job \in JobsOf(B, C) /\ Tail(jobs) \in Seq(JobsOf(B, C))
    BY HeadAndTail
  <1>2. Spawned(job) \in Seq(JobsOf(B, C))
    BY <1>1, SpawnedInQueue DEF EngineOK
  <1>3. jobs' \in Seq(JobsOf(B, C))
    BY <1>1, <1>2, ConcatProperties DEF RunJob
  <1>4. CASE job.kind \in {"fulfil", "reject"}
    <2>1. job.promise \in Promises
      BY <1>1, <1>4 DEF JobsOf
    <2>2. Settle(job.promise, OutcomeOf(job))
      BY <1>4 DEF RunJob
    <2>3. reactions' \in [Promises -> Seq(ReactionsOf(B, C))]
      BY <2>1, <2>2, SettleKeeps
    <2> QED
      BY <1>3, <2>3
  <1>5. CASE job.kind \notin {"fulfil", "reject"}
    BY <1>3, <1>5 DEF RunJob, EngineOK
  <1> QED
    BY <1>4, <1>5

(* The context a script runs in, and closures it can name.                 *)
LEMMA RanKeeps ==
  ASSUME NEW B, B \subseteq Callbacks, NEW C, C \subseteq Contexts, EngineOK(B, C), context \in C,
         globals \cap Callbacks \subseteq B, Ran
  PROVE  jobs' \in Seq(JobsOf(B, C))
  <1>1. PICK js \in {<<>>, <<Job("throw", None, context, None, None)>>}
                  \cup {<<Job("host", None, context, b, None)>> : b \in globals \cap Callbacks} :
               jobs' = jobs \o js
    BY DEF Ran
  <1>2. js \in Seq(JobsOf(B, C))
    <2>1. CASE js = <<>>
      BY <2>1, EmptySeq
    <2>2. CASE js = <<Job("throw", None, context, None, None)>>
      <3>1. Job("throw", None, context, None, None) \in JobsOf(B, C)
        BY DEF Job, JobsOf, QueuedJobs, JobKinds
      <3> QED
        BY <2>2, <3>1, SingletonSeq
    <2>3. ASSUME NEW b \in globals \cap Callbacks, js = <<Job("host", None, context, b, None)>>
          PROVE  js \in Seq(JobsOf(B, C))
      <3>1. b \in B /\ b \in Callbacks /\ b # None
        BY ContextAssumption
      <3>2. Job("host", None, context, b, None) \in JobsOf(B, C)
        BY <3>1 DEF Job, JobsOf, QueuedJobs, JobKinds
      <3> QED
        BY <2>3, <3>2, SingletonSeq
    <2> QED
      BY <1>1, <2>1, <2>2, <2>3
  <1> QED
    BY <1>1, <1>2, ConcatProperties DEF EngineOK

LEMMA MakePromiseKeeps ==
  ASSUME NEW B, NEW C, C \subseteq Contexts, EngineOK(B, C), context \in C,
         NEW p \in Promises, MakePromise(p)
  PROVE  jobs' \in Seq(JobsOf(B, C))
  <1>1. CASE UNCHANGED jobs
    BY <1>1 DEF EngineOK
  <1> DEFINE settle(t) == Job(IF t.outcome = "fulfilled" THEN "fulfil" ELSE "reject",
                              p, context, None, t.value)
  <1>2. ASSUME NEW js \in {<<>>} \cup {<<settle(t)>> : t \in Endings}, jobs' = jobs \o js
        PROVE  jobs' \in Seq(JobsOf(B, C))
    <2>1. CASE js = <<>>
      BY <1>2, <2>1, ConcatProperties, EmptySeq DEF EngineOK
    <2>2. ASSUME NEW t \in Endings, js = <<settle(t)>>
          PROVE  js \in Seq(JobsOf(B, C))
      <3>1. t.value \in Promises \cup {None}
        BY EndingsTellable DEF Tellable
      <3>2. settle(t) \in JobsOf(B, C)
        BY <3>1 DEF Job, JobsOf, QueuedJobs, JobKinds
      <3> QED
        BY <2>2, <3>2, SingletonSeq
    <2> QED
      BY <1>2, <2>1, <2>2, ConcatProperties DEF EngineOK
  <1> QED
    BY <1>1, <1>2 DEF MakePromise

(* What a thenable queues.                                                 *)
LEMMA AttachThenableKeeps ==
  ASSUME NEW B, NEW C, C \subseteq Contexts, EngineOK(B, C), context \in C,
         NEW p \in Promises, AttachThenable(p)
  PROVE  jobs' \in Seq(JobsOf(B, C))
  <1>1. CASE UNCHANGED jobs
    BY <1>1 DEF EngineOK
  <1>2. ASSUME NEW chained \in BOOLEAN, NEW t \in Tellings(chained),
               jobs' = Append(jobs, Job(IF t.outcome = "fulfilled" THEN "answer" ELSE "refuse",
                                        p, context, None, t.value))
        PROVE  jobs' \in Seq(JobsOf(B, C))
    <2> DEFINE job == Job(IF t.outcome = "fulfilled" THEN "answer" ELSE "refuse",
                          p, context, None, t.value)
    <2>1. t.value \in Promises \cup {None}
      BY TellingsTellable DEF Tellable
    <2>2. job \in JobsOf(B, C)
      BY <2>1 DEF Job, JobsOf, QueuedJobs, JobKinds
    <2> HIDE DEF job
    <2> QED
      BY <1>2, <2>2, AppendProperties DEF EngineOK, job
  <1> QED
    BY <1>1, <1>2 DEF AttachThenable

-----------------------------------------------------------------------------
(* The type invariant, in the parts that change together.                  *)

HandleOK ==
  /\ runtime \in {"none", "live", "freed", "crashed"}
  /\ context \in Contexts \cup {None} /\ made \in 0..MaxContexts
  /\ released \in [Contexts -> Nat]
  /\ callbacks \subseteq Callbacks /\ globals \subseteq Callbacks \cup Promises
  /\ orphaned \in BOOLEAN /\ dangling \subseteq Callbacks

PromiseStates == {"new", "pending", "fulfilled", "rejected", "thenable"}
Slots ==
  [result : {"unset", "true", "false"}, value : Promises \cup {None}, inner : Promises \cup {None}]
PromisesOK ==
  /\ promise \in [Promises -> PromiseStates]
  /\ told \in [Promises -> SUBSET Tellable]
  /\ slot \in [Contexts -> Slots]

AnswerKinds == {"none", "value", "error", "settled", "rejected", "drained", "reset failed"}
Answers ==
  [kind : AnswerKinds, promise : Promises \cup {None}, value : Promises \cup {None},
   blame : 0..MaxCalls \cup {None}]
Operations ==
  [op : {"idle", "await", "resolve", "drain"}, promise : Promises \cup {None},
   awaiting : Promises \cup {None}, context : Contexts \cup {None}]

CallOK ==
  /\ exception \in 0..MaxCalls \cup {None}
  /\ call \in Operations /\ calls \in 0..MaxCalls
  /\ answer \in Answers
  /\ abandoned \subseteq Promises

ContextInv ==
  /\ HandleOK /\ PromisesOK /\ CallOK
  /\ EngineOK(Callbacks, Contexts) /\ InCall

LEMMA InitInv == Init => ContextInv
  <1> SUFFICES ASSUME Init PROVE ContextInv
    OBVIOUS
  <1> USE ContextAssumption DEF Init
  <1>1. HandleOK
    <2>1. released \in [Contexts -> Nat]
      OBVIOUS
    <2>2. made \in 0..MaxContexts
      OBVIOUS
    <2>3. dangling \subseteq Callbacks /\ callbacks \subseteq Callbacks
          /\ globals \subseteq Callbacks \cup Promises
      OBVIOUS
    <2> QED
      BY <2>1, <2>2, <2>3 DEF HandleOK
  <1>2. PromisesOK
    BY DEF PromisesOK, PromiseStates, Slots, Unset, Slot
  <1>3. CallOK
    BY DEF CallOK, NoCall, Answer, Operations, Answers, AnswerKinds
  <1>4. EngineOK(Callbacks, Contexts)
    BY EmptySeq DEF EngineOK
  <1>5. InCall
    BY DEF InCall, NoCall
  <1> QED
    BY <1>1, <1>2, <1>3, <1>4, <1>5 DEF ContextInv

(* The number of an operation that is called, and its context.             *)
LEMMA MayCallIn ==
  ASSUME ContextInv, MayCall
  PROVE  /\ runtime = "live" /\ call.op = "idle"
         /\ calls' = calls + 1 /\ calls' \in 1..MaxCalls
         /\ calls' \in 0..MaxCalls /\ calls \in 0..MaxCalls
  <1>1. runtime = "live" /\ call.op = "idle"
    BY DEF MayCall, Idle
  <1>2. calls \in 0..MaxCalls /\ calls < MaxCalls /\ calls' = calls + 1
    BY DEF ContextInv, CallOK, MayCall
  <1>3. MaxCalls \in Nat
    BY ContextAssumption
  <1> QED
    BY <1>1, <1>2, <1>3

LEMMA CalledIn ==
  ASSUME ContextInv, Called
  PROVE  /\ runtime = "live" /\ context \in Contexts /\ call.op = "idle"
         /\ calls' = calls + 1 /\ calls' \in 1..MaxCalls
         /\ calls' \in 0..MaxCalls /\ calls \in 0..MaxCalls
  <1>1. context \in Contexts
    BY DEF ContextInv, HandleOK, Called
  <1> QED
    BY <1>1, MayCallIn DEF Called

(* Every step keeps the queue and the reactions within the closures B and  *)
(* contexts C, when scripts can name no other closures and run in C.       *)
LEMMA EngineStep ==
  ASSUME ContextInv, Next,
         NEW B, B \subseteq Callbacks, NEW C, C \subseteq Contexts,
         EngineOK(B, C), globals \cap Callbacks \subseteq B, context \in C \cup {None}
  PROVE  jobs' \in Seq(JobsOf(B, C)) /\ reactions' \in [Promises -> Seq(ReactionsOf(B, C))]
  <1> DEFINE Goal == jobs' \in Seq(JobsOf(B, C)) /\ reactions' \in [Promises -> Seq(ReactionsOf(B, C))]
  <1>0. ASSUME UNCHANGED <<jobs, reactions>> PROVE Goal
    BY <1>0 DEF EngineOK
  <1>c. Called => context \in C
    BY DEF Called
  <1>1. CASE New \/ Drop \/ Reset \/ WorkInNull \/ ClosureStep \/ ExecutePendingJob
    BY <1>0, <1>1 DEF New, Drop, Reset, WorkInNull, ClosureStep, CreateCallback, AddCallbackFails,
       ConsoleFails, ExecutePendingJob, engine
  <1>2. CASE CalledStep
    <2>1. CASE ReturnsPlain \/ ReturnsUnfit
      BY <1>2, <1>c, <2>1, RanKeeps DEF CalledStep, ReturnsPlain, ReturnsUnfit, EngineOK
    <2>2. CASE ThrowsChecked \/ ThrowsUnchecked \/ GetterThrows \/ Imports \/ Quiet
      BY <1>0, <2>2 DEF ThrowsChecked, ThrowsUnchecked, GetterThrows, Imports, Quiet, engine
    <2>3. ASSUME NEW p \in Promises, Settles(p) PROVE Goal
      <3>1. PICK t \in Endings : Settle(p, t) /\ jobs' = jobs \o Fired(p, t)
        BY <2>3 DEF Settles
      <3>2. Fired(p, t) \in Seq(JobsOf(B, C))
        BY FiredInQueue, EndingsTellable DEF EngineOK
      <3> QED
        BY <3>1, <3>2, SettleKeeps, ConcatProperties DEF EngineOK
    <2>5. ASSUME NEW p \in Promises, NEW resolve \in BOOLEAN, ReturnsPromise(p, resolve) PROVE Goal
      <3>1. jobs' \in Seq(JobsOf(B, C))
        BY <1>2, <1>c, <2>5, MakePromiseKeeps
        DEF CalledStep, ReturnsPromise, MakeThenable, EngineOK
      <3> QED
        BY <2>5, <3>1 DEF ReturnsPromise, EngineOK
    <2> QED
      BY <1>2, <2>1, <2>2, <2>3, <2>5 DEF CalledStep
  <1>3. CASE JudgedStep
    <2>1. CASE Compile
      BY <1>0, <2>1 DEF Compile
    <2>2. CASE RunCompiledFunction
      BY <1>c, <2>2, RanKeeps DEF RunCompiledFunction, EngineOK
    <2>3. ASSUME NEW p \in Promises, NewPromise(p) PROVE Goal
      BY <1>c, <2>3, MakePromiseKeeps DEF NewPromise, EngineOK
    <2>4. ASSUME NEW p \in Promises, NEW on \in [Outcomes -> Callbacks \cup {None}], React(p, on)
          PROVE  Goal
      <3> DEFINE r == HostReaction(p, on)
      <3>1. context \in C /\ p \in globals
        BY <1>c, <2>4 DEF React
      <3>2. \A o \in Outcomes : on[o] \in globals \cup {None}
        BY <2>4 DEF React
      <3>3. r \in ReactionsOf(B, C)
        BY <3>1, <3>2 DEF HostReaction, ReactionsOf
      <3>4. Attach(r) /\ told \in [Promises -> SUBSET Tellable]
        BY <2>4 DEF React, ContextInv, PromisesOK
      <3> HIDE DEF r
      <3> QED
        BY <3>3, <3>4, AttachKeeps
    <2> QED
      BY <1>3, <2>1, <2>2, <2>3, <2>4 DEF JudgedStep
  <1>4. CASE AttachResolver
    <2> DEFINE p == call.awaiting
               r == Resolver(p)
    <2>1. p \in Promises /\ context \in C
      BY <1>4 DEF AttachResolver, Awaiting, ContextInv, InCall
    <2>2. CASE AttachThenable(p)
      BY <2>1, <2>2, AttachThenableKeeps DEF AttachThenable, EngineOK
    <2>3. CASE AttachNative(p)
      <3>1. r \in ReactionsOf(B, C)
        BY <2>1 DEF Resolver, ReactionsOf
      <3>2. Attach(r) /\ told \in [Promises -> SUBSET Tellable]
        BY <2>3 DEF AttachNative, ContextInv, PromisesOK
      <3> HIDE DEF r
      <3> QED
        BY <3>1, <3>2, AttachKeeps
    <2> QED
      BY <1>4, <2>2, <2>3 DEF AttachResolver
  <1>5. CASE AwaitFails \/ AwaitCrashes \/ ResolveFindsNoJob \/ DrainEnds
    BY <1>0, <1>5 DEF AwaitFails, AwaitCrashes, ResolveFindsNoJob, DrainEnds, engine
  <1>6. CASE ResolveRunsJob \/ DrainRunsJob
    BY <1>6, RunJobKeeps DEF ResolveRunsJob, DrainRunsJob
  <1>7. CASE ResolveThrows \/ DrainThrows
    <2>1. jobs # <<>> /\ jobs' = Tail(jobs) /\ UNCHANGED reactions
      BY <1>7 DEF ResolveThrows, DrainThrows, Throws
    <2> QED
      BY <2>1, HeadAndTail DEF EngineOK
  <1> QED
    BY Steps, <1>1, <1>2, <1>3, <1>4, <1>5, <1>6, <1>7 DEF ResolveStep, DrainStep

-----------------------------------------------------------------------------
(* The invariant, one part at a time.                                      *)

LEMMA ReleasedTyped ==
  ASSUME released \in [Contexts -> Nat], NEW n \in Nat, FreeContext(n)
  PROVE  released' \in [Contexts -> Nat]
  <1>1. \A c \in Contexts : released[c] + n \in Nat
    OBVIOUS
  <1> QED
    BY <1>1 DEF FreeContext

LEMMA CheckSlotRuntime ==
  ASSUME NEW found, NEW left, CheckSlot(found, left)
  PROVE  runtime' = runtime \/ runtime' = "crashed"
  BY DEF CheckSlot, Crash

LEMMA HandleStep ==
  ASSUME ContextInv, Next
  PROVE  HandleOK'
  <1> USE DEF HandleOK
  <1>0. HandleOK /\ EngineOK(Callbacks, Contexts)
    BY DEF ContextInv
  <1>1. CASE New
    BY <1>0, <1>1, ContextAssumption DEF New, engine, Contexts
  <1>2. CASE Drop
    <2>1. released' \in [Contexts -> Nat]
      BY <1>0, <1>2, ReleasedTyped DEF Drop, Dropped
    <2> QED
      BY <1>0, <1>2, <2>1 DEF Drop, Dropped, engine
  <1>3. CASE Reset
    <2>1. /\ globals' \subseteq Callbacks /\ orphaned' \in BOOLEAN /\ dangling' = dangling
      BY <1>0, <1>3 DEF Reset, engine
    <2>2. CASE made < MaxContexts /\ ResetMakes /\ callbacks' = {} /\ UNCHANGED runtime /\ FreeContext(1)
      <3>1. made' \in 0..MaxContexts /\ context' \in Contexts
        BY <1>0, <2>2, ContextAssumption DEF ResetMakes, Contexts
      <3>2. released' \in [Contexts -> Nat]
        BY <1>0, <2>2, ReleasedTyped
      <3> QED
        BY <1>0, <2>1, <2>2, <3>1, <3>2
    <2>3. CASE Dropped(2) /\ UNCHANGED made
      <3>1. released' \in [Contexts -> Nat]
        BY <1>0, <2>3, ReleasedTyped DEF Dropped
      <3> QED
        BY <1>0, <2>1, <2>3, <3>1 DEF Dropped
    <2> QED
      BY <1>3, <2>2, <2>3 DEF Reset
  <1>4. ASSUME UNCHANGED handle, dangling' \subseteq Callbacks PROVE HandleOK'
    BY <1>0, <1>4 DEF handle
  <1>5. ASSUME CallsHost PROVE dangling' \subseteq Callbacks
    BY <1>0, <1>5 DEF CallsHost
  <1>6. ASSUME RunJob, jobs # <<>> PROVE dangling' \subseteq Callbacks
    <2>1. Head(jobs).kind = "host" => Head(jobs).callback \in Callbacks
      BY <1>0, <1>6, HeadAndTail DEF JobsOf
    <2> QED
      BY <1>0, <1>6, <2>1 DEF RunJob
  <1>7. CASE CalledStep
    <2>1. CASE ReturnsPlain \/ ReturnsUnfit
      BY <1>4, <1>5, <2>1 DEF ReturnsPlain, ReturnsUnfit, Ran
    <2>2. CASE ThrowsChecked \/ ThrowsUnchecked \/ GetterThrows \/ Imports \/ Quiet
      BY <1>0, <1>4, <2>2 DEF ThrowsChecked, ThrowsUnchecked, GetterThrows, Imports, Quiet, engine
    <2>3. ASSUME NEW p \in Promises, Settles(p) PROVE HandleOK'
      BY <1>0, <1>4, <2>3 DEF Settles
    <2>4. ASSUME NEW p \in Promises, NEW resolve \in BOOLEAN, ReturnsPromise(p, resolve)
          PROVE  HandleOK'
      BY <1>0, <2>4 DEF ReturnsPromise
    <2> QED
      BY <1>7, <2>1, <2>2, <2>3, <2>4 DEF CalledStep
  <1>8. CASE JudgedStep
    <2>1. CASE Compile \/ RunCompiledFunction
      BY <1>0, <1>4, <1>5, <2>1 DEF Compile, RunCompiledFunction, Ran
    <2>2. ASSUME NEW p \in Promises, NewPromise(p) PROVE HandleOK'
      BY <1>0, <2>2 DEF NewPromise
    <2>3. ASSUME NEW p \in Promises, NEW on, React(p, on) PROVE HandleOK'
      BY <1>0, <1>4, <2>3 DEF React
    <2> QED
      BY <1>8, <2>1, <2>2, <2>3 DEF JudgedStep
  <1>9. CASE ClosureStep
    BY <1>0, <1>9 DEF ClosureStep, CreateCallback, AddCallbackFails, ConsoleFails, KeepClosure, engine
  <1>10. CASE ExecutePendingJob \/ AttachResolver \/ AwaitFails
    BY <1>0, <1>4, <1>5, <1>10
    DEF ExecutePendingJob, AttachResolver, AttachThenable, AttachNative, AwaitFails, engine
  <1>11. CASE ResolveFindsNoJob \/ AwaitCrashes \/ WorkInNull
    BY <1>0, <1>11, CheckSlotRuntime DEF ResolveFindsNoJob, AwaitCrashes, WorkInNull, Crash, engine
  <1>12. CASE ResolveRunsJob
    <2>1. context' \in Contexts
      BY <1>0, <1>12, HeadAndTail DEF ResolveRunsJob, JobsOf, QueuedJobs
    <2> QED
      BY <1>0, <1>6, <1>12, <2>1, CheckSlotRuntime DEF ResolveRunsJob
  <1>13. CASE ResolveThrows
    <2>1. context' \in Contexts
      BY <1>0, <1>13, HeadAndTail DEF ResolveThrows, Throws, JobsOf, QueuedJobs
    <2> QED
      BY <1>0, <1>13, <2>1 DEF ResolveThrows
  <1>14. CASE DrainStep
    BY <1>0, <1>4, <1>6, <1>14 DEF DrainStep, DrainRunsJob, DrainThrows, DrainEnds, engine
  <1> QED
    BY Steps, <1>1, <1>2, <1>3, <1>7, <1>8, <1>9, <1>10, <1>11, <1>12, <1>13, <1>14 DEF ResolveStep

(* Promises are made and settled, and what they tell is kept.              *)
LEMMA PromisesStep ==
  ASSUME ContextInv, Next
  PROVE  PromisesOK'
  <1> USE DEF PromisesOK
  <1>0. PromisesOK /\ EngineOK(Callbacks, Contexts) /\ InCall /\ HandleOK
    BY DEF ContextInv
  <1>1. ASSUME UNCHANGED <<promise, told, slot>> PROVE PromisesOK'
    BY <1>0, <1>1
  <1>2. CASE New \/ Drop \/ Reset \/ WorkInNull \/ ClosureStep \/ ExecutePendingJob
    BY <1>1, <1>2 DEF New, Drop, Reset, WorkInNull, ClosureStep, CreateCallback, AddCallbackFails,
       ConsoleFails, ExecutePendingJob, engine
  <1>3. ASSUME NEW p \in Promises, NEW t \in Tellable, told' = [told EXCEPT ![p] = @ \cup {t}]
        PROVE  told' \in [Promises -> SUBSET Tellable]
    BY <1>0, <1>3
  <1>4. ASSUME NEW p \in Promises, MakePromise(p), UNCHANGED slot PROVE PromisesOK'
    <2>1. CASE \E t \in Endings : /\ promise' = [promise EXCEPT ![p] = t.outcome]
                                  /\ told' = [told EXCEPT ![p] = @ \cup {t}]
      <3>1. PICK t \in Endings : /\ promise' = [promise EXCEPT ![p] = t.outcome]
                                 /\ told' = [told EXCEPT ![p] = @ \cup {t}]
        BY <2>1
      <3>2. t \in Tellable /\ t.outcome \in PromiseStates
        BY EndingsTellable DEF Tellable, Outcomes, PromiseStates
      <3> QED
        BY <1>0, <1>3, <1>4, <3>1, <3>2
    <2>2. CASE promise' = [promise EXCEPT ![p] = "pending"] /\ UNCHANGED told
      BY <1>0, <1>4, <2>2 DEF PromiseStates
    <2> QED
      BY <1>4, <2>1, <2>2 DEF MakePromise
  <1>5. ASSUME NEW p \in Promises, NEW t \in Tellable, Settle(p, t)
        PROVE  promise' \in [Promises -> PromiseStates] /\ told' \in [Promises -> SUBSET Tellable]
    <2>1. t.outcome \in PromiseStates
      BY DEF Tellable, Outcomes, PromiseStates
    <2> QED
      BY <1>0, <1>3, <1>5, <2>1 DEF Settle
  <1>6. CASE CalledStep
    <2>1. CASE ReturnsPlain \/ ReturnsUnfit \/ ThrowsChecked \/ ThrowsUnchecked \/ GetterThrows
               \/ Imports \/ Quiet
      BY <1>1, <2>1 DEF ReturnsPlain, ReturnsUnfit, ThrowsChecked, ThrowsUnchecked, GetterThrows,
         Imports, Quiet, engine
    <2>2. ASSUME NEW p \in Promises, Settles(p) PROVE PromisesOK'
      <3>1. PICK t \in Endings : Settle(p, t)
        BY <2>2 DEF Settles
      <3> QED
        BY <1>0, <1>5, <2>2, <3>1, EndingsTellable DEF Settles
    <2>3. ASSUME NEW p \in Promises, NEW resolve \in BOOLEAN, ReturnsPromise(p, resolve) PROVE PromisesOK'
      <3>1. UNCHANGED slot
        BY <2>3 DEF ReturnsPromise
      <3>2. CASE MakePromise(p)
        BY <1>4, <3>1, <3>2
      <3>3. CASE MakeThenable(p)
        BY <1>0, <3>1, <3>3 DEF MakeThenable, PromiseStates
      <3>4. CASE UNCHANGED <<promise, told, jobs>>
        BY <1>1, <3>1, <3>4
      <3> QED
        BY <2>3, <3>2, <3>3, <3>4 DEF ReturnsPromise
    <2> QED
      BY <1>6, <2>1, <2>2, <2>3 DEF CalledStep
  <1>7. CASE JudgedStep
    <2>1. CASE Compile \/ RunCompiledFunction
      BY <1>1, <2>1 DEF Compile, RunCompiledFunction
    <2>2. ASSUME NEW p \in Promises, NewPromise(p) PROVE PromisesOK'
      BY <1>4, <2>2 DEF NewPromise
    <2>3. ASSUME NEW p \in Promises, NEW on, React(p, on) PROVE PromisesOK'
      BY <1>1, <2>3 DEF React
    <2> QED
      BY <1>7, <2>1, <2>2, <2>3 DEF JudgedStep
  <1>8. CASE AttachResolver
    <2> DEFINE p == call.awaiting
    <2>1. p \in Promises /\ UNCHANGED promise
      BY <1>0, <1>8 DEF AttachResolver, Awaiting, InCall
    <2>2. ClearSlot \in [Contexts -> Slots]
      BY <1>0 DEF ClearSlot, Unset, Slot, Slots
    <2>3. ASSUME NEW chained \in BOOLEAN, NEW t \in Tellings(chained),
                 slot' = [slot EXCEPT ![context] = IF t.outcome = "fulfilled" THEN Slot("true", p, t.value)
                                                   ELSE Slot("false", p, None)]
          PROVE  slot' \in [Contexts -> Slots]
      <3>1. t.value \in Promises \cup {None}
        BY TellingsTellable DEF Tellable
      <3>2. (IF t.outcome = "fulfilled" THEN Slot("true", p, t.value) ELSE Slot("false", p, None)) \in Slots
        BY <2>1, <3>1 DEF Slot, Slots
      <3> QED
        BY <1>0, <2>3, <3>2
    <2>4. CASE AttachThenable(p)
      <3>1. PICK chained \in BOOLEAN :
              \/ slot' = ClearSlot /\ UNCHANGED told
              \/ \E t \in Tellings(chained) :
                   /\ slot' = [slot EXCEPT ![context] =
                                 IF t.outcome = "fulfilled" THEN Slot("true", p, t.value)
                                 ELSE Slot("false", p, None)]
                   /\ told' = [told EXCEPT ![p] = @ \cup {t}]
        BY <2>4 DEF AttachThenable
      <3> QED
        BY <1>0, <1>3, <2>1, <2>2, <2>3, <3>1, TellingsTellable
    <2>5. CASE AttachNative(p)
      BY <1>0, <2>1, <2>2, <2>5 DEF AttachNative
    <2> QED
      BY <1>8, <2>4, <2>5 DEF AttachResolver
  <1>9. CASE AwaitFails \/ AwaitCrashes \/ ResolveFindsNoJob \/ ResolveThrows \/ DrainThrows \/ DrainEnds
    BY <1>1, <1>9 DEF AwaitFails, AwaitCrashes, ResolveFindsNoJob, ResolveThrows, DrainThrows,
       DrainEnds, engine
  <1>10. CASE ResolveRunsJob \/ DrainRunsJob
    <2> DEFINE job == Head(jobs)
    <2>1. jobs # <<>> /\ RunJob
      BY <1>10 DEF ResolveRunsJob, DrainRunsJob
    <2>2. job \in JobsOf(Callbacks, Contexts)
      BY <1>0, <2>1, HeadAndTail
    <2>3. slot' \in [Contexts -> Slots]
      <3>1. job.context \in Contexts /\ job.promise \in Promises \cup {None}
            /\ job.value \in Promises \cup {None}
        BY <2>2 DEF JobsOf, QueuedJobs
      <3>2. Slot("true", job.promise, job.value) \in Slots /\ Slot("false", job.promise, None) \in Slots
        BY <3>1 DEF Slot, Slots
      <3>3. SetSlot(job)
        BY <2>1 DEF RunJob
      <3> HIDE DEF job
      <3> QED
        BY <1>0, <3>1, <3>2, <3>3 DEF SetSlot
    <2>4. OutcomeOf(job) \in Tellable
      BY <2>2, JobTells DEF JobsOf
    <2>5. CASE job.kind \in {"fulfil", "reject"}
      <3>1. job.promise \in Promises
        BY <2>2, <2>5 DEF JobsOf
      <3>2. Settle(job.promise, OutcomeOf(job))
        BY <2>1, <2>5 DEF RunJob
      <3> QED
        BY <1>5, <2>3, <2>4, <3>1, <3>2
    <2>6. CASE job.kind \in {"answer", "refuse"}
      <3>1. job.promise \in Promises
        BY <2>2, <2>6 DEF JobsOf
      <3>2. told' = [told EXCEPT ![job.promise] = @ \cup {OutcomeOf(job)}] /\ UNCHANGED promise
        BY <2>1, <2>6 DEF RunJob
      <3> QED
        BY <1>0, <1>3, <2>3, <2>4, <3>1, <3>2
    <2>7. CASE job.kind \notin {"fulfil", "reject", "answer", "refuse"}
      BY <1>0, <2>1, <2>3, <2>7 DEF RunJob
    <2> QED
      BY <2>5, <2>6, <2>7
  <1> QED
    BY Steps, <1>2, <1>6, <1>7, <1>8, <1>9, <1>10 DEF ResolveStep, DrainStep

LEMMA ReturnsTyped ==
  ASSUME NEW kind \in AnswerKinds, NEW p \in Promises \cup {None}, NEW v \in Promises \cup {None},
         NEW c \in 0..MaxCalls \cup {None}, Returns(kind, p, v, c)
  PROVE  call' \in Operations /\ answer' \in Answers /\ call'.op = "idle"
  BY DEF Returns, NoCall, Answer, Operations, Answers

(* A call that ends: an exception is taken, left pending or not touched.   *)
LEMMA TakesOrLeaves ==
  ASSUME CallOK, NEW c \in 1..MaxCalls, TakeException(c) \/ UNCHANGED exception \/ exception' = c
  PROVE  exception' \in 0..MaxCalls \cup {None}
  <1>1. c \in 0..MaxCalls
    BY ContextAssumption
  <1>2. exception \in 0..MaxCalls \cup {None}
    BY DEF CallOK
  <1> QED
    BY <1>1, <1>2 DEF TakeException

LEMMA JudgedTyped ==
  ASSUME CallOK, NEW own \in BOOLEAN, calls' \in 1..MaxCalls, EnsureNoException(own)
  PROVE  /\ exception' \in 0..MaxCalls \cup {None}
         /\ call' \in Operations /\ answer' \in Answers /\ call'.op = "idle"
  <1>1. CASE own \/ exception # None
    <2>1. /\ TakeException(calls')
          /\ Returns("error", None, None, IF own THEN calls' ELSE exception)
      BY <1>1 DEF EnsureNoException
    <2>2. (IF own THEN calls' ELSE exception) \in 0..MaxCalls \cup {None}
      BY DEF CallOK
    <2> QED
      BY <2>1, <2>2, TakesOrLeaves, ReturnsTyped DEF AnswerKinds
  <1>2. CASE ~(own \/ exception # None)
    BY <1>2, TakesOrLeaves, ReturnsTyped DEF EnsureNoException, AnswerKinds
  <1> QED
    BY <1>1, <1>2

(* What the loop of resolve_value does when it looks at what was told.     *)
LEMMA CheckSlotTyped ==
  ASSUME CallOK, InCall, Resolving, NEW found \in Slots,
         NEW left, left \subseteq 0..MaxCalls \cup {None}, CheckSlot(found, left), UNCHANGED calls
  PROVE  CallOK' /\ InCall'
  <1>1. call.promise \in Promises /\ call.awaiting \in Promises /\ calls \in 1..MaxCalls
        /\ call.context \in Contexts /\ runtime = "live"
    BY DEF InCall, Resolving
  <1>2. found.value \in Promises \cup {None} /\ found.inner \in Promises \cup {None}
    BY DEF Slots
  <1>3. calls \in 0..MaxCalls /\ call \in Operations /\ answer \in Answers /\ abandoned \subseteq Promises
        /\ exception \in 0..MaxCalls \cup {None}
    BY DEF CallOK
  <1>4. ASSUME NEW kind \in AnswerKinds, NEW v \in Promises \cup {None}, NEW c \in {None, calls},
               Returns(kind, call.promise, v, c), Forsakes(found), exception' \in left \cup {calls}
        PROVE  CallOK' /\ InCall'
    <2>1. call' \in Operations /\ answer' \in Answers /\ call'.op = "idle"
      BY <1>1, <1>3, <1>4, ReturnsTyped
    <2> QED
      BY <1>1, <1>3, <1>4, <2>1 DEF CallOK, InCall, Forsakes
  <1>5. CASE UNCHANGED <<call, answer, abandoned>> /\ exception' \in left /\ runtime' \in {runtime, "crashed"}
    BY <1>1, <1>3, <1>5 DEF CallOK, InCall
  <1>6. CASE /\ found.inner # None
             /\ call' = [call EXCEPT !.op = "await", !.awaiting = found.inner]
             /\ Forsakes(found) /\ exception' \in left /\ UNCHANGED <<runtime, answer>>
    <2>1. call' \in Operations /\ call'.op = "await" /\ call'.promise = call.promise
          /\ call'.awaiting = found.inner
      BY <1>2, <1>3, <1>6 DEF Operations
    <2> QED
      BY <1>1, <1>2, <1>3, <1>6, <2>1 DEF CallOK, InCall, Forsakes
  <1> QED
    BY <1>2, <1>4, <1>5, <1>6 DEF CheckSlot, Crash, AnswerKinds

LEMMA CallStep ==
  ASSUME ContextInv, Next, PromisesOK'
  PROVE  CallOK' /\ InCall'
  <1>0. CallOK /\ InCall /\ HandleOK /\ PromisesOK /\ EngineOK(Callbacks, Contexts)
    BY DEF ContextInv
  <1>1. ASSUME UNCHANGED host, UNCHANGED exception, call.op = "idle" \/ runtime' \in {runtime, "crashed"}
        PROVE  CallOK' /\ InCall'
    BY <1>0, <1>1 DEF host, CallOK, InCall
  <1>2. CASE New \/ Drop \/ WorkInNull \/ AwaitCrashes
    <2>1. call.op = "idle" \/ runtime' \in {runtime, "crashed"}
      BY <1>0, <1>2 DEF New, Drop, WorkInNull, AwaitCrashes, Crash, Idle, InCall
    <2> QED
      BY <1>1, <1>2, <2>1 DEF New, Drop, WorkInNull, AwaitCrashes, engine
  <1>3. ASSUME NEW kind \in AnswerKinds, NEW c \in 0..MaxCalls \cup {None},
               Returns(kind, None, None, c), calls' \in 1..MaxCalls, UNCHANGED abandoned,
               TakeException(calls') \/ UNCHANGED exception \/ LeavesPending
        PROVE CallOK' /\ InCall'
    <2>1. call' \in Operations /\ answer' \in Answers /\ call'.op = "idle"
      BY <1>3, ReturnsTyped
    <2>2. exception' \in 0..MaxCalls \cup {None}
      BY <1>0, <1>3, TakesOrLeaves DEF LeavesPending
    <2>3. calls' \in 0..MaxCalls /\ abandoned' \subseteq Promises
      BY <1>0, <1>3 DEF CallOK
    <2> QED
      BY <2>1, <2>2, <2>3 DEF CallOK, InCall
  <1>4. CASE Reset
    <2>1. calls' \in 1..MaxCalls /\ UNCHANGED <<exception, abandoned>>
      BY <1>4, CalledIn DEF Reset, engine
    <2>2. Returns("value", None, None, None) \/ Returns("reset failed", None, None, None)
      BY <1>4 DEF Reset
    <2> QED
      BY <1>3, <2>1, <2>2 DEF AnswerKinds
  <1>5. CASE CalledStep
    <2>0. /\ calls' \in 1..MaxCalls /\ calls' \in 0..MaxCalls
          /\ runtime = "live" /\ context \in Contexts
      BY <1>5, CalledIn DEF CalledStep
    <2>1. CASE ReturnsPlain \/ Quiet
      BY <1>3, <2>0, <2>1 DEF ReturnsPlain, Quiet, AnswerKinds, engine
    <2>2. CASE ReturnsUnfit
      BY <1>3, <2>0, <2>2 DEF ReturnsUnfit, AnswerKinds
    <2>3. CASE ThrowsChecked \/ GetterThrows
      BY <1>3, <2>0, <2>3 DEF ThrowsChecked, GetterThrows, AnswerKinds
    <2>4. CASE ThrowsUnchecked
      BY <1>3, <2>0, <2>4 DEF ThrowsUnchecked, AnswerKinds
    <2>5. CASE Imports
      BY <1>0, <1>3, <2>0, <2>5 DEF Imports, AnswerKinds, CallOK
    <2>6. ASSUME NEW p \in Promises, Settles(p) PROVE CallOK' /\ InCall'
      BY <1>3, <2>0, <2>6 DEF Settles, AnswerKinds
    <2>7. ASSUME NEW p \in Promises, NEW resolve \in BOOLEAN, ReturnsPromise(p, resolve)
          PROVE  CallOK' /\ InCall'
      <3>1. CASE ~resolve
        BY <1>3, <2>0, <2>7, <3>1 DEF ReturnsPromise, AnswerKinds
      <3>2. CASE resolve
        <4>1. call' = [op |-> "await", promise |-> p, awaiting |-> p, context |-> None]
              /\ UNCHANGED <<runtime, answer, abandoned, exception>>
          BY <2>7, <3>2 DEF ReturnsPromise
        <4> QED
          BY <1>0, <2>0, <4>1 DEF CallOK, InCall, Operations
      <3> QED
        BY <3>1, <3>2
    <2> QED
      BY <1>5, <2>1, <2>2, <2>3, <2>4, <2>5, <2>6, <2>7 DEF CalledStep
  <1>6. CASE JudgedStep
    <2>1. ASSUME NEW own \in BOOLEAN, EnsureNoException(own), calls' \in 1..MaxCalls, UNCHANGED abandoned
          PROVE  CallOK' /\ InCall'
      <3>1. calls' \in 0..MaxCalls /\ abandoned' \subseteq Promises
        BY <1>0, <2>1 DEF CallOK
      <3> QED
        BY <1>0, <2>1, <3>1, JudgedTyped DEF CallOK, InCall
    <2>2. CASE Compile \/ RunCompiledFunction
      BY <2>1, <2>2, CalledIn DEF Compile, RunCompiledFunction
    <2>3. ASSUME NEW p \in Promises, NewPromise(p) PROVE CallOK' /\ InCall'
      BY <2>1, <2>3, CalledIn DEF NewPromise
    <2>4. ASSUME NEW p \in Promises, NEW on, React(p, on) PROVE CallOK' /\ InCall'
      BY <2>1, <2>4, CalledIn DEF React
    <2> QED
      BY <1>6, <2>2, <2>3, <2>4 DEF JudgedStep
  <1>7. CASE ClosureStep
    <2>1. PICK b \in Callbacks : CreateCallback(b) \/ AddCallbackFails(b) \/ ConsoleFails(b)
      BY <1>7 DEF ClosureStep
    <2>2. calls' \in 1..MaxCalls /\ calls' \in 0..MaxCalls
      BY <2>1, CalledIn DEF CreateCallback, AddCallbackFails, ConsoleFails
    <2>3. CASE CreateCallback(b)
      BY <1>3, <2>2, <2>3 DEF CreateCallback, AnswerKinds, engine
    <2>4. CASE AddCallbackFails(b) \/ ConsoleFails(b)
      BY <1>3, <2>2, <2>4 DEF AddCallbackFails, ConsoleFails, AnswerKinds
    <2> QED
      BY <2>1, <2>3, <2>4
  <1>8. CASE ExecutePendingJob
    <2>1. calls' \in 1..MaxCalls /\ runtime' = "live" /\ call' = [NoCall EXCEPT !.op = "drain"]
          /\ UNCHANGED <<answer, abandoned, exception>>
      BY <1>8, MayCallIn DEF ExecutePendingJob, engine, handle
    <2>2. calls' \in 0..MaxCalls
      BY <1>8, MayCallIn DEF ExecutePendingJob
    <2> QED
      BY <1>0, <2>1, <2>2 DEF CallOK, InCall, NoCall, Operations
  <1>9. CASE AttachResolver
    <2>1. /\ call' = [call EXCEPT !.op = "resolve", !.context = context]
          /\ call.op = "await" /\ context \in Contexts
          /\ UNCHANGED <<runtime, calls, answer>>
      BY <1>0, <1>9 DEF AttachResolver, Awaiting, HandleOK, handle
    <2>2. calls \in 1..MaxCalls /\ call.promise \in Promises /\ call.awaiting \in Promises
          /\ runtime \in {"live", "crashed"}
      BY <1>0, <2>1 DEF InCall
    <2>3. exception' \in {exception, calls} /\ abandoned' \subseteq abandoned \cup {call.awaiting}
      BY <1>9 DEF AttachResolver, AttachThenable, AttachNative
    <2>4. call' \in Operations
      BY <1>0, <2>1 DEF CallOK, Operations
    <2>5. exception' \in 0..MaxCalls \cup {None} /\ abandoned' \subseteq Promises
      BY <1>0, <2>2, <2>3 DEF CallOK
    <2>6. InCall'
      BY <1>0, <2>1, <2>2 DEF InCall, CallOK, Operations
    <2> QED
      BY <1>0, <2>1, <2>4, <2>5, <2>6 DEF CallOK
  <1>10. CASE AwaitFails
    <2>1. calls \in 1..MaxCalls /\ call.promise \in Promises
      BY <1>0, <1>10 DEF AwaitFails, Awaiting, InCall
    <2>2. /\ exception' = calls /\ Returns("error", call.promise, None, calls)
          /\ UNCHANGED <<calls, abandoned>> /\ calls \in 0..MaxCalls
      BY <1>0, <1>10 DEF AwaitFails, CallOK
    <2>3. call' \in Operations /\ answer' \in Answers /\ call'.op = "idle"
      BY <2>1, <2>2, ReturnsTyped DEF AnswerKinds
    <2> QED
      BY <1>0, <2>2, <2>3 DEF CallOK, InCall
  <1>11. CASE ResolveFindsNoJob \/ ResolveRunsJob
    <2>1. Resolving /\ UNCHANGED calls
      BY <1>11 DEF ResolveFindsNoJob, ResolveRunsJob
    <2>2. call.context \in Contexts
      BY <1>0, <2>1 DEF Resolving, InCall
    <2>3. slot[call.context] \in Slots /\ slot'[call.context] \in Slots
      BY <1>0, <2>2 DEF PromisesOK
    <2>4. {exception} \subseteq 0..MaxCalls \cup {None} /\ LeftByJob \subseteq 0..MaxCalls \cup {None}
      BY <1>0 DEF CallOK, LeftByJob
    <2> QED
      BY <1>0, <1>11, <2>1, <2>3, <2>4, CheckSlotTyped DEF ResolveFindsNoJob, ResolveRunsJob
  <1>12. CASE ResolveThrows \/ DrainThrows
    <2>1. call.op \in {"resolve", "drain"} /\ UNCHANGED calls /\ TakeException(calls)
      BY <1>12 DEF ResolveThrows, DrainThrows, Resolving, Draining
    <2>2. calls \in 1..MaxCalls
      BY <1>0, <2>1 DEF InCall
    <2>3. exception' \in 0..MaxCalls \cup {None}
      BY <1>0, <2>1, <2>2, TakesOrLeaves
    <2>4. call' \in Operations /\ answer' \in Answers /\ call'.op = "idle" /\ abandoned' \subseteq Promises
      <3>1. CASE ResolveThrows
        <4>1. call.promise \in Promises /\ call.awaiting \in Promises
          BY <1>0, <3>1 DEF ResolveThrows, Resolving, InCall
        <4> QED
          BY <1>0, <2>2, <3>1, <4>1, ReturnsTyped DEF ResolveThrows, CallOK, AnswerKinds
      <3>2. CASE DrainThrows
        BY <1>0, <2>2, <3>2, ReturnsTyped DEF DrainThrows, DrainFails, CallOK, AnswerKinds
      <3> QED
        BY <1>12, <3>1, <3>2
    <2> QED
      BY <1>0, <2>1, <2>2, <2>3, <2>4 DEF CallOK, InCall
  <1>13. CASE DrainRunsJob
    <2>1. UNCHANGED <<runtime, call, calls, answer, abandoned>> /\ exception' \in LeftByJob
      BY <1>13 DEF DrainRunsJob, handle, host
    <2> QED
      BY <1>0, <2>1 DEF CallOK, InCall, LeftByJob
  <1>14. CASE DrainEnds
    <2>1. UNCHANGED <<exception, calls, abandoned>> /\ Returns("drained", None, None, None)
      BY <1>14 DEF DrainEnds, engine
    <2>2. call' \in Operations /\ answer' \in Answers /\ call'.op = "idle"
      BY <2>1, ReturnsTyped DEF AnswerKinds
    <2> QED
      BY <1>0, <2>1, <2>2 DEF CallOK, InCall
  <1> QED
    BY Steps, <1>2, <1>4, <1>5, <1>6, <1>7, <1>8, <1>9, <1>10, <1>11, <1>12, <1>13, <1>14
    DEF ResolveStep, DrainStep

LEMMA ContextInvStep ==
  ASSUME ContextInv, [Next]_vars
  PROVE  ContextInv'
  <1>1. CASE Next
    <2>1. HandleOK' /\ PromisesOK'
      BY <1>1, HandleStep, PromisesStep
    <2>2. CallOK' /\ InCall'
      BY <1>1, <2>1, CallStep
    <2>3. EngineOK(Callbacks, Contexts)'
      <3>1. /\ EngineOK(Callbacks, Contexts) /\ globals \cap Callbacks \subseteq Callbacks
            /\ context \in Contexts \cup {None}
        BY DEF ContextInv, HandleOK
      <3> QED
        BY <1>1, <3>1, EngineStep DEF EngineOK
    <2> QED
      BY <2>1, <2>2, <2>3 DEF ContextInv
  <1>2. CASE UNCHANGED vars
    <2>1. HandleOK' /\ PromisesOK' /\ CallOK'
      BY <1>2 DEF vars, engine, handle, host, ContextInv, HandleOK, PromisesOK, CallOK
    <2>2. EngineOK(Callbacks, Contexts)' /\ InCall'
      BY <1>2 DEF vars, engine, handle, host, ContextInv, EngineOK, InCall
    <2> QED
      BY <2>1, <2>2 DEF ContextInv
  <1> QED
    BY <1>1, <1>2

LEMMA ContextInvariant == Spec => []ContextInv
  BY InitInv, ContextInvStep, PTL DEF Spec

LEMMA InvIsTyped == ContextInv => ContextTypeOK
  <1> SUFFICES ASSUME ContextInv PROVE ContextTypeOK
    OBVIOUS
  <1>1. ReactionsOf(Callbacks, Contexts) = Reactions /\ JobsOf(Callbacks, Contexts) \subseteq QueuedJobs
    BY DEF ReactionsOf, Reactions, JobsOf
  <1>2. jobs \in Seq(QueuedJobs) /\ reactions \in [Promises -> Seq(Reactions)]
    BY <1>1, SeqMonotonic DEF ContextInv, EngineOK
  <1>3. HandleOK /\ PromisesOK /\ CallOK
    BY DEF ContextInv
  <1> QED
    BY <1>2, <1>3 DEF HandleOK, PromisesOK, PromiseStates, Slots, Tellable, CallOK, Operations, Answers,
       AnswerKinds, ContextTypeOK

(* Every variable of a Context holds a value the code may store there.     *)
THEOREM ContextTypeCorrect == Spec => []ContextTypeOK
  BY ContextInvariant, InvIsTyped, PTL

-----------------------------------------------------------------------------
(* The end of the queue.                                                   *)

LEMMA DoneStep ==
  ASSUME OkMeansDone, [Next]_vars
  PROVE  OkMeansDone'
  <1>1. ASSUME NEW kind, kind # "drained", NEW p, NEW v, NEW b, Returns(kind, p, v, b)
        PROVE  OkMeansDone'
    BY <1>1 DEF Returns, Answer, OkMeansDone
  <1>2. ASSUME call'.op # "idle" PROVE OkMeansDone'
    BY <1>2 DEF OkMeansDone, Idle
  <1>3. CASE New \/ Drop \/ WorkInNull \/ AwaitCrashes \/ UNCHANGED vars
    BY <1>3 DEF New, Drop, WorkInNull, AwaitCrashes, vars, engine, host, OkMeansDone, Idle
  <1>4. CASE Reset \/ ClosureStep
    BY <1>1, <1>4 DEF Reset, ClosureStep, CreateCallback, AddCallbackFails, ConsoleFails
  <1>5. CASE CalledStep
    <2>1. CASE ReturnsPlain \/ ReturnsUnfit \/ ThrowsChecked \/ ThrowsUnchecked \/ GetterThrows
               \/ Imports \/ Quiet \/ \E p \in Promises : Settles(p)
      BY <1>1, <2>1 DEF ReturnsPlain, ReturnsUnfit, ThrowsChecked, ThrowsUnchecked, GetterThrows,
         Imports, Quiet, Settles
    <2>2. ASSUME NEW p \in Promises, NEW resolve \in BOOLEAN, ReturnsPromise(p, resolve)
          PROVE  OkMeansDone'
      BY <1>1, <1>2, <2>2 DEF ReturnsPromise
    <2> QED
      BY <1>5, <2>1, <2>2 DEF CalledStep
  <1>6. CASE JudgedStep
    <2>1. ASSUME NEW own \in BOOLEAN, EnsureNoException(own) PROVE OkMeansDone'
      BY <1>1, <2>1 DEF EnsureNoException
    <2> QED
      BY <1>6, <2>1 DEF JudgedStep, Compile, RunCompiledFunction, NewPromise, React
  <1>7. CASE ExecutePendingJob
    BY <1>2, <1>7 DEF ExecutePendingJob, NoCall
  <1>8. CASE AttachResolver
    BY <1>8 DEF AttachResolver, Awaiting, OkMeansDone, Idle
  <1>9. CASE ResolveFindsNoJob \/ ResolveRunsJob
    <2>1. PICK found, left : CheckSlot(found, left) /\ call.op = "resolve"
      BY <1>9 DEF ResolveFindsNoJob, ResolveRunsJob, Resolving
    <2>2. CASE UNCHANGED <<call, answer>>
      BY <2>1, <2>2 DEF OkMeansDone, Idle
    <2>3. CASE call' = [call EXCEPT !.op = "await", !.awaiting = found.inner] /\ UNCHANGED answer
      <3>1. Idle' => call' = call
        BY <2>1, <2>3 DEF Idle
      <3> QED
        BY <2>1, <2>3, <3>1 DEF OkMeansDone, Idle
    <2> QED
      BY <1>1, <2>1, <2>2, <2>3 DEF CheckSlot
  <1>10. CASE AwaitFails \/ ResolveThrows \/ DrainThrows
    BY <1>1, <1>10 DEF AwaitFails, ResolveThrows, DrainThrows, DrainFails
  <1>11. CASE DrainRunsJob
    BY <1>2, <1>11 DEF DrainRunsJob, Draining, host
  <1>12. CASE DrainEnds
    BY <1>12 DEF DrainEnds, engine, OkMeansDone
  <1> QED
    BY Steps, <1>3, <1>4, <1>5, <1>6, <1>7, <1>8, <1>9, <1>10, <1>11, <1>12 DEF ResolveStep, DrainStep

(* execute_pending_job returns Ok on an empty queue only.                  *)
THEOREM OkMeansTheQueueIsEmpty == Spec => []OkMeansDone
  <1>1. Init => OkMeansDone
    BY DEF Init, OkMeansDone
  <1> QED
    BY <1>1, DoneStep, PTL DEF Spec

-----------------------------------------------------------------------------
(* Closures and engine contexts: who owns them, and until when.            *)

(* Every step but the creation, a reset and the drop.                      *)
WorkStep ==
  \/ WorkInNull \/ CalledStep \/ JudgedStep \/ ClosureStep \/ ExecutePendingJob
  \/ ResolveStep \/ DrainStep

(* Those steps keep the closures; what scripts can name more is kept too;  *)
(* and the Context works on, in the context of the job an await ran, or in *)
(* none.                                                                   *)
LEMMA Works ==
  ASSUME WorkStep
  PROVE  /\ runtime = "live" /\ runtime' \in {"live", "crashed"}
         /\ UNCHANGED <<orphaned, made, released>>
         /\ callbacks \subseteq callbacks'
         /\ globals' \cap Callbacks \subseteq globals \cup callbacks'
         /\ context' \in {context, None} \/ (jobs # <<>> /\ context' = Head(jobs).context)
         /\ \/ dangling' \subseteq dangling \cup ((globals \cap Callbacks) \ callbacks)
            \/ jobs # <<>> /\ RunJob
  <1>1. CASE CalledStep
    <2>0. runtime = "live"
      BY <1>1 DEF CalledStep, Called, MayCall
    <2>1. CASE ReturnsPlain \/ ReturnsUnfit
      BY <2>0, <2>1 DEF ReturnsPlain, ReturnsUnfit, Ran, CallsHost, handle
    <2>2. CASE ThrowsChecked \/ ThrowsUnchecked \/ GetterThrows \/ Imports \/ Quiet
      BY <2>0, <2>2 DEF ThrowsChecked, ThrowsUnchecked, GetterThrows, Imports, Quiet, engine, handle
    <2>3. CASE \E p \in Promises : Settles(p)
      BY <2>0, <2>3 DEF Settles, handle
    <2>4. ASSUME NEW p \in Promises, NEW resolve \in BOOLEAN, ReturnsPromise(p, resolve)
          PROVE  /\ UNCHANGED <<runtime, orphaned, made, released, callbacks, context, dangling>>
                 /\ globals' \cap Callbacks \subseteq globals
      BY <2>4, ContextAssumption DEF ReturnsPromise
    <2> QED
      BY <1>1, <2>0, <2>1, <2>2, <2>3, <2>4 DEF CalledStep
  <1>2. CASE JudgedStep
    <2>1. CASE Compile \/ RunCompiledFunction
      BY <2>1 DEF Compile, RunCompiledFunction, Called, MayCall, Ran, CallsHost, handle
    <2>2. ASSUME NEW p \in Promises, NewPromise(p)
          PROVE  /\ runtime = "live"
                 /\ UNCHANGED <<runtime, orphaned, made, released, callbacks, context, dangling>>
                 /\ globals' \cap Callbacks \subseteq globals
      BY <2>2, ContextAssumption DEF NewPromise, Called, MayCall
    <2>3. CASE \E p \in Promises, on \in [Outcomes -> Callbacks \cup {None}] : React(p, on)
      BY <2>3 DEF React, Called, MayCall, handle
    <2> QED
      BY <1>2, <2>1, <2>2, <2>3 DEF JudgedStep
  <1>3. CASE ClosureStep
    BY <1>3 DEF ClosureStep, CreateCallback, AddCallbackFails, ConsoleFails, KeepClosure, Called,
       MayCall, engine
  <1>4. CASE ExecutePendingJob \/ WorkInNull
    BY <1>4 DEF ExecutePendingJob, WorkInNull, MayCall, Crash, engine, handle
  <1>5. CASE AwaitFails \/ AwaitCrashes
    BY <1>5 DEF AwaitFails, AwaitCrashes, Awaiting, Crash, engine, handle
  <1>6. CASE AttachResolver
    BY <1>6 DEF AttachResolver, AttachThenable, AttachNative, Awaiting, CallsHost, handle
  <1>7. CASE DrainStep
    BY <1>7 DEF DrainStep, DrainRunsJob, DrainThrows, DrainEnds, Draining, engine, handle
  <1>8. CASE ResolveFindsNoJob \/ ResolveRunsJob \/ ResolveThrows
    BY <1>8, CheckSlotRuntime
    DEF ResolveFindsNoJob, ResolveRunsJob, ResolveThrows, Resolving, Throws
  <1> QED
    BY <1>1, <1>2, <1>3, <1>4, <1>5, <1>6, <1>7, <1>8 DEF WorkStep, ResolveStep

LEMMA EngineMonotone ==
  ASSUME NEW B, NEW C, NEW B2, NEW C2, B \subseteq B2, C \subseteq C2, EngineOK(B, C)
  PROVE  EngineOK(B2, C2)
  <1>1. JobsOf(B, C) \subseteq JobsOf(B2, C2)
    BY DEF JobsOf
  <1>2. ReactionsOf(B, C) \subseteq ReactionsOf(B2, C2)
    BY DEF ReactionsOf
  <1>3. Seq(JobsOf(B, C)) \subseteq Seq(JobsOf(B2, C2))
    BY <1>1, SeqMonotonic
  <1>4. Seq(ReactionsOf(B, C)) \subseteq Seq(ReactionsOf(B2, C2))
    BY <1>2, SeqMonotonic
  <1> QED
    BY <1>3, <1>4 DEF EngineOK

LEMMA NothingQueued ==
  ASSUME NEW B, NEW C, ContextInv, jobs = <<>>, \A p \in Promises : reactions[p] = <<>>
  PROVE  EngineOK(B, C)
  <1>1. <<>> \in Seq(JobsOf(B, C)) /\ <<>> \in Seq(ReactionsOf(B, C))
    BY EmptySeq
  <1>2. reactions \in [Promises -> Seq(ReactionsOf(Callbacks, Contexts))]
    BY DEF ContextInv, EngineOK
  <1> QED
    BY <1>1, <1>2 DEF EngineOK

(* Unless a reset left jobs behind, the queue and the reactions belong to  *)
(* the context made last and to closures that are kept; so does all that   *)
(* scripts can name.                                                       *)
OwnedInv ==
  /\ runtime = "none" => EngineOK({}, {}) /\ globals = {}
  /\ (runtime = "live" /\ ~orphaned) =>
       /\ EngineOK(callbacks, {made}) /\ globals \cap Callbacks \subseteq callbacks
       /\ context \in {made, None} /\ made \in Contexts
  /\ dangling # {} => orphaned

LEMMA OwnedStep ==
  ASSUME ContextInv, OwnedInv, [Next]_vars
  PROVE  OwnedInv'
  <1>1. CASE New
    <2>1. EngineOK({}, {}) /\ globals = {} /\ runtime' \in {"live", "freed"}
          /\ UNCHANGED <<jobs, reactions, globals, dangling, orphaned>>
      BY <1>1 DEF New, OwnedInv, engine
    <2>2. EngineOK(callbacks', {made'})
      BY <2>1, EngineMonotone
    <2>3. runtime' = "live" => context' = 1 /\ made' = 1 /\ 1 \in Contexts
      BY <1>1, ContextAssumption DEF New, Contexts
    <2> QED
      BY <2>1, <2>2, <2>3 DEF OwnedInv, EngineOK
  <1>2. CASE Drop
    BY <1>2 DEF Drop, Dropped, OwnedInv, engine
  <1>3. CASE Reset
    <2>1. UNCHANGED <<jobs, reactions, dangling>> /\ runtime' \in {"live", "freed"}
      BY <1>3 DEF Reset, Called, MayCall, Dropped, engine
    <2>2. (dangling' # {} => orphaned')
      BY <1>3, <2>1 DEF Reset, OwnedInv
    <2>3. ASSUME runtime' = "live", ~orphaned'
          PROVE  /\ EngineOK(callbacks', {made'}) /\ globals' = {}
                 /\ context' = made' /\ made' \in Contexts
      <3>1. jobs = <<>> /\ globals' = {} /\ \A p \in Promises : reactions[p] = <<>>
        BY <1>3, <2>3 DEF Reset
      <3>2. made < MaxContexts /\ made' = made + 1 /\ context' = made + 1
        BY <1>3, <2>3 DEF Reset, Dropped, ResetMakes
      <3>3. made \in 0..MaxContexts
        BY DEF ContextInv, HandleOK
      <3> QED
        BY <3>1, <3>2, <3>3, NothingQueued, ContextAssumption DEF Contexts
    <2> QED
      BY <2>1, <2>2, <2>3 DEF OwnedInv, EngineOK
  <1>4. CASE Next /\ WorkStep
    <2>1. runtime = "live" /\ runtime' # "none" /\ UNCHANGED <<orphaned, made>>
      BY <1>4, Works
    <2>2. CASE orphaned
      BY <2>1, <2>2 DEF OwnedInv
    <2>3. CASE ~orphaned
      <3>1. /\ EngineOK(callbacks, {made}) /\ globals \cap Callbacks \subseteq callbacks
            /\ context \in {made, None} /\ made \in Contexts /\ dangling = {}
        BY <2>1, <2>3 DEF OwnedInv
      <3>2. Next /\ callbacks \subseteq Callbacks /\ {made} \subseteq Contexts
        BY <1>4, <3>1 DEF ContextInv, HandleOK
      <3>3. jobs' \in Seq(JobsOf(callbacks, {made}))
            /\ reactions' \in [Promises -> Seq(ReactionsOf(callbacks, {made}))]
        BY <3>1, <3>2, EngineStep
      <3>4. JobsOf(callbacks, {made}) \subseteq JobsOf(callbacks', {made})
            /\ ReactionsOf(callbacks, {made}) \subseteq ReactionsOf(callbacks', {made})
        BY <1>4, Works DEF JobsOf, ReactionsOf
      <3>5. EngineOK(callbacks, {made})'
        BY <2>1, <3>3, <3>4, SeqMonotonic DEF EngineOK
      <3>6. jobs # <<>> => Head(jobs) \in JobsOf(callbacks, {made})
        BY <3>1, HeadAndTail
      <3>7. context' \in {made, None}
        BY <1>4, <3>1, <3>6, Works DEF JobsOf
      <3>8. dangling' = {}
        BY <1>4, <3>1, <3>6, Works DEF JobsOf, RunJob
      <3> QED
        BY <1>4, <2>1, <3>1, <3>5, <3>7, <3>8, Works DEF OwnedInv
    <2> QED
      BY <2>2, <2>3
  <1>5. CASE UNCHANGED vars
    BY <1>5 DEF vars, engine, handle, OwnedInv, EngineOK
  <1> QED
    BY Steps, <1>1, <1>2, <1>3, <1>4, <1>5 DEF WorkStep

LEMMA OwnedInvariant == Spec => [](ContextInv /\ OwnedInv)
  <1>1. Init => OwnedInv
    <2> SUFFICES ASSUME Init PROVE OwnedInv
      OBVIOUS
    <2>1. EngineOK({}, {})
      BY InitInv, NothingQueued DEF Init
    <2> QED
      BY <2>1 DEF Init, OwnedInv
  <1> QED
    BY <1>1, OwnedStep, InitInv, ContextInvStep, PTL DEF Spec

(* No closure is called after it was dropped, unless a reset left jobs of  *)
(* the old context behind.                                                 *)
THEOREM NoClosureCalledLate == Spec => []ClosuresOutliveCalls
  <1>1. OwnedInv => ClosuresOutliveCalls
    BY DEF OwnedInv, ClosuresOutliveCalls
  <1> QED
    BY <1>1, OwnedInvariant, PTL

(* Each engine context but the last was given back once, the last by the   *)
(* drop.                                                                   *)
FreedInv ==
  ~orphaned =>
    /\ runtime = "none" => made = 0 /\ \A c \in Contexts : released[c] = 0
    /\ runtime \in {"live", "crashed"} =>
         \A c \in Contexts : released[c] = IF c < made THEN 1 ELSE 0
    /\ (runtime = "freed" /\ answer.kind # "reset failed") =>
         \A c \in Contexts : released[c] = IF c < made \/ c = made THEN 1 ELSE 0

LEMMA ContextsArePositive == \A c \in Contexts : c \in Nat /\ c > 0
  BY ContextAssumption DEF Contexts

LEMMA FreedStep ==
  ASSUME ContextInv, OwnedInv, FreedInv, [Next]_vars
  PROVE  FreedInv'
  <1>0. made \in Nat /\ released \in [Contexts -> Nat] /\ \A c \in Contexts : c \in Nat /\ c > 0
    BY ContextAssumption, ContextsArePositive DEF ContextInv, HandleOK
  <1>1. CASE New
    <2>1. /\ UNCHANGED <<released, orphaned>> /\ runtime = "none"
          /\ (runtime' = "live" /\ made' = 1) \/ (runtime' = "freed" /\ made' = made)
      BY <1>1 DEF New
    <2>2. ~orphaned => made = 0 /\ \A c \in Contexts : released'[c] = 0
      BY <2>1 DEF FreedInv
    <2>3. \A c \in Contexts : ~(c < 1) /\ ~(c < 0) /\ c # 0
      BY <1>0
    <2> QED
      BY <2>1, <2>2, <2>3 DEF FreedInv
  <1>2. ASSUME runtime = "live", context # None, ~orphaned
        PROVE  context = made /\ made \in Contexts
               /\ \A c \in Contexts : released[c] = IF c < made THEN 1 ELSE 0
    BY <1>2 DEF OwnedInv, FreedInv
  <1>3. ASSUME runtime = "live", context # None, ~orphaned, FreeContext(1)
        PROVE  \A c \in Contexts : released'[c] = IF c < made \/ c = made THEN 1 ELSE 0
    <2>1. released[made] = 0
      BY <1>0, <1>2, <1>3
    <2> QED
      BY <1>0, <1>2, <1>3, <2>1 DEF FreeContext
  <1>4. CASE Drop
    BY <1>3, <1>4 DEF Drop, Dropped, FreedInv
  <1>5. CASE Reset
    <2>1. runtime = "live" /\ context # None /\ (~orphaned' => ~orphaned)
      BY <1>5 DEF Reset, Called, MayCall
    <2>2. CASE Dropped(2) /\ Returns("reset failed", None, None, None)
      BY <2>2 DEF Dropped, Returns, Answer, FreedInv
    <2>3. CASE FreeContext(1) /\ ResetMakes /\ UNCHANGED runtime
      <3>1. made' = made + 1 /\ runtime' = "live"
        BY <2>1, <2>3 DEF ResetMakes
      <3>2. \A c \in Contexts : c < made' <=> c < made \/ c = made
        BY <1>0, <3>1
      <3> QED
        BY <1>3, <2>1, <2>3, <3>1, <3>2 DEF FreedInv
    <2> QED
      BY <1>5, <2>2, <2>3 DEF Reset
  <1>6. CASE WorkStep
    BY <1>6, Works DEF FreedInv
  <1>7. CASE UNCHANGED vars
    BY <1>7 DEF vars, handle, host, FreedInv
  <1> QED
    BY Steps, <1>1, <1>4, <1>5, <1>6, <1>7 DEF WorkStep

(* Each engine context is given back exactly once: see ContextsFreedOnce.  *)
THEOREM ContextsAreFreedOnce == Spec => []ContextsFreedOnce
  <1>1. Init => FreedInv
    BY DEF Init, FreedInv
  <1>2. \A c \in Contexts : ~(c < 0)
    BY ContextsArePositive
  <1>3. ContextInv /\ FreedInv => ContextsFreedOnce
    <2> SUFFICES ASSUME ContextInv, FreedInv, ~orphaned, answer.kind # "reset failed",
                        NEW c \in Contexts
                 PROVE  released[c] = IF c < made \/ (c = made /\ runtime = "freed") THEN 1 ELSE 0
      BY DEF ContextsFreedOnce
    <2>1. runtime \in {"none", "live", "freed", "crashed"}
      BY DEF ContextInv, HandleOK
    <2>2. CASE runtime = "none"
      <3>1. made = 0 /\ released[c] = 0
        BY <2>2 DEF FreedInv
      <3> QED
        BY <1>2, <2>2, <3>1
    <2>3. CASE runtime \in {"live", "freed", "crashed"}
      BY <2>3 DEF FreedInv
    <2> QED
      BY <2>1, <2>2, <2>3
  <1> QED
    BY <1>1, <1>3, OwnedInvariant, FreedStep, PTL DEF Spec

-----------------------------------------------------------------------------
(* Which context the Context works in, while it awaits and afterwards.     *)

(* An await enters the loop of resolve_value by AttachResolver, and stays  *)
(* there until something is found in the slot.                             *)
LEMMA StaysInLoop ==
  ASSUME ContextInv, Next, Resolving'
  PROVE  \/ AttachResolver
         \/ /\ ResolveFindsNoJob \/ ResolveRunsJob
            /\ UNCHANGED <<call, answer, abandoned>> /\ slot'[call.context].result = "unset"
  <1>0. call'.op = "resolve" /\ runtime' = "live"
    BY DEF Resolving
  <1>1. ASSUME NEW kind, NEW p, NEW v, NEW b, Returns(kind, p, v, b) PROVE FALSE
    BY <1>0, <1>1 DEF Returns, NoCall
  <1>2. CASE New \/ Drop \/ WorkInNull \/ AwaitCrashes
    BY <1>0, <1>2 DEF New, Drop, WorkInNull, AwaitCrashes, Crash, host, Idle, ContextInv, InCall
  <1>3. CASE Reset \/ ClosureStep
    BY <1>1, <1>3 DEF Reset, ClosureStep, CreateCallback, AddCallbackFails, ConsoleFails
  <1>4. CASE CalledStep
    BY <1>0, <1>1, <1>4 DEF CalledStep, ReturnsPlain, ReturnsUnfit, ThrowsChecked, ThrowsUnchecked,
       GetterThrows, Imports, Quiet, Settles, ReturnsPromise
  <1>5. CASE JudgedStep
    <2>1. ASSUME NEW own \in BOOLEAN, EnsureNoException(own) PROVE FALSE
      BY <1>1, <2>1 DEF EnsureNoException
    <2> QED
      BY <1>5, <2>1 DEF JudgedStep, Compile, RunCompiledFunction, NewPromise, React
  <1>6. CASE ExecutePendingJob
    BY <1>0, <1>6 DEF ExecutePendingJob, NoCall
  <1>7. CASE AwaitFails \/ ResolveThrows \/ DrainStep
    BY <1>0, <1>1, <1>7 DEF AwaitFails, ResolveThrows, DrainStep, DrainRunsJob, DrainThrows,
       DrainFails, DrainEnds, Draining, host
  <1>8. CASE ResolveFindsNoJob \/ ResolveRunsJob
    <2>1. PICK found, left : CheckSlot(found, left) /\ found = slot'[call.context]
      BY <1>8 DEF ResolveFindsNoJob, ResolveRunsJob
    <2>3. ~(call' = [call EXCEPT !.op = "await", !.awaiting = found.inner])
      BY <1>0 DEF ContextInv, CallOK, Operations
    <2>4. CASE found.result = "unset"
      BY <1>8, <2>1, <2>4 DEF CheckSlot
    <2>5. CASE found.result # "unset"
      BY <1>0, <1>1, <2>1, <2>3, <2>5 DEF CheckSlot, Crash
    <2> QED
      BY <2>4, <2>5
  <1> QED
    BY Steps, <1>2, <1>3, <1>4, <1>5, <1>6, <1>7, <1>8 DEF ResolveStep

(* When the loop finds an outcome before it ran a job, a thenable told it. *)
AwaitInv ==
  LET found == slot[call.context] IN
  (Resolving /\ found.result # "unset") =>
    promise[found.value] = "thenable" /\ found.value \in abandoned

LEMMA AwaitStep ==
  ASSUME ContextInv, AwaitInv, [Next]_vars
  PROVE  AwaitInv'
  <1>1. CASE UNCHANGED vars
    BY <1>1 DEF vars, engine, handle, host, AwaitInv, Resolving
  <1>2. CASE Next /\ AttachResolver
    <2> DEFINE p == call.awaiting
    <2>1. context \in Contexts /\ UNCHANGED promise /\ slot \in [Contexts -> Slots]
      BY <1>2 DEF AttachResolver, ContextInv, HandleOK, PromisesOK
    <2>2. call'.context = context
      BY <1>2 DEF AttachResolver, ContextInv, CallOK, Operations
    <2>3. CASE slot' = ClearSlot
      <3>1. slot'[context].result = "unset"
        BY <2>1, <2>3 DEF ClearSlot, Unset, Slot
      <3> QED
        BY <2>2, <3>1 DEF AwaitInv
    <2>4. ASSUME promise[p] = "thenable", NEW t,
                 slot' = [slot EXCEPT ![context] = IF t.outcome = "fulfilled" THEN Slot("true", p, t.value)
                                                   ELSE Slot("false", p, None)],
                 p \in abandoned'
          PROVE  AwaitInv'
      <3>1. slot'[context].value = p
        BY <2>1, <2>4 DEF Slot
      <3> QED
        BY <2>1, <2>2, <2>4, <3>1 DEF AwaitInv
    <2> QED
      BY <1>2, <2>3, <2>4 DEF AttachResolver, AttachThenable, AttachNative
  <1>3. CASE Next /\ ~AttachResolver
    BY <1>3, StaysInLoop DEF AwaitInv
  <1> QED
    BY <1>1, <1>2, <1>3

LEMMA AwaitInvariant == Spec => [](ContextInv /\ AwaitInv)
  <1>1. Init => AwaitInv
    BY DEF Init, AwaitInv, Resolving
  <1> QED
    BY <1>1, AwaitStep, InitInv, ContextInvStep, PTL DEF Spec

(* When a call returns, the Context works in the engine context made last, *)
(* or in none after a thenable answered at once: see HandleIsCurrent.      *)
THEOREM HandleStaysCurrent == Spec => HandleIsCurrent
  <1> DEFINE Current ==
        (runtime' = "live" /\ Idle' /\ ~orphaned') =>
          \/ context' = made'
          \/ context' = None /\ call.op = "resolve" /\ AnsweredAtOnce
          \/ context' = None /\ context = None /\ call.op = "drain"
  <1>1. ASSUME ContextInv, AwaitInv, OwnedInv', Next PROVE Current
    <2> SUFFICES ASSUME runtime' = "live", Idle', context' = None
                 PROVE  \/ call.op = "resolve" /\ AnsweredAtOnce
                        \/ context = None /\ call.op = "drain"
      BY <1>1 DEF OwnedInv
    <2>0. None \notin Nat /\ made \in Nat
      BY <1>1, ContextAssumption DEF ContextInv, HandleOK
    <2>1. ~New /\ ~Drop /\ ~Reset /\ ~WorkInNull
      <3>1. context' # 1 /\ context' # made + 1
        BY <2>0
      <3> QED
        BY <3>1 DEF New, Drop, Reset, Dropped, ResetMakes, WorkInNull, Crash
    <2>2. ~CalledStep /\ ~ClosureStep
      <3>1. ~CalledStep
        BY DEF CalledStep, Called, ReturnsPlain, ReturnsUnfit, ThrowsChecked, ThrowsUnchecked,
           GetterThrows, Imports, Quiet, Settles, ReturnsPromise, handle
      <3>2. ~ClosureStep
        BY DEF ClosureStep, CreateCallback, AddCallbackFails, ConsoleFails, Called
      <3> QED
        BY <3>1, <3>2
    <2>3. ~JudgedStep
      BY DEF JudgedStep, Called, Compile, RunCompiledFunction, NewPromise, React, handle
    <2>4. ~ExecutePendingJob /\ ~AwaitFails /\ ~AwaitCrashes
      BY DEF ExecutePendingJob, NoCall, Idle, AwaitFails, AwaitCrashes, Crash, handle
    <2>5. ~AttachResolver
      BY DEF AttachResolver, handle
    <2>6. ~ResolveRunsJob /\ ~ResolveThrows
      <3>0. jobs # <<>> => Head(jobs).context \in Contexts
        BY <1>1, HeadAndTail DEF ContextInv, JobsOf
      <3>1. jobs # <<>> => Head(jobs).context # None
        BY <3>0, ContextAssumption DEF Contexts
      <3> QED
        BY <3>1 DEF ResolveRunsJob, ResolveThrows, Throws
    <2>7. CASE ResolveFindsNoJob
      <3>1. Resolving /\ call.op = "resolve" /\ jobs = <<>>
        BY <2>7 DEF ResolveFindsNoJob, Resolving
      <3>2. slot[call.context].result # "unset"
        BY <2>7, <3>1 DEF ResolveFindsNoJob, CheckSlot, Idle
      <3> QED
        BY <1>1, <3>1, <3>2 DEF AwaitInv, AnsweredAtOnce
    <2>8. CASE DrainStep
      BY <2>8 DEF DrainStep, DrainRunsJob, DrainThrows, DrainEnds, Draining, handle
    <2> QED
      BY <1>1, Steps, <2>1, <2>2, <2>3, <2>4, <2>5, <2>6, <2>7, <2>8 DEF ResolveStep
  <1>2. ContextInv /\ AwaitInv /\ OwnedInv' /\ [Next]_vars => [Current]_vars
    BY <1>1
  <1> QED
    BY <1>2, OwnedInvariant, AwaitInvariant, PTL DEF Spec, HandleIsCurrent

(***************************************************************************)
(* Whose outcome resolve_value returns: SettledValueIsItsOwn, for any      *)
(* number of promises, contexts and calls.                                 *)
(*                                                                         *)
(* The two global variables of the slot are written by the handlers of     *)
(* every await there ever was.  So the invariant follows the handlers: a   *)
(* job or a reaction of __resolvePromise belongs to a promise whose await  *)
(* was abandoned, save one, which belongs to the promise awaited now.      *)
(***************************************************************************)

(* The jobs __resolvePromise leads to and those of a thenable that speaks  *)
(* later, and what a job and a slot say.                                   *)
Handlers == {"then", "pass", "catch"}
Speakers == {"answer", "refuse"}
Said(fulfilled, v) == IF fulfilled THEN Outcome("fulfilled", v) ELSE Outcome("rejected", None)

(* Jobs that tell the truth, T being what the promises told, and of which  *)
(* those of an await belong to promises of W; reactions on p of which the  *)
(* same holds.                                                             *)
TrueJobs(T, W) ==
  {j \in QueuedJobs : /\ j.kind \in Handlers \cup Speakers => j.promise \in W
                      /\ j.kind \in Handlers => Said(j.kind = "then", j.value) \in T[j.promise]}
Watchers(p, W) == {r \in Reactions : r.promise = p /\ (r.kind = "resolver" => p \in W)}

(* The promises P and T, the reactions R and the queue Q fit together.     *)
Fits(P, T, R, Q, W) ==
  /\ Q \in Seq(TrueJobs(T, W))
  /\ \A p \in Promises : R[p] \in Seq(Watchers(p, W)) /\ (R[p] # <<>> => P[p] = "pending")

(* All elements of s are in S, but perhaps the k-th.                       *)
AllBut(s, k, S) == \A i \in 1..Len(s) : i # k => s[i] \in S

(* Of the resolvers of p, which is not in W, there is one at most.         *)
Once(T, R, Q, W, p) ==
  \E k \in Nat \ {0} :
    \/ Q \in Seq(TrueJobs(T, W)) /\ AllBut(R[p], k, Watchers(p, W))
    \/ R[p] \in Seq(Watchers(p, W)) /\ AllBut(Q, k, TrueJobs(T, W))

(* What was told stays told.                                               *)
Grows(T, T2) == \A p \in Promises : T[p] \subseteq T2[p]

-----------------------------------------------------------------------------
(* Sequences all but one of whose elements are in a set.                   *)

LEMMA AllButNone ==
  ASSUME NEW S, NEW s \in Seq(S), NEW k
  PROVE  AllBut(s, k, S)
  BY LenProperties DEF AllBut

LEMMA AllButMore ==
  ASSUME NEW S, NEW S2, S \subseteq S2, NEW s, NEW k, AllBut(s, k, S)
  PROVE  AllBut(s, k, S2)
  BY DEF AllBut

LEMMA AllButFirst ==
  ASSUME NEW S, NEW S2, NEW s \in Seq(S2), s # <<>>, AllBut(s, 1, S)
  PROVE  Tail(s) \in Seq(S)
  <1>1. /\ Tail(s) \in Seq(S2) /\ Len(s) \in Nat /\ Len(Tail(s)) = Len(s) - 1
        /\ \A i \in 1..Len(Tail(s)) : Tail(s)[i] = s[i + 1]
    BY HeadTailProperties, LenProperties, EmptySeq
  <1>2. \A i \in 1..Len(Tail(s)) : Tail(s)[i] \in S
    BY <1>1 DEF AllBut
  <1>3. DOMAIN Tail(s) = 1..Len(Tail(s)) /\ Tail(s) \in [1..Len(Tail(s)) -> S2] /\ Len(Tail(s)) \in Nat
    BY <1>1, LenProperties
  <1>4. Tail(s) \in [1..Len(Tail(s)) -> S]
    BY <1>2, <1>3
  <1> QED
    BY <1>3, <1>4, SeqDef

LEMMA AllButTail ==
  ASSUME NEW S, NEW S2, NEW s \in Seq(S2), s # <<>>, NEW k \in Nat, AllBut(s, k, S)
  PROVE  AllBut(Tail(s), k - 1, S)
  <1>1. /\ Len(s) \in Nat /\ Len(Tail(s)) = Len(s) - 1
        /\ \A i \in 1..Len(Tail(s)) : Tail(s)[i] = s[i + 1]
    BY HeadTailProperties, LenProperties, EmptySeq
  <1> QED
    BY <1>1 DEF AllBut

LEMMA AllButExtended ==
  ASSUME NEW S, NEW S2, NEW s \in Seq(S2), NEW k, AllBut(s, k, S), NEW t \in Seq(S)
  PROVE  AllBut(s \o t, k, S)
  <1>1. s \in Seq(S \cup S2) /\ t \in Seq(S \cup S2) /\ Len(s) \in Nat /\ Len(t) \in Nat
        /\ \A i \in 1..Len(t) : t[i] \in S
    BY SeqMonotonic, LenProperties
  <1>2. /\ Len(s \o t) = Len(s) + Len(t)
        /\ \A i \in 1..Len(s) + Len(t) :
             (s \o t)[i] = IF i <= Len(s) THEN s[i] ELSE t[i - Len(s)]
    BY <1>1, ConcatProperties
  <1> QED
    BY <1>1, <1>2 DEF AllBut

LEMMA AllButPrefixed ==
  ASSUME NEW S, NEW S2, NEW s \in Seq(S), NEW t \in Seq(S2), NEW k \in Nat \ {0}, AllBut(t, k, S)
  PROVE  Len(s) + k \in Nat \ {0} /\ AllBut(s \o t, Len(s) + k, S)
  <1>1. s \in Seq(S \cup S2) /\ t \in Seq(S \cup S2) /\ Len(s) \in Nat /\ Len(t) \in Nat
        /\ \A i \in 1..Len(s) : s[i] \in S
    BY SeqMonotonic, LenProperties
  <1>2. /\ Len(s \o t) = Len(s) + Len(t)
        /\ \A i \in 1..Len(s) + Len(t) :
             (s \o t)[i] = IF i <= Len(s) THEN s[i] ELSE t[i - Len(s)]
    BY <1>1, ConcatProperties
  <1>3. ASSUME NEW i \in 1..Len(s \o t), i # Len(s) + k PROVE (s \o t)[i] \in S
    <2>1. CASE i <= Len(s)
      BY <1>1, <1>2, <2>1
    <2>2. CASE i > Len(s)
      <3>1. i - Len(s) \in 1..Len(t) /\ i - Len(s) # k
        BY <1>1, <1>2, <1>3, <2>2
      <3>2. t[i - Len(s)] \in S
        BY <3>1 DEF AllBut
      <3> QED
        BY <1>1, <1>2, <2>2, <3>2
    <2> QED
      BY <1>1, <1>2, <2>1, <2>2
  <1> QED
    BY <1>1, <1>3 DEF AllBut

-----------------------------------------------------------------------------
(* The parts of Fits.                                                      *)

LEMMA TrueJobsMore ==
  ASSUME NEW T, NEW T2, Grows(T, T2), NEW W, NEW W2, W \subseteq W2, W \subseteq Promises
  PROVE  TrueJobs(T, W) \subseteq TrueJobs(T2, W2)
  BY DEF TrueJobs, Grows

LEMMA GrowsSame ==
  ASSUME NEW T
  PROVE  Grows(T, T)
  BY DEF Grows

LEMMA FitsMore ==
  ASSUME NEW P, NEW T, NEW R, NEW Q, NEW W, NEW W2, W \subseteq W2, W \subseteq Promises,
         Fits(P, T, R, Q, W)
  PROVE  Fits(P, T, R, Q, W2)
  <1>1. TrueJobs(T, W) \subseteq TrueJobs(T, W2)
    BY TrueJobsMore, GrowsSame
  <1>2. \A p \in Promises : Watchers(p, W) \subseteq Watchers(p, W2)
    BY DEF Watchers
  <1> QED
    BY <1>1, <1>2, SeqMonotonic DEF Fits

LEMMA FitsOnce ==
  ASSUME NEW P, NEW T, NEW R, NEW Q, NEW W, NEW p, Fits(P, T, R, Q, W \cup {p}),
         Q \in Seq(TrueJobs(T, W)), R[p] \in Seq(Watchers(p, W))
  PROVE  Fits(P, T, R, Q, W)
  <1>1. \A q \in Promises : q # p => Watchers(q, W) = Watchers(q, W \cup {p})
    BY DEF Watchers
  <1> QED
    BY <1>1 DEF Fits

(* The jobs of reactions on p, when p tells t.                             *)
LEMMA FireTrue ==
  ASSUME NEW T, NEW W, NEW p \in Promises, NEW r \in Watchers(p, W), NEW t \in Tellable, t \in T[p]
  PROVE  Fire(r, t) \in TrueJobs(T, W)
  <1>1. r \in ReactionsOf(Callbacks, Contexts) /\ r.promise = p /\ (r.kind = "resolver" => p \in W)
    BY DEF Watchers, Reactions, ReactionsOf
  <1>2. Fire(r, t) \in QueuedJobs
    BY <1>1, FireInQueue DEF JobsOf
  <1>3. r.kind \in {"resolver", "host"}
    BY <1>1 DEF ReactionsOf
  <1>4. CASE r.kind = "resolver"
    <2>1. Fire(r, t) = Job(IF t.outcome = "fulfilled" THEN "then" ELSE "pass",
                           r.promise, r.context, r.on[t.outcome], t.value)
      BY <1>4 DEF Fire
    <2>2. /\ Fire(r, t).promise = p /\ Fire(r, t).value = t.value
          /\ Fire(r, t).kind = IF t.outcome = "fulfilled" THEN "then" ELSE "pass"
      BY <1>1, <2>1 DEF Job
    <2>3. t = Said(t.outcome = "fulfilled", t.value)
      BY DEF Tellable, Said, Outcome, Outcomes
    <2>4. Said(Fire(r, t).kind = "then", Fire(r, t).value) = t
      BY <2>2, <2>3
    <2> QED
      BY <1>1, <1>2, <1>4, <2>2, <2>4 DEF TrueJobs
  <1>5. CASE r.kind = "host"
    <2>1. Fire(r, t).kind \in {"idle", "host"}
      BY <1>5 DEF Fire, Job
    <2> QED
      BY <1>2, <2>1 DEF TrueJobs, Handlers, Speakers
  <1> QED
    BY <1>3, <1>4, <1>5

LEMMA FiredAllBut ==
  ASSUME NEW T, NEW W, NEW V, NEW p \in Promises, reactions[p] \in Seq(V), NEW k,
         AllBut(reactions[p], k, Watchers(p, W)), NEW t \in Tellable, t \in T[p]
  PROVE  /\ Len(Fired(p, t)) = Len(reactions[p])
         /\ AllBut(Fired(p, t), k, TrueJobs(T, W))
  <1> DEFINE n == Len(reactions[p])
             f == [i \in 1..n |-> Fire(reactions[p][i], t)]
  <1>1. n \in Nat /\ DOMAIN reactions[p] = 1..n
    BY LenProperties
  <1>2. Fired(p, t) = f
    BY <1>1 DEF Fired
  <1>3. Len(f) = n
    <2>1. f \in [1..n -> {f[i] : i \in 1..n}]
      OBVIOUS
    <2>2. f \in Seq({f[i] : i \in 1..n})
      BY <1>1, <2>1, SeqDef
    <2>3. DOMAIN f = 1..Len(f) /\ Len(f) \in Nat
      BY <2>2, LenProperties
    <2>4. DOMAIN f = 1..n
      OBVIOUS
    <2>5. \A m \in Nat : 1..n = 1..m => m = n
      BY <1>1
    <2> QED
      BY <2>3, <2>4, <2>5
  <1>4. \A i \in 1..n : i # k => f[i] \in TrueJobs(T, W)
    BY FireTrue DEF AllBut
  <1> QED
    BY <1>2, <1>3, <1>4 DEF AllBut

LEMMA FiredTrue ==
  ASSUME NEW T, NEW W, NEW p \in Promises, reactions[p] \in Seq(Watchers(p, W)),
         NEW t \in Tellable, t \in T[p]
  PROVE  Fired(p, t) \in Seq(TrueJobs(T, W))
  <1>1. /\ Len(Fired(p, t)) = Len(reactions[p]) /\ Len(reactions[p]) \in Nat
        /\ DOMAIN reactions[p] = 1..Len(reactions[p])
        /\ AllBut(Fired(p, t), 0, TrueJobs(T, W))
    BY AllButNone, FiredAllBut, LenProperties
  <1>2. \A i \in 1..Len(reactions[p]) : Fired(p, t)[i] \in TrueJobs(T, W)
    BY <1>1 DEF AllBut
  <1>3. Fired(p, t) \in [1..Len(reactions[p]) -> TrueJobs(T, W)]
    BY <1>1, <1>2 DEF Fired
  <1> QED
    BY <1>1, <1>3, SeqDef

LEMMA FiredNothing ==
  ASSUME NEW p, reactions[p] = <<>>, NEW t
  PROVE  Fired(p, t) = <<>>
  <1>1. DOMAIN reactions[p] = {}
    OBVIOUS
  <1>2. Fired(p, t) = [i \in {} |-> Fire(reactions[p][i], t)]
    BY <1>1 DEF Fired
  <1> QED
    BY <1>2

-----------------------------------------------------------------------------
(* A job runs.                                                             *)

LEMMA ToldMore ==
  ASSUME told \in [Promises -> SUBSET Tellable], NEW p \in Promises, NEW t,
         told' = [told EXCEPT ![p] = @ \cup {t}]
  PROVE  Grows(told, told') /\ t \in told'[p]
  BY DEF Grows

LEMMA SettleFits ==
  ASSUME promise \in [Promises -> PromiseStates], told \in [Promises -> SUBSET Tellable],
         DOMAIN reactions = Promises,
         NEW p \in Promises, NEW t, Settle(p, t)
  PROVE  /\ Grows(told, told')
         /\ \A q \in Promises : q # p => promise'[q] = promise[q] /\ reactions'[q] = reactions[q]
         /\ promise[p] = "pending" => t \in told'[p] /\ reactions'[p] = <<>>
         /\ promise[p] # "pending" => UNCHANGED <<promise, reactions>>
  <1>1. CASE promise[p] = "pending"
    BY <1>1, ToldMore DEF Settle
  <1>2. CASE promise[p] # "pending"
    BY <1>2, GrowsSame DEF Settle
  <1> QED
    BY <1>1, <1>2

(* What RunJob does to the promises.                                       *)
SettlesNow(job) == job.kind \in {"fulfil", "reject"} /\ promise[job.promise] = "pending"
JobSettles(job) ==
  /\ job \in QueuedJobs
  /\ job.kind \in {"fulfil", "reject"} \cup Speakers => job.promise \in Promises
  /\ OutcomeOf(job) \in Tellable
  /\ Grows(told, told')
  /\ \A q \in Promises :
       ~(q = job.promise /\ SettlesNow(job)) => promise'[q] = promise[q] /\ reactions'[q] = reactions[q]
  /\ SettlesNow(job) => OutcomeOf(job) \in told'[job.promise] /\ reactions'[job.promise] = <<>>
  /\ job.kind \in Speakers => OutcomeOf(job) \in told'[job.promise]

LEMMA RunJobSettles ==
  ASSUME ContextInv, jobs # <<>>, RunJob
  PROVE  JobSettles(Head(jobs))
  <1> DEFINE job == Head(jobs)
  <1>1. job \in JobsOf(Callbacks, Contexts)
    BY HeadAndTail DEF ContextInv
  <1>2. job \in QueuedJobs
    BY <1>1 DEF JobsOf
  <1>3. (job.kind \in {"fulfil", "reject"} \cup Speakers => job.promise \in Promises)
        /\ OutcomeOf(job) \in Tellable
    BY <1>1, <1>2, JobTells DEF JobsOf, Speakers
  <1>4. promise \in [Promises -> PromiseStates] /\ told \in [Promises -> SUBSET Tellable]
        /\ DOMAIN reactions = Promises
    BY DEF ContextInv, PromisesOK, EngineOK
  <1>5. ASSUME job.kind \in {"fulfil", "reject"} PROVE JobSettles(job)
    <2>1. Settle(job.promise, OutcomeOf(job))
      BY <1>5 DEF RunJob
    <2> HIDE DEF job
    <2>2. /\ Grows(told, told')
          /\ \A q \in Promises : q # job.promise => promise'[q] = promise[q] /\ reactions'[q] = reactions[q]
          /\ promise[job.promise] = "pending" =>
               OutcomeOf(job) \in told'[job.promise] /\ reactions'[job.promise] = <<>>
          /\ promise[job.promise] # "pending" => UNCHANGED <<promise, reactions>>
      BY <1>3, <1>4, <1>5, <2>1, SettleFits
    <2> QED
      BY <1>2, <1>3, <1>5, <2>2 DEF JobSettles, SettlesNow, Speakers
  <1>6. ASSUME job.kind \in Speakers PROVE JobSettles(job)
    <2>1. told' = [told EXCEPT ![job.promise] = @ \cup {OutcomeOf(job)}] /\ UNCHANGED <<promise, reactions>>
      BY <1>6 DEF RunJob, Speakers
    <2> HIDE DEF job
    <2>2. Grows(told, told') /\ OutcomeOf(job) \in told'[job.promise]
      BY <1>3, <1>4, <1>6, <2>1, ToldMore
    <2> QED
      BY <1>2, <1>3, <1>6, <2>1, <2>2 DEF JobSettles, SettlesNow, Speakers
  <1>7. ASSUME job.kind \notin {"fulfil", "reject"} \cup Speakers PROVE JobSettles(job)
    <2>1. UNCHANGED <<promise, told, reactions>>
      BY <1>7 DEF RunJob, Speakers
    <2> HIDE DEF job
    <2> QED
      BY <1>2, <1>3, <1>7, <2>1, GrowsSame DEF JobSettles, SettlesNow
  <1> QED
    BY <1>5, <1>6, <1>7

(* The jobs it queues, when it belongs to W and what waits for the promise *)
(* that it settles does.                                                   *)
LEMMA SpawnedTrue ==
  ASSUME ContextInv, jobs # <<>>, RunJob, NEW W, W \subseteq Promises,
         Head(jobs) \in TrueJobs(told, W),
         \A q \in Promises :
           (q = Head(jobs).promise /\ Head(jobs).kind \in {"fulfil", "reject"}) =>
             reactions[q] \in Seq(Watchers(q, W)) /\ (reactions[q] # <<>> => promise[q] = "pending")
  PROVE  Spawned(Head(jobs)) \in Seq(TrueJobs(told', W))
  <1> DEFINE job == Head(jobs)
             q == job.promise
             t == OutcomeOf(job)
  <1>1. CASE job.kind \in {"fulfil", "reject"}
    <2>1. q \in Promises /\ t \in Tellable /\ Spawned(job) = Fired(q, t)
      BY <1>1, RunJobSettles DEF Spawned, JobSettles
    <2>2. CASE reactions[q] = <<>>
      BY <2>1, <2>2, FiredNothing, EmptySeq
    <2>3. CASE reactions[q] # <<>>
      <3>1. t \in told'[q] /\ reactions[q] \in Seq(Watchers(q, W))
        BY <1>1, <2>1, <2>3, RunJobSettles DEF JobSettles, SettlesNow
      <3> HIDE DEF q, t
      <3> QED
        BY <2>1, <3>1, FiredTrue
    <2> QED
      BY <2>2, <2>3
  <1>2. CASE job.kind = "then"
    <2>1. [job EXCEPT !.kind = "idle", !.value = None] \in TrueJobs(told', W)
      BY <1>2 DEF TrueJobs, QueuedJobs, JobKinds, Handlers, Speakers
    <2>2. Spawned(job) = <<[job EXCEPT !.kind = "idle", !.value = None]>>
      BY <1>2 DEF Spawned
    <2> QED
      BY <2>1, <2>2, SingletonSeq
  <1>3. CASE job.kind = "pass"
    <2> DEFINE last == [job EXCEPT !.kind = "catch"]
    <2>1. Outcome("rejected", None) \in told[job.promise] /\ job.promise \in W /\ job \in QueuedJobs
      BY <1>3 DEF TrueJobs, Handlers, Said
    <2>2. Outcome("rejected", None) \in told'[job.promise]
      BY <2>1, RunJobSettles DEF JobSettles, Grows
    <2>3. last \in QueuedJobs /\ last.kind = "catch" /\ last.promise = job.promise
      BY <2>1 DEF QueuedJobs, JobKinds
    <2>4. Spawned(job) = <<last>>
      BY <1>3 DEF Spawned
    <2> HIDE DEF last
    <2>5. last \in TrueJobs(told', W)
      BY <2>1, <2>2, <2>3 DEF TrueJobs, Handlers, Speakers, Said
    <2> QED
      BY <2>4, <2>5, SingletonSeq
  <1>4. CASE job.kind \notin {"fulfil", "reject", "then", "pass"}
    <2>1. Spawned(job) = <<>>
      BY <1>4 DEF Spawned
    <2> QED
      BY <2>1, EmptySeq
  <1> QED
    BY <1>1, <1>2, <1>3, <1>4

LEMMA RunJobFits ==
  ASSUME ContextInv, jobs # <<>>, RunJob, NEW W, W \subseteq Promises,
         Fits(promise, told, reactions, jobs, W)
  PROVE  Fits(promise', told', reactions', jobs', W)
  <1> DEFINE job == Head(jobs)
  <1>1. job \in TrueJobs(told, W) /\ Tail(jobs) \in Seq(TrueJobs(told, W))
    BY HeadTailProperties DEF Fits
  <1>2. Spawned(job) \in Seq(TrueJobs(told', W))
    BY <1>1, SpawnedTrue DEF Fits
  <1>3. TrueJobs(told, W) \subseteq TrueJobs(told', W)
    BY TrueJobsMore, RunJobSettles DEF JobSettles
  <1>4. Tail(jobs) \in Seq(TrueJobs(told', W))
    BY <1>1, <1>3, SeqMonotonic
  <1>5. jobs' \in Seq(TrueJobs(told', W))
    BY <1>2, <1>4, ConcatProperties DEF RunJob
  <1>6. ASSUME NEW q \in Promises
        PROVE  reactions'[q] \in Seq(Watchers(q, W)) /\ (reactions'[q] # <<>> => promise'[q] = "pending")
    <2>1. reactions[q] \in Seq(Watchers(q, W)) /\ (reactions[q] # <<>> => promise[q] = "pending")
      BY DEF Fits
    <2>2. <<>> \in Seq(Watchers(q, W))
      BY EmptySeq
    <2>3. reactions'[q] = <<>> \/ (reactions'[q] = reactions[q] /\ promise'[q] = promise[q])
      BY RunJobSettles DEF JobSettles, SettlesNow
    <2> QED
      BY <2>1, <2>2, <2>3
  <1> QED
    BY <1>5, <1>6 DEF Fits

(* There is still one resolver of p at most; none after it has spoken.     *)
LEMMA RunJobOnce ==
  ASSUME ContextInv, jobs # <<>>, RunJob, NEW W, W \subseteq Promises, NEW p \in Promises,
         Fits(promise, told, reactions, jobs, W \cup {p}), Once(told, reactions, jobs, W, p)
  PROVE  /\ Once(told', reactions', jobs', W, p)
         /\ (Head(jobs).kind \in {"then", "catch"} \cup Speakers /\ Head(jobs).promise = p) =>
              Fits(promise', told', reactions', jobs', W)
  <1> DEFINE job == Head(jobs)
             tail == Tail(jobs)
             T == TrueJobs(told, W)
             T2 == TrueJobs(told', W)
             V == W \cup {p}
             T3 == TrueJobs(told', V)
             rs == reactions[p]
  <1>1. /\ JobSettles(job) /\ jobs' = tail \o Spawned(job) /\ T \subseteq T2
        /\ jobs \in Seq(TrueJobs(told, V)) /\ Fits(promise', told', reactions', jobs', V)
    BY RunJobSettles, RunJobFits, TrueJobsMore DEF RunJob, JobSettles, Fits
  <1>2. \A q \in Promises :
          /\ reactions[q] # <<>> => promise[q] = "pending"
          /\ reactions[q] \in Seq(Watchers(q, V))
          /\ q # p => reactions[q] \in Seq(Watchers(q, W))
    <2>1. \A q \in Promises : q # p => Watchers(q, V) = Watchers(q, W)
      BY DEF Watchers
    <2> QED
      BY <2>1 DEF Fits
  <1>3. reactions'[p] = <<>> \/ (~(job.promise = p /\ SettlesNow(job)) /\ reactions'[p] = rs)
    BY <1>1 DEF JobSettles
  <1>4. tail \in Seq(TrueJobs(told, V))
    BY <1>1, HeadTailProperties
  <1>5. ASSUME job \in T, ~(job.promise = p /\ job.kind \in {"fulfil", "reject"}) \/ rs \in Seq(Watchers(p, W))
        PROVE  Spawned(job) \in Seq(T2)
    BY <1>2, <1>5, SpawnedTrue
  <1>6. ASSUME job \in T, job.kind \in {"then", "catch"} \cup Speakers, job.promise = p
        PROVE  Fits(promise', told', reactions', jobs', W)
    <2>1. p \in W
      BY <1>6 DEF TrueJobs, Handlers
    <2>2. W = V
      BY <2>1
    <2> QED
      BY <1>1, <2>2
  <1>7. <<>> \in Seq(Watchers(p, W))
    BY EmptySeq
  <1>8. PICK k \in Nat \ {0} :
          \/ jobs \in Seq(T) /\ AllBut(rs, k, Watchers(p, W))
          \/ rs \in Seq(Watchers(p, W)) /\ AllBut(jobs, k, T)
    BY DEF Once
  <1>9. CASE jobs \in Seq(T) /\ AllBut(rs, k, Watchers(p, W))
    <2>1. job \in T /\ tail \in Seq(T)
      BY <1>9, HeadTailProperties
    <2>2. tail \in Seq(T2)
      BY <1>1, <2>1, SeqMonotonic
    <2>3. CASE job.promise = p /\ job.kind \in {"fulfil", "reject"} /\ rs # <<>>
      <3> DEFINE t == OutcomeOf(job)
      <3>1. t \in Tellable /\ t \in told'[p] /\ reactions'[p] = <<>>
        BY <1>1, <1>2, <2>3 DEF JobSettles, SettlesNow
      <3>2. Spawned(job) = Fired(p, t)
        BY <2>3 DEF Spawned
      <3>3. rs \in Seq(Watchers(p, V))
        BY <1>2
      <3> HIDE DEF t, V, job, tail, T, T2
      <3>4. Fired(p, t) \in Seq(TrueJobs(told', V)) /\ AllBut(Fired(p, t), k, TrueJobs(told', W))
        BY <1>9, <3>1, <3>3, FiredTrue, FiredAllBut
      <3>5. Len(tail) + k \in Nat \ {0} /\ AllBut(jobs', Len(tail) + k, T2)
        BY <1>1, <2>2, <3>2, <3>4, AllButPrefixed DEF T2
      <3>6. job.kind \notin {"then", "catch"} \cup Speakers
        BY <2>3 DEF Speakers
      <3> QED
        BY <1>7, <3>1, <3>5, <3>6 DEF Once, T2, job
    <2>4. CASE ~(job.promise = p /\ job.kind \in {"fulfil", "reject"} /\ rs # <<>>)
      <3>1. Spawned(job) \in Seq(T2)
        BY <1>5, <1>7, <2>1, <2>4
      <3>2. jobs' \in Seq(T2)
        BY <1>1, <2>2, <3>1, ConcatProperties
      <3>3. AllBut(reactions'[p], k, Watchers(p, W))
        BY <1>3, <1>7, <1>9, AllButNone
      <3> QED
        BY <1>6, <2>1, <3>2, <3>3 DEF Once
    <2> QED
      BY <2>3, <2>4
  <1>10. CASE rs \in Seq(Watchers(p, W)) /\ AllBut(jobs, k, T)
    <2>1. reactions'[p] \in Seq(Watchers(p, W))
      BY <1>3, <1>7, <1>10
    <2>2. CASE k # 1
      <3>1. Len(jobs) \in Nat /\ Len(jobs) >= 1 /\ job = jobs[1]
        BY <1>1, LenProperties, EmptySeq
      <3>2. job \in T
        BY <1>10, <2>2, <3>1 DEF AllBut
      <3>3. Spawned(job) \in Seq(T2)
        BY <1>5, <1>10, <3>2
      <3>4. AllBut(tail, k - 1, T2) /\ k - 1 \in Nat \ {0}
        BY <1>1, <1>10, <2>2, AllButTail, AllButMore
      <3>5. AllBut(jobs', k - 1, T2)
        BY <1>1, <1>4, <3>3, <3>4, AllButExtended
      <3> QED
        BY <1>6, <2>1, <3>2, <3>4, <3>5 DEF Once
    <2>3. CASE k = 1
      <3>1. tail \in Seq(T2)
        <4>1. AllBut(jobs, 1, T)
          BY <1>10, <2>3
        <4> HIDE DEF T, T2
        <4>2. tail \in Seq(T)
          BY <1>1, <4>1, AllButFirst
        <4> QED
          BY <1>1, <4>2, SeqMonotonic
      <3>2. CASE job.kind = "pass"
        <4> DEFINE last == [job EXCEPT !.kind = "catch"]
        <4>1. Spawned(job) = <<last>>
          BY <3>2 DEF Spawned
        <4> HIDE DEF last, T2, tail
        <4>2. <<last>> \in Seq({last}) /\ AllBut(<<last>>, 1, T2)
          BY DEF AllBut
        <4>3. jobs' = tail \o <<last>>
          BY <1>1, <4>1
        <4>4. 1 \in Nat \ {0}
          OBVIOUS
        <4>5. Len(tail) + 1 \in Nat \ {0} /\ AllBut(tail \o <<last>>, Len(tail) + 1, T2)
          BY <3>1, <4>2, <4>4, AllButPrefixed
        <4>6. AllBut(jobs', Len(tail) + 1, T2)
          BY <4>3, <4>5
        <4> QED
          BY <2>1, <3>2, <4>5, <4>6 DEF Once, T2, Speakers
      <3>3. CASE job.kind # "pass"
        <4>1. Spawned(job) \in Seq(T2)
          <5>1. CASE job.kind = "then"
            <6> DEFINE rest == [job EXCEPT !.kind = "idle", !.value = None]
            <6>1. rest \in T2 /\ Spawned(job) = <<rest>>
              BY <1>1, <5>1 DEF JobSettles, TrueJobs, QueuedJobs, JobKinds, Handlers, Speakers, Spawned
            <6> QED
              BY <6>1, SingletonSeq
          <5>2. CASE job.kind \in {"catch"} \cup Speakers
            BY <5>2, EmptySeq DEF Spawned, Speakers
          <5>3. CASE job.kind \notin Handlers \cup Speakers
            <6>1. job \in T
              BY <1>1, <5>3 DEF TrueJobs, JobSettles
            <6> QED
              BY <1>5, <1>10, <6>1
          <5> QED
            BY <3>3, <5>1, <5>2, <5>3 DEF Handlers
        <4>2. jobs' \in Seq(T2)
          BY <1>1, <3>1, <4>1, ConcatProperties
        <4>3. AllBut(jobs', k, T2)
          BY <4>2, AllButNone
        <4>4. Fits(promise', told', reactions', jobs', W)
          BY <1>1, <2>1, <4>2, FitsOnce
        <4> QED
          BY <2>1, <4>3, <4>4 DEF Once
      <3> QED
        BY <3>2, <3>3
    <2> QED
      BY <2>2, <2>3
  <1> QED
    BY <1>8, <1>9, <1>10

-----------------------------------------------------------------------------
(* Every step.                                                             *)

(* Jobs are added, promises whose reactions went were settled.             *)
LEMMA FitsAdds ==
  ASSUME NEW P, NEW P2, NEW T, NEW T2, NEW R, NEW R2, NEW Q, NEW W, W \subseteq Promises,
         Fits(P, T, R, Q, W), Grows(T, T2),
         \A p \in Promises : R2[p] = <<>> \/ (R2[p] = R[p] /\ (P[p] = "pending" => P2[p] = "pending")),
         NEW js \in Seq(TrueJobs(T2, W))
  PROVE  Fits(P2, T2, R2, Q \o js, W)
  <1>1. TrueJobs(T, W) \subseteq TrueJobs(T2, W)
    BY TrueJobsMore
  <1>2. Q \in Seq(TrueJobs(T2, W))
    BY <1>1, SeqMonotonic DEF Fits
  <1>3. Q \o js \in Seq(TrueJobs(T2, W))
    BY <1>2, ConcatProperties
  <1>4. ASSUME NEW p \in Promises
        PROVE  R2[p] \in Seq(Watchers(p, W)) /\ (R2[p] # <<>> => P2[p] = "pending")
    BY EmptySeq DEF Fits
  <1> QED
    BY <1>3, <1>4 DEF Fits

LEMMA FitsAddsNone ==
  ASSUME NEW P, NEW P2, NEW T, NEW T2, NEW R, NEW R2, NEW Q, NEW W, W \subseteq Promises,
         Fits(P, T, R, Q, W), Grows(T, T2),
         \A p \in Promises : R2[p] = <<>> \/ (R2[p] = R[p] /\ (P[p] = "pending" => P2[p] = "pending"))
  PROVE  Fits(P2, T2, R2, Q, W)
  <1>1. Q \o <<>> = Q
    BY ConcatEmptySeq DEF Fits
  <1>2. Fits(P2, T2, R2, Q \o <<>>, W)
    BY EmptySeq, FitsAdds
  <1> QED
    BY <1>1, <1>2

(* A job that is not of an await.                                          *)
LEMMA OtherJob ==
  ASSUME NEW T, NEW W, NEW kind \in JobKinds \ (Handlers \cup Speakers), NEW p \in Promises \cup {None},
         context \in Contexts, NEW b \in Callbacks \cup {None}, NEW v \in Promises \cup {None},
         kind = "host" => b # None
  PROVE  Job(kind, p, context, b, v) \in TrueJobs(T, W)
  BY DEF Job, TrueJobs, QueuedJobs

LEMMA RanFits ==
  ASSUME NEW W, W \subseteq Promises, Fits(promise, told, reactions, jobs, W), context \in Contexts, Ran
  PROVE  Fits(promise, told, reactions, jobs', W)
  <1>1. PICK js \in {<<>>, <<Job("throw", None, context, None, None)>>}
                  \cup {<<Job("host", None, context, b, None)>> : b \in globals \cap Callbacks} :
               jobs' = jobs \o js
    BY DEF Ran
  <1>2. js \in Seq(TrueJobs(told, W))
    <2>1. Job("throw", None, context, None, None) \in TrueJobs(told, W)
      BY OtherJob DEF JobKinds, Handlers, Speakers
    <2>2. \A b \in Callbacks : Job("host", None, context, b, None) \in TrueJobs(told, W)
      BY OtherJob, ContextAssumption DEF JobKinds, Handlers, Speakers
    <2> QED
      BY <1>1, <2>1, <2>2, EmptySeq, SingletonSeq
  <1>3. Fits(promise, told, reactions, jobs \o js, W)
    BY <1>2, GrowsSame, FitsAdds
  <1> QED
    BY <1>1, <1>3

LEMMA MakePromiseFits ==
  ASSUME ContextInv, NEW W, W \subseteq Promises, Fits(promise, told, reactions, jobs, W),
         context \in Contexts, NEW p \in Promises, MakePromise(p) \/ MakeThenable(p)
  PROVE  Fits(promise', told', reactions, jobs', W) /\ Grows(told, told')
  <1>1. promise \in [Promises -> PromiseStates] /\ promise[p] = "new"
        /\ told \in [Promises -> SUBSET Tellable]
    BY DEF ContextInv, PromisesOK, MakePromise, MakeThenable
  <1>2. \A q \in Promises : promise[q] = "pending" => promise'[q] = "pending"
    BY <1>1 DEF MakePromise, MakeThenable
  <1>3. Grows(told, told')
    <2>1. CASE \E t \in Endings : told' = [told EXCEPT ![p] = @ \cup {t}]
      BY <1>1, <2>1, ToldMore
    <2> QED
      BY <2>1, GrowsSame DEF MakePromise, MakeThenable
  <1>4. CASE UNCHANGED jobs
    BY <1>2, <1>3, <1>4, FitsAddsNone
  <1> DEFINE settle(t) == Job(IF t.outcome = "fulfilled" THEN "fulfil" ELSE "reject",
                              p, context, None, t.value)
  <1>5. ASSUME NEW js \in {<<>>} \cup {<<settle(t)>> : t \in Endings}, jobs' = jobs \o js
        PROVE  Fits(promise', told', reactions, jobs', W)
    <2>1. ASSUME NEW t \in Endings PROVE settle(t) \in TrueJobs(told', W)
      <3>1. t.value \in Promises \cup {None}
        BY EndingsTellable DEF Tellable
      <3> QED
        BY <3>1, OtherJob DEF JobKinds, Handlers, Speakers
    <2>2. js \in Seq(TrueJobs(told', W))
      BY <1>5, <2>1, EmptySeq, SingletonSeq
    <2> QED
      BY <1>2, <1>3, <1>5, <2>2, FitsAdds
  <1> QED
    BY <1>3, <1>4, <1>5 DEF MakePromise, MakeThenable

LEMMA AttachFits ==
  ASSUME ContextInv, NEW W, W \subseteq Promises, Fits(promise, told, reactions, jobs, W),
         NEW p \in Promises, NEW r \in Watchers(p, W), Attach(r)
  PROVE  Fits(promise, told, reactions', jobs', W)
  <1>1. r.promise = p /\ told \in [Promises -> SUBSET Tellable] /\ DOMAIN reactions = Promises
    BY DEF Watchers, ContextInv, PromisesOK, EngineOK
  <1>2. CASE promise[p] = "pending"
    <2>1. reactions' = [reactions EXCEPT ![p] = Append(@, r)] /\ jobs' = jobs
      BY <1>1, <1>2 DEF Attach
    <2>2. Append(reactions[p], r) \in Seq(Watchers(p, W))
      BY AppendProperties DEF Fits
    <2> QED
      BY <1>1, <1>2, <2>1, <2>2 DEF Fits
  <1>3. CASE promise[p] # "pending"
    <2>1. PICK t \in told[p] : jobs' = Append(jobs, Fire(r, t))
      BY <1>1, <1>3 DEF Attach
    <2>2. Fire(r, t) \in TrueJobs(told, W) /\ reactions' = reactions
      BY <1>1, <1>3, FireTrue DEF Attach
    <2> QED
      BY <2>1, <2>2, AppendProperties DEF Fits
  <1> QED
    BY <1>2, <1>3

(* A thenable that was awaited speaks.                                     *)
LEMMA AttachThenableFits ==
  ASSUME ContextInv, NEW W, W \subseteq Promises, Fits(promise, told, reactions, jobs, W),
         context \in Contexts, NEW p \in W, AttachThenable(p), UNCHANGED promise
  PROVE  Fits(promise', told', reactions', jobs', W) /\ Grows(told, told')
  <1>0. told \in [Promises -> SUBSET Tellable] /\ reactions' = reactions
    BY DEF ContextInv, PromisesOK, AttachThenable
  <1>1. CASE UNCHANGED jobs
    <2>1. UNCHANGED told \/ \E t : told' = [told EXCEPT ![p] = @ \cup {t}]
      BY <1>1 DEF AttachThenable
    <2>2. Grows(told, told')
      BY <1>0, <2>1, ToldMore, GrowsSame
    <2> QED
      BY <1>0, <1>1, <2>2, FitsAddsNone
  <1>2. ASSUME NEW chained \in BOOLEAN, NEW t \in Tellings(chained), UNCHANGED told,
               jobs' = Append(jobs, Job(IF t.outcome = "fulfilled" THEN "answer" ELSE "refuse",
                                        p, context, None, t.value))
        PROVE  Fits(promise', told', reactions', jobs', W)
    <2> DEFINE job == Job(IF t.outcome = "fulfilled" THEN "answer" ELSE "refuse",
                          p, context, None, t.value)
    <2>1. t.value \in Promises \cup {None}
      BY TellingsTellable DEF Tellable
    <2>2. job \in TrueJobs(told, W)
      BY <2>1 DEF Job, TrueJobs, QueuedJobs, JobKinds, Handlers
    <2> HIDE DEF job
    <2>3. Append(jobs, job) \in Seq(TrueJobs(told, W))
      BY <2>2, AppendProperties DEF Fits
    <2> QED
      BY <1>0, <1>2, <2>3 DEF Fits, job
  <1> QED
    BY <1>1, <1>2, GrowsSame DEF AttachThenable

LEMMA FitsStep ==
  ASSUME ContextInv, Next, NEW W, W \subseteq Promises, Fits(promise, told, reactions, jobs, W),
         call.op = "await" => call.awaiting \in W
  PROVE  Fits(promise', told', reactions', jobs', W) /\ Grows(told, told')
  <1> DEFINE Goal == Fits(promise', told', reactions', jobs', W) /\ Grows(told, told')
  <1>0. ASSUME UNCHANGED <<promise, told, jobs, reactions>> PROVE Goal
    BY <1>0, GrowsSame
  <1>1. CASE New \/ Drop \/ Reset \/ WorkInNull \/ ClosureStep \/ ExecutePendingJob
    BY <1>0, <1>1 DEF New, Drop, Reset, WorkInNull, ClosureStep, CreateCallback, AddCallbackFails,
       ConsoleFails, ExecutePendingJob, engine
  <1>2. ASSUME Ran, Called, UNCHANGED <<promise, told, reactions>> PROVE Goal
    BY <1>2, CalledIn, RanFits, GrowsSame
  <1>3. ASSUME NEW p \in Promises, MakePromise(p) \/ MakeThenable(p), Called, UNCHANGED reactions
        PROVE  Goal
    BY <1>3, CalledIn, MakePromiseFits
  <1>4. CASE CalledStep
    <2>0. Called
      BY <1>4 DEF CalledStep
    <2>1. CASE ReturnsPlain \/ ReturnsUnfit
      BY <1>2, <2>0, <2>1 DEF ReturnsPlain, ReturnsUnfit
    <2>2. CASE ThrowsChecked \/ ThrowsUnchecked \/ GetterThrows \/ Imports \/ Quiet
      BY <1>0, <2>2 DEF ThrowsChecked, ThrowsUnchecked, GetterThrows, Imports, Quiet, engine
    <2>3. ASSUME NEW p \in Promises, Settles(p) PROVE Goal
      <3>1. PICK t \in Endings : Settle(p, t) /\ jobs' = jobs \o Fired(p, t) /\ promise[p] = "pending"
        BY <2>3 DEF Settles
      <3>2. promise \in [Promises -> PromiseStates] /\ told \in [Promises -> SUBSET Tellable]
            /\ DOMAIN reactions = Promises /\ t \in Tellable
        BY EndingsTellable DEF ContextInv, PromisesOK, EngineOK
      <3>3. /\ Grows(told, told') /\ t \in told'[p] /\ reactions'[p] = <<>>
            /\ \A q \in Promises : q # p => promise'[q] = promise[q] /\ reactions'[q] = reactions[q]
        BY <3>1, <3>2, SettleFits
      <3>4. Fired(p, t) \in Seq(TrueJobs(told', W))
        BY <3>2, <3>3, FiredTrue DEF Fits
      <3>5. \A q \in Promises : \/ reactions'[q] = <<>>
                                \/ reactions'[q] = reactions[q] /\ (promise[q] = "pending" => promise'[q] = "pending")
        BY <3>3
      <3>6. Fits(promise', told', reactions', jobs \o Fired(p, t), W)
        BY <3>3, <3>4, <3>5, FitsAdds
      <3> QED
        BY <3>1, <3>3, <3>6
    <2>4. ASSUME NEW p \in Promises, NEW resolve \in BOOLEAN, ReturnsPromise(p, resolve) PROVE Goal
      BY <1>0, <1>3, <2>0, <2>4 DEF ReturnsPromise
    <2> QED
      BY <1>4, <2>1, <2>2, <2>3, <2>4 DEF CalledStep
  <1>5. CASE JudgedStep
    <2>1. CASE Compile
      BY <1>0, <2>1 DEF Compile
    <2>2. CASE RunCompiledFunction
      BY <1>2, <2>2 DEF RunCompiledFunction
    <2>3. ASSUME NEW p \in Promises, NewPromise(p) PROVE Goal
      BY <1>3, <2>3 DEF NewPromise
    <2>4. ASSUME NEW p \in Promises, NEW on \in [Outcomes -> Callbacks \cup {None}], React(p, on)
          PROVE  Goal
      <3> DEFINE r == HostReaction(p, on)
      <3>1. context \in Contexts
        BY <2>4, CalledIn DEF React
      <3>2. r \in Watchers(p, W)
        BY <3>1 DEF HostReaction, Watchers, Reactions
      <3>3. Attach(r) /\ UNCHANGED <<promise, told>>
        BY <2>4 DEF React
      <3> HIDE DEF r
      <3> QED
        BY <3>2, <3>3, AttachFits, GrowsSame
    <2> QED
      BY <1>5, <2>1, <2>2, <2>3, <2>4 DEF JudgedStep
  <1>6. CASE AttachResolver
    <2> DEFINE p == call.awaiting
    <2>1. p \in Promises \cap W /\ context \in Contexts /\ UNCHANGED promise
      BY <1>6 DEF AttachResolver, Awaiting, ContextInv, HandleOK, InCall
    <2>2. CASE AttachThenable(p)
      BY <2>1, <2>2, AttachThenableFits
    <2>3. CASE AttachNative(p)
      <3> DEFINE r == Resolver(p)
      <3>1. r \in Watchers(p, W)
        BY <2>1 DEF Resolver, Watchers, Reactions
      <3>2. Attach(r) /\ UNCHANGED told
        BY <2>3 DEF AttachNative
      <3> HIDE DEF r
      <3> QED
        BY <2>1, <3>1, <3>2, AttachFits, GrowsSame
    <2> QED
      BY <1>6, <2>2, <2>3 DEF AttachResolver
  <1>7. CASE AwaitFails \/ AwaitCrashes \/ ResolveFindsNoJob \/ DrainEnds
    BY <1>0, <1>7 DEF AwaitFails, AwaitCrashes, ResolveFindsNoJob, DrainEnds, engine
  <1>8. CASE ResolveRunsJob \/ DrainRunsJob
    BY <1>8, RunJobFits, RunJobSettles DEF ResolveRunsJob, DrainRunsJob, JobSettles
  <1>9. CASE ResolveThrows \/ DrainThrows
    <2>1. jobs # <<>> /\ jobs' = Tail(jobs) /\ UNCHANGED <<promise, told, reactions>>
      BY <1>9 DEF ResolveThrows, DrainThrows, Throws
    <2>2. Tail(jobs) \in Seq(TrueJobs(told, W))
      BY <2>1, HeadTailProperties DEF Fits
    <2> QED
      BY <2>1, <2>2, GrowsSame DEF Fits
  <1> QED
    BY Steps, <1>1, <1>4, <1>5, <1>6, <1>7, <1>8, <1>9 DEF ResolveStep, DrainStep

-----------------------------------------------------------------------------
(* The invariant.                                                          *)

Found(a) == a.kind \in {"settled", "rejected"}

(* Who waits: promises whose await was abandoned, and, once, the promise   *)
(* that is awaited.                                                        *)
WaitInv ==
  IF call.op = "resolve"
    THEN /\ Fits(promise, told, reactions, jobs, abandoned \cup {call.awaiting})
         /\ Once(told, reactions, jobs, abandoned, call.awaiting)
    ELSE Fits(promise, told, reactions, jobs, abandoned)

(* What a slot says of a promise is true.                                  *)
Honest(s) == s.value \in Promises /\ Said(s.result = "true", s.inner) \in told[s.value]
SlotInv == \A c \in Contexts : slot[c].result # "unset" => Honest(slot[c])

(* q is p or a promise of A, or its outcome was fulfilled with q, or so on.*)
Reached(T, A, p, q) ==
  \A S \in SUBSET Promises :
    (A \cup {p} \subseteq S /\ \A r \in S : \A t \in T[r] : t.value # None => t.value \in S) => q \in S

(* What is awaited belongs to the promise resolve_value was given.         *)
ChainInv == call.op \in {"await", "resolve"} => Reached(told, abandoned, call.promise, call.awaiting)

(* So does what it answered.                                               *)
TrueAnswer(a) ==
  Found(a) => /\ a.value \in Promises
              /\ Said(a.kind = "settled", None) \in told[a.value]
              /\ Reached(told, abandoned, a.promise, a.value)

SettledInv == WaitInv /\ SlotInv /\ ChainInv /\ TrueAnswer(answer)

LEMMA ReachedMore ==
  ASSUME NEW T, NEW T2, Grows(T, T2), NEW A, NEW A2, A \subseteq A2, NEW p, NEW q, Reached(T, A, p, q)
  PROVE  Reached(T2, A2, p, q)
  BY DEF Reached, Grows

LEMMA ReachedFirst ==
  ASSUME NEW T, NEW A, NEW p, NEW q \in A \cup {p}
  PROVE  Reached(T, A, p, q)
  BY DEF Reached

LEMMA ReachedNext ==
  ASSUME NEW T, NEW A, NEW p, NEW q, Reached(T, A, p, q), NEW t \in T[q], t.value # None
  PROVE  Reached(T, A, p, t.value)
  BY DEF Reached

LEMMA TrueAnswerMore ==
  ASSUME SettledInv, Grows(told, told'), abandoned \subseteq abandoned', UNCHANGED answer
  PROVE  TrueAnswer(answer)'
  <1>1. CASE ~Found(answer)
    BY <1>1 DEF TrueAnswer, Found
  <1>2. CASE Found(answer)
    <2>1. /\ answer.value \in Promises
          /\ Said(answer.kind = "settled", None) \in told[answer.value]
          /\ Reached(told, abandoned, answer.promise, answer.value)
      BY <1>2 DEF SettledInv, TrueAnswer
    <2>2. Reached(told', abandoned', answer.promise, answer.value)
      BY <2>1, ReachedMore
    <2> QED
      BY <2>1, <2>2 DEF TrueAnswer, Grows, Said, Outcome
  <1> QED
    BY <1>1, <1>2

LEMMA WaitFits ==
  ASSUME ContextInv, WaitInv
  PROVE  Fits(promise, told, reactions, jobs, Promises)
  <1>1. abandoned \subseteq Promises /\ (call.op = "resolve" => call.awaiting \in Promises)
    BY DEF ContextInv, CallOK, InCall
  <1> QED
    BY <1>1, FitsMore DEF WaitInv

(* What handlers write into the slots is true.                             *)
LEMMA SlotStep ==
  ASSUME ContextInv, WaitInv, SlotInv, Next
  PROVE  SlotInv'
  <1>0. slot \in [Contexts -> Slots]
    BY DEF ContextInv, PromisesOK
  <1>1. Fits(promise, told, reactions, jobs, Promises) /\ Grows(told, told')
    <2>1. call.op = "await" => call.awaiting \in Promises
      BY DEF ContextInv, InCall
    <2> QED
      BY <2>1, WaitFits, FitsStep
  <1>2. ASSUME NEW c \in Contexts, slot'[c] = slot[c], slot'[c].result # "unset" PROVE Honest(slot[c])'
    BY <1>1, <1>2 DEF SlotInv, Honest, Grows
  <1>3. CASE UNCHANGED slot
    BY <1>2, <1>3 DEF SlotInv
  <1>4. ASSUME NEW n \in Contexts, NEW p \in Promises, NEW fulfilled \in BOOLEAN, NEW v,
               Said(fulfilled, v) \in told'[p],
               slot' = [slot EXCEPT ![n] = Slot(IF fulfilled THEN "true" ELSE "false", p,
                                                IF fulfilled THEN v ELSE None)]
        PROVE  SlotInv'
    <2>1. ASSUME NEW c \in Contexts, slot'[c].result # "unset" PROVE Honest(slot[c])'
      <3>1. CASE c = n
        <4>1. slot'[c] = Slot(IF fulfilled THEN "true" ELSE "false", p, IF fulfilled THEN v ELSE None)
          BY <1>0, <1>4, <3>1
        <4>2. /\ slot'[c].value = p /\ (slot'[c].result = "true") = fulfilled
              /\ fulfilled => slot'[c].inner = v
          BY <4>1 DEF Slot
        <4>3. Said(slot'[c].result = "true", slot'[c].inner) = Said(fulfilled, v)
          BY <4>2 DEF Said
        <4> QED
          BY <1>4, <4>2, <4>3 DEF Honest
      <3>2. CASE c # n
        BY <1>0, <1>2, <1>4, <2>1, <3>2
      <3> QED
        BY <3>1, <3>2
    <2> QED
      BY <2>1 DEF SlotInv
  <1>5. CASE AttachResolver
    <2> DEFINE p == call.awaiting
    <2>1. p \in Promises /\ context \in Contexts /\ told \in [Promises -> SUBSET Tellable]
      BY <1>5 DEF AttachResolver, Awaiting, ContextInv, HandleOK, PromisesOK, InCall
    <2>2. CASE slot' = ClearSlot
      <3>1. ASSUME NEW c \in Contexts, slot'[c].result # "unset" PROVE slot'[c] = slot[c]
        BY <1>0, <2>2, <3>1 DEF ClearSlot, Unset, Slot
      <3> QED
        BY <1>2, <3>1 DEF SlotInv
    <2>3. ASSUME NEW chained \in BOOLEAN, NEW t \in Tellings(chained),
                 slot' = [slot EXCEPT ![context] = IF t.outcome = "fulfilled" THEN Slot("true", p, t.value)
                                                   ELSE Slot("false", p, None)],
                 told' = [told EXCEPT ![p] = @ \cup {t}]
          PROVE  SlotInv'
      <3> DEFINE fulfilled == t.outcome = "fulfilled"
      <3>1. t \in Tellable
        BY TellingsTellable
      <3>2. t = Said(fulfilled, t.value) /\ fulfilled \in BOOLEAN
        BY <3>1 DEF Tellable, Said, Outcome, Outcomes
      <3>3. t \in told'[p]
        BY <2>1, <2>3, ToldMore
      <3>4. slot' = [slot EXCEPT ![context] = Slot(IF fulfilled THEN "true" ELSE "false", p,
                                                   IF fulfilled THEN t.value ELSE None)]
        BY <2>3
      <3>5. Said(fulfilled, t.value) \in told'[p]
        BY <3>2, <3>3
      <3> HIDE DEF fulfilled, p
      <3> QED
        BY <1>4, <2>1, <3>2, <3>4, <3>5
    <2>4. CASE AttachThenable(p)
      <3>1. PICK chained \in BOOLEAN :
              \/ slot' = ClearSlot
              \/ \E t \in Tellings(chained) :
                   /\ slot' = [slot EXCEPT ![context] =
                                 IF t.outcome = "fulfilled" THEN Slot("true", p, t.value)
                                 ELSE Slot("false", p, None)]
                   /\ told' = [told EXCEPT ![p] = @ \cup {t}]
        BY <2>4 DEF AttachThenable
      <3> QED
        BY <2>2, <2>3, <3>1
    <2> QED
      BY <1>5, <2>2, <2>4 DEF AttachResolver, AttachNative
  <1>6. CASE jobs # <<>> /\ RunJob
    <2> DEFINE job == Head(jobs)
    <2>1. /\ job \in TrueJobs(told, Promises) /\ job.context \in Contexts /\ SetSlot(job)
          /\ JobSettles(job)
      <3>1. job \in TrueJobs(told, Promises)
        BY <1>1, <1>6, HeadTailProperties DEF Fits
      <3> QED
        BY <1>6, <3>1, RunJobSettles DEF TrueJobs, QueuedJobs, RunJob
    <2> HIDE DEF job
    <2>2. CASE job.kind \in {"then", "catch"}
      <3>1. job.promise \in Promises /\ Said(job.kind = "then", job.value) \in told'[job.promise]
        BY <1>1, <2>1, <2>2 DEF TrueJobs, Handlers, Grows
      <3>2. slot' = [slot EXCEPT ![job.context] = Slot(IF job.kind = "then" THEN "true" ELSE "false",
                        job.promise, IF job.kind = "then" THEN job.value ELSE None)]
        BY <2>1, <2>2 DEF SetSlot
      <3>3. (job.kind = "then") \in BOOLEAN
        OBVIOUS
      <3> QED
        BY <1>4, <2>1, <3>1, <3>2, <3>3
    <2>3. CASE job.kind \in Speakers
      <3>1. job.promise \in Promises /\ Said(job.kind = "answer", job.value) \in told'[job.promise]
        BY <2>1, <2>3 DEF JobSettles, Speakers, OutcomeOf, Said
      <3>2. slot' = [slot EXCEPT ![job.context] = Slot(IF job.kind = "answer" THEN "true" ELSE "false",
                        job.promise, IF job.kind = "answer" THEN job.value ELSE None)]
        BY <2>1, <2>3 DEF SetSlot, Speakers
      <3>3. (job.kind = "answer") \in BOOLEAN
        OBVIOUS
      <3> QED
        BY <1>4, <2>1, <3>1, <3>2, <3>3
    <2>4. CASE job.kind \notin {"then", "catch"} \cup Speakers
      <3>1. slot' = slot
        BY <1>0, <2>1, <2>4 DEF SetSlot, Speakers
      <3> QED
        BY <1>3, <3>1
    <2> QED
      BY <2>2, <2>3, <2>4
  <1>7. CASE New \/ Drop \/ Reset \/ WorkInNull \/ ClosureStep \/ ExecutePendingJob
    BY <1>3, <1>7 DEF New, Drop, Reset, WorkInNull, ClosureStep, CreateCallback, AddCallbackFails,
       ConsoleFails, ExecutePendingJob, engine
  <1>8. CASE CalledStep
    <2>1. ASSUME NEW p \in Promises, NEW resolve \in BOOLEAN, ReturnsPromise(p, resolve) \/ Settles(p)
          PROVE  UNCHANGED slot
      BY <2>1 DEF ReturnsPromise, Settles
    <2> QED
      BY <1>3, <1>8, <2>1 DEF CalledStep, ReturnsPlain, ReturnsUnfit, ThrowsChecked, ThrowsUnchecked,
         GetterThrows, Imports, Quiet, engine
  <1>9. CASE JudgedStep
    BY <1>3, <1>9 DEF JudgedStep, Compile, RunCompiledFunction, NewPromise, React
  <1>10. CASE AwaitFails \/ AwaitCrashes \/ ResolveFindsNoJob \/ ResolveThrows \/ DrainThrows \/ DrainEnds
    BY <1>3, <1>10 DEF AwaitFails, AwaitCrashes, ResolveFindsNoJob, ResolveThrows, DrainThrows,
       DrainEnds, engine
  <1>11. CASE ResolveRunsJob \/ DrainRunsJob
    BY <1>6, <1>11 DEF ResolveRunsJob, DrainRunsJob
  <1> QED
    BY Steps, <1>5, <1>7, <1>8, <1>9, <1>10, <1>11 DEF ResolveStep, DrainStep


-----------------------------------------------------------------------------
(* The steps outside resolve_value find nothing and abandon nothing.       *)
HostStep ==
  /\ UNCHANGED abandoned /\ call.op \in {"idle", "drain"} /\ call'.op # "resolve"
  /\ UNCHANGED answer \/ ~Found(answer')
  /\ call'.op = "await" => call'.awaiting = call'.promise

LEMMA HostSteps ==
  ASSUME ContextInv, Next, ~ResolveStep
  PROVE  HostStep
  <1> USE DEF HostStep
  <1>1. ASSUME call.op \in {"idle", "drain"}, call'.op \in {"idle", "drain"},
               UNCHANGED abandoned, UNCHANGED answer \/ ~Found(answer')
        PROVE  HostStep
    BY <1>1
  <1>2. ASSUME NEW kind \in {"value", "error", "drained", "reset failed"}, NEW p, NEW v, NEW b,
               Returns(kind, p, v, b)
        PROVE  call'.op = "idle" /\ ~Found(answer')
    BY <1>2 DEF Returns, NoCall, Answer, Found
  <1>3. CASE New
    BY <1>1, <1>3 DEF New, host, ContextInv, InCall
  <1>4. CASE Drop \/ WorkInNull
    BY <1>1, <1>4 DEF Drop, WorkInNull, host, Idle
  <1>5. CASE Reset
    BY <1>1, <1>2, <1>5 DEF Reset, Called, MayCall, Idle
  <1>6. CASE CalledStep
    <2>0. call.op = "idle"
      BY <1>6 DEF CalledStep, Called, MayCall, Idle
    <2>1. CASE ReturnsPlain \/ ReturnsUnfit \/ ThrowsChecked \/ ThrowsUnchecked \/ GetterThrows
               \/ Imports \/ Quiet \/ \E p \in Promises : Settles(p)
      BY <1>1, <1>2, <2>0, <2>1 DEF ReturnsPlain, ReturnsUnfit, ThrowsChecked, ThrowsUnchecked,
         GetterThrows, Imports, Quiet, Settles
    <2>2. ASSUME NEW p \in Promises, NEW resolve \in BOOLEAN, ReturnsPromise(p, resolve)
          PROVE  HostStep
      <3>1. UNCHANGED abandoned
        BY <2>2 DEF ReturnsPromise
      <3>2. CASE resolve
        <4>1. call' = [op |-> "await", promise |-> p, awaiting |-> p, context |-> None]
              /\ UNCHANGED answer
          BY <2>2, <3>2 DEF ReturnsPromise
        <4>2. call'.op = "await" /\ call'.promise = p /\ call'.awaiting = p
          BY <4>1
        <4> QED
          BY <2>0, <3>1, <4>1, <4>2
      <3>3. CASE ~resolve
        <4>1. Returns("value", None, None, None)
          BY <2>2, <3>3 DEF ReturnsPromise
        <4>2. call'.op = "idle" /\ ~Found(answer')
          BY <1>2, <4>1
        <4> QED
          BY <2>0, <3>1, <4>2
      <3> QED
        BY <3>2, <3>3
    <2> QED
      BY <1>6, <2>1, <2>2 DEF CalledStep
  <1>7. CASE JudgedStep
    <2>1. ASSUME NEW own \in BOOLEAN, EnsureNoException(own), Called, UNCHANGED abandoned
          PROVE  HostStep
      BY <1>1, <1>2, <2>1 DEF EnsureNoException, Called, MayCall, Idle
    <2> QED
      BY <1>7, <2>1 DEF JudgedStep, Compile, RunCompiledFunction, NewPromise, React
  <1>8. CASE ClosureStep
    BY <1>1, <1>2, <1>8 DEF ClosureStep, CreateCallback, AddCallbackFails, ConsoleFails, Called, MayCall, Idle
  <1>9. CASE ExecutePendingJob
    BY <1>1, <1>9 DEF ExecutePendingJob, MayCall, NoCall, Idle
  <1>10. CASE DrainStep
    BY <1>1, <1>2, <1>10 DEF DrainStep, DrainRunsJob, DrainThrows, DrainFails, DrainEnds, Draining, host
  <1> QED
    BY Steps, <1>3, <1>4, <1>5, <1>6, <1>7, <1>8, <1>9, <1>10

(* __resolvePromise is attached: p has one resolver.                       *)
LEMMA AttachOnce ==
  ASSUME ContextInv, NEW W, Fits(promise, told, reactions, jobs, W), NEW p \in Promises,
         NEW r, r.promise = p, Attach(r)
  PROVE  Once(told, reactions', jobs', W, p)
  <1>1. DOMAIN reactions = Promises
    BY DEF ContextInv, EngineOK
  <1>2. reactions[p] \in Seq(Watchers(p, W)) /\ jobs \in Seq(TrueJobs(told, W))
    BY DEF Fits
  <1>3. ASSUME NEW S, NEW s \in Seq(S), NEW x
        PROVE  Len(s) + 1 \in Nat \ {0} /\ AllBut(Append(s, x), Len(s) + 1, S)
    <2>1. s \in Seq(S \cup {x}) /\ Len(s) \in Nat /\ \A i \in 1..Len(s) : s[i] \in S
      BY <1>3, SeqMonotonic, LenProperties
    <2>2. /\ Len(Append(s, x)) = Len(s) + 1
          /\ \A i \in 1..Len(s) : Append(s, x)[i] = s[i]
      BY <2>1, AppendProperties
    <2> QED
      BY <2>1, <2>2 DEF AllBut
  <1>4. CASE promise[p] = "pending"
    <2>1. reactions'[p] = Append(reactions[p], r) /\ jobs' = jobs
      BY <1>1, <1>4 DEF Attach
    <2>2. Len(reactions[p]) + 1 \in Nat \ {0}
          /\ AllBut(reactions'[p], Len(reactions[p]) + 1, Watchers(p, W))
      BY <1>2, <1>3, <2>1
    <2> QED
      BY <1>2, <2>1, <2>2 DEF Once
  <1>5. CASE promise[p] # "pending"
    <2>1. PICK t \in told[p] : jobs' = Append(jobs, Fire(r, t)) /\ reactions' = reactions
      BY <1>5 DEF Attach
    <2>2. Len(jobs) + 1 \in Nat \ {0} /\ AllBut(jobs', Len(jobs) + 1, TrueJobs(told, W))
      BY <1>2, <1>3, <2>1
    <2> QED
      BY <1>2, <2>1, <2>2 DEF Once
  <1> QED
    BY <1>4, <1>5

(* Nobody whose await is not over waits for p yet.                         *)
LEMMA NoneOnce ==
  ASSUME NEW P, NEW T, NEW R, NEW Q, NEW W, NEW p \in Promises, Fits(P, T, R, Q, W)
  PROVE  Once(T, R, Q, W, p)
  <1>1. R[p] \in Seq(Watchers(p, W)) /\ Q \in Seq(TrueJobs(T, W))
    BY DEF Fits
  <1>2. AllBut(R[p], 1, Watchers(p, W))
    BY <1>1, AllButNone
  <1> QED
    BY <1>1, <1>2 DEF Once

LEMMA SettledSame ==
  ASSUME SettledInv, UNCHANGED <<promise, told, reactions, jobs, slot, call, answer, abandoned>>
  PROVE  SettledInv'
  <1>1. WaitInv'
    BY DEF SettledInv, WaitInv
  <1>2. SlotInv' /\ ChainInv'
    BY DEF SettledInv, SlotInv, ChainInv, Honest, Reached
  <1>3. TrueAnswer(answer)'
    BY DEF SettledInv, TrueAnswer, Reached
  <1> QED
    BY <1>1, <1>2, <1>3 DEF SettledInv

(* The await of call.awaiting ends: its outcome, or an older one, is found.*)
LEMMA Concludes ==
  ASSUME ContextInv, SettledInv, SlotInv', Grows(told, told'), Resolving,
         NEW found, found = slot'[call.context], found.result \in {"true", "false"},
         found.value \in abandoned \cup {call.awaiting}, NEW left, CheckSlot(found, left),
         ~UNCHANGED <<call, answer, abandoned>>,
         NEW V, V = abandoned \cup ({call.awaiting} \ {found.value}),
         Fits(promise', told', reactions', jobs', V)
  PROVE  SettledInv'
  <1> DEFINE q == call.awaiting
             Chain(v) == Reached(told', V, call.promise, v)
  <1>0. call.context \in Contexts /\ call \in Operations /\ call.promise \in Promises /\ call.op = "resolve"
    BY DEF ContextInv, InCall, CallOK, Resolving
  <1>1. Said(found.result = "true", found.inner) \in told'[found.value] /\ found.value \in Promises
    BY <1>0 DEF SlotInv, Honest
  <1>2. Chain(found.value)
    <2>1. CASE found.value = q
      <3>1. Reached(told, abandoned, call.promise, q)
        BY <1>0 DEF SettledInv, ChainInv
      <3>2. abandoned \subseteq V
        OBVIOUS
      <3> QED
        BY <2>1, <3>1, <3>2, ReachedMore
    <2>2. CASE found.value \in abandoned
      BY <2>2, ReachedFirst
    <2> QED
      BY <2>1, <2>2
  <1> HIDE DEF Chain
  <1>3. CASE found.result = "true" /\ found.inner # None /\ Forsakes(found) /\ UNCHANGED answer
             /\ call' = [call EXCEPT !.op = "await", !.awaiting = found.inner]
    <2>1. /\ call'.op = "await" /\ call'.promise = call.promise /\ call'.awaiting = found.inner
          /\ abandoned' = V /\ abandoned \subseteq abandoned'
      BY <1>0, <1>3 DEF Operations, Forsakes
    <2>2. Outcome("fulfilled", found.inner) \in told'[found.value]
      BY <1>1, <1>3 DEF Said
    <2>3. Outcome("fulfilled", found.inner).value = found.inner
      BY DEF Outcome
    <2>4. Chain(found.inner)
      BY <1>2, <1>3, <2>2, <2>3, ReachedNext DEF Chain
    <2>5. WaitInv'
      BY <2>1 DEF WaitInv
    <2>6. ChainInv'
      BY <2>1, <2>4 DEF ChainInv, Chain
    <2>7. TrueAnswer(answer)'
      BY <1>3, <2>1, TrueAnswerMore
    <2> QED
      BY <2>5, <2>6, <2>7 DEF SettledInv
  <1>4. ASSUME NEW kind \in {"settled", "rejected"}, kind = "settled" => found.result = "true" /\ found.inner = None,
               kind = "rejected" => found.result = "false", Forsakes(found),
               Returns(kind, call.promise, found.value, None)
        PROVE  SettledInv'
    <2>1. /\ call'.op = "idle" /\ answer'.kind = kind /\ answer'.promise = call.promise
          /\ answer'.value = found.value /\ abandoned' = V
      BY <1>4 DEF Returns, NoCall, Answer, Forsakes
    <2>2. Said(found.result = "true", found.inner) = Said(kind = "settled", None)
      BY <1>4 DEF Said
    <2>3. TrueAnswer(answer)'
      BY <1>1, <1>2, <2>1, <2>2 DEF TrueAnswer, Chain
    <2> QED
      BY <2>1, <2>3 DEF SettledInv, WaitInv, ChainInv
  <1>5. CASE Forsakes(found) /\ Returns("error", call.promise, None, calls)
    <2>1. call'.op = "idle" /\ ~Found(answer') /\ abandoned' = V
      BY <1>5 DEF Returns, NoCall, Answer, Found, Forsakes
    <2> QED
      BY <2>1 DEF SettledInv, WaitInv, ChainInv, TrueAnswer
  <1> QED
    BY <1>3, <1>4, <1>5 DEF CheckSlot

LEMMA SettledStep ==
  ASSUME ContextInv, AwaitInv, SettledInv, [Next]_vars
  PROVE  SettledInv'
  <1> DEFINE W == abandoned
             p == call.awaiting
             V == W \cup {p}
  <1>0. /\ W \subseteq Promises
        /\ call.op \in {"await", "resolve"} => p \in Promises /\ call.promise \in Promises
        /\ Resolving => call.context \in Contexts
    BY DEF ContextInv, CallOK, InCall, Resolving
  <1>1. CASE UNCHANGED vars
    BY <1>1, SettledSame DEF vars, engine, host
  <1>2. CASE Next
    <2>1. SlotInv'
      BY <1>2, SlotStep DEF SettledInv
    <2>2. Fits(promise, told, reactions, jobs, Promises) /\ Grows(told, told')
      BY <1>0, <1>2, WaitFits, FitsStep DEF SettledInv
    <2>3. ASSUME NEW U, abandoned' = U, call'.op = "idle", Fits(promise', told', reactions', jobs', U),
                 ~Found(answer')
          PROVE  SettledInv'
      BY <2>1, <2>3 DEF SettledInv, WaitInv, ChainInv, TrueAnswer
    <2>4. CASE ~ResolveStep
      <3>1. HostStep
        BY <1>2, <2>4, HostSteps
      <3>2. Fits(promise, told, reactions, jobs, W)
        BY <3>1 DEF SettledInv, WaitInv, HostStep
      <3> HIDE DEF W
      <3>3. Fits(promise', told', reactions', jobs', W)
        BY <1>0, <1>2, <3>1, <3>2, FitsStep DEF HostStep
      <3>4. WaitInv'
        BY <3>1, <3>3 DEF WaitInv, HostStep, W
      <3>5. TrueAnswer(answer)'
        <4>1. CASE ~Found(answer')
          BY <4>1 DEF TrueAnswer
        <4>2. CASE UNCHANGED answer
          BY <2>2, <3>1, <4>2, TrueAnswerMore DEF HostStep
        <4> QED
          BY <3>1, <4>1, <4>2 DEF HostStep
      <3>6. ChainInv'
        <4>1. CASE call'.op = "await"
          BY <3>1, <4>1, ReachedFirst DEF HostStep, ChainInv
        <4> QED
          BY <3>1, <4>1 DEF HostStep, ChainInv
      <3> QED
        BY <2>1, <3>4, <3>5, <3>6 DEF SettledInv
    <2>5. CASE AwaitFails
      <3>1. /\ abandoned' = W /\ call'.op = "idle" /\ ~Found(answer') /\ call.op = "await"
            /\ UNCHANGED <<promise, told, reactions, jobs>>
        BY <2>5 DEF AwaitFails, Awaiting, Returns, NoCall, Answer, Found
      <3>2. Fits(promise', told', reactions', jobs', W)
        BY <3>1 DEF SettledInv, WaitInv
      <3> QED
        BY <2>3, <3>1, <3>2
    <2>6. CASE AwaitCrashes
      BY <2>6, SettledSame DEF AwaitCrashes, engine, host
    <2>7. CASE AttachResolver
      <3>1. /\ call.op = "await" /\ p \in Promises /\ context \in Contexts /\ UNCHANGED <<promise, answer>>
            /\ call' = [call EXCEPT !.op = "resolve", !.context = context]
        BY <1>0, <2>7 DEF AttachResolver, Awaiting, ContextInv, HandleOK
      <3>2. call'.op = "resolve" /\ call'.promise = call.promise /\ call'.awaiting = p
        BY <3>1 DEF ContextInv, CallOK, Operations
      <3>3. Fits(promise, told, reactions, jobs, W)
        BY <3>1 DEF SettledInv, WaitInv
      <3>4. V \subseteq Promises /\ W \subseteq V /\ p \in V
        BY <1>0, <3>1
      <3> HIDE DEF W, V, p
      <3>5. Fits(promise, told, reactions, jobs, V)
        BY <1>0, <3>3, <3>4, FitsMore
      <3>6. Fits(promise', told', reactions', jobs', V)
        BY <1>2, <3>4, <3>5, FitsStep DEF p
      <3>7. ASSUME AttachThenable(p) PROVE WaitInv'
        <4>1. abandoned' = V
          BY <3>7 DEF AttachThenable, V, W
        <4>2. abandoned' \cup {p} = V
          BY <4>1, <3>4
        <4>3. Once(told', reactions', jobs', V, p)
          BY <3>1, <3>6, NoneOnce
        <4> QED
          BY <3>2, <3>6, <4>1, <4>2, <4>3 DEF WaitInv
      <3>8. ASSUME AttachNative(p) PROVE WaitInv'
        <4>1. UNCHANGED <<told, abandoned>> /\ Attach(Resolver(p)) /\ Resolver(p).promise = p
          BY <3>8 DEF AttachNative, Resolver
        <4> DEFINE r == Resolver(p)
        <4> HIDE DEF r
        <4>2. Attach(r) /\ r.promise = p
          BY <4>1 DEF r
        <4>3. Once(told', reactions', jobs', W, p)
          BY <3>1, <3>3, <4>1, <4>2, AttachOnce
        <4>4. abandoned' = W /\ abandoned' \cup {p} = V
          BY <4>1 DEF W, V
        <4> QED
          BY <3>2, <3>6, <4>3, <4>4 DEF WaitInv
      <3>9. WaitInv' /\ abandoned \subseteq abandoned'
        <4>1. WaitInv'
          BY <2>7, <3>7, <3>8 DEF AttachResolver, WaitInv, p
        <4> QED
          BY <2>7, <4>1 DEF AttachResolver, AttachThenable, AttachNative
      <3>10. ChainInv'
        <4>1. Reached(told, abandoned, call.promise, p)
          BY <3>1 DEF SettledInv, ChainInv, p
        <4>2. Reached(told', abandoned', call.promise, p)
          BY <2>2, <3>9, <4>1, ReachedMore
        <4> QED
          BY <3>2, <4>2 DEF ChainInv
      <3>11. TrueAnswer(answer)'
        BY <2>2, <3>1, <3>9, TrueAnswerMore
      <3> QED
        BY <2>1, <3>9, <3>10, <3>11 DEF SettledInv
    <2>8. CASE ResolveThrows
      <3>1. /\ Resolving /\ abandoned' = V /\ call'.op = "idle" /\ ~Found(answer')
        BY <2>8 DEF ResolveThrows, Returns, NoCall, Answer, Found
      <3>2. Fits(promise, told, reactions, jobs, V) /\ V \subseteq Promises /\ call.op # "await"
        BY <1>0, <3>1 DEF Resolving, SettledInv, WaitInv
      <3> HIDE DEF W, V, p
      <3>3. Fits(promise', told', reactions', jobs', V)
        BY <1>2, <3>2, FitsStep
      <3> QED
        BY <2>3, <3>1, <3>3
    <2>9. ASSUME NEW found, found = slot'[call.context], NEW left, CheckSlot(found, left), Resolving,
                 found.result \in {"unset", "true", "false"},
                 Fits(promise', told', reactions', jobs', V), Once(told', reactions', jobs', W, p),
                 found.result # "unset" =>
                   \/ found.value \in W
                   \/ found.value = p /\ Fits(promise', told', reactions', jobs', W)
          PROVE  SettledInv'
      <3>1. CASE UNCHANGED <<call, answer, abandoned>>
        <4>1. WaitInv'
          BY <2>9, <3>1 DEF WaitInv, Resolving
        <4>2. ChainInv'
          <5>1. Reached(told, abandoned, call.promise, call.awaiting)
            BY <2>9 DEF SettledInv, ChainInv, Resolving
          <5>2. Reached(told', abandoned, call.promise, call.awaiting)
            BY <2>2, <5>1, ReachedMore
          <5> QED
            BY <3>1, <5>2 DEF ChainInv
        <4>3. TrueAnswer(answer)'
          BY <2>2, <3>1, TrueAnswerMore
        <4> QED
          BY <2>1, <4>1, <4>2, <4>3 DEF SettledInv
      <3>2. CASE ~UNCHANGED <<call, answer, abandoned>>
        <4>1. found.result # "unset"
          BY <2>9, <3>2 DEF CheckSlot
        <4> DEFINE U == W \cup ({p} \ {found.value})
        <4>2. Fits(promise', told', reactions', jobs', U)
          <5>1. CASE found.value = p /\ Fits(promise', told', reactions', jobs', W)
            <6>1. U = W
              BY <5>1
            <6> QED
              BY <5>1, <6>1
          <5>2. CASE found.value # p
            <6>1. U = V
              BY <5>2
            <6> QED
              BY <2>9, <6>1
          <5>3. CASE found.value = p /\ p \in W
            <6>1. U = V
              BY <5>3
            <6> QED
              BY <2>9, <6>1
          <5> QED
            BY <2>9, <4>1, <5>1, <5>2, <5>3
        <4> HIDE DEF U
        <4>3. U = abandoned \cup ({call.awaiting} \ {found.value})
          BY DEF U
        <4>4. found.value \in abandoned \cup {call.awaiting} /\ found.result \in {"true", "false"}
          BY <2>9, <4>1
        <4> QED
          BY <2>1, <2>2, <2>9, <3>2, <4>2, <4>3, <4>4, Concludes
      <3> QED
        BY <3>1, <3>2
    <2>10. CASE ResolveFindsNoJob
      <3> DEFINE found == slot[call.context]
      <3>1. /\ Resolving /\ CheckSlot(found, {exception}) /\ UNCHANGED <<promise, told, reactions, jobs, slot>>
            /\ found.result \in {"unset", "true", "false"} /\ call.op = "resolve"
        <4>1. call.context \in Contexts
          BY <1>0, <2>10 DEF ResolveFindsNoJob
        <4>2. slot[call.context] \in Slots
          BY <4>1 DEF ContextInv, PromisesOK
        <4> QED
          BY <2>10, <4>2 DEF ResolveFindsNoJob, Resolving, Slots
      <3>2. found = slot'[call.context]
        BY <3>1
      <3>3. found.result # "unset" => found.value \in W
        BY <3>1 DEF AwaitInv
      <3>4. Fits(promise', told', reactions', jobs', V) /\ Once(told', reactions', jobs', W, p)
        BY <3>1 DEF SettledInv, WaitInv
      <3> HIDE DEF found, V, W, p
      <3> QED
        BY <2>9, <3>1, <3>2, <3>3, <3>4
    <2>11. CASE ResolveRunsJob
      <3> DEFINE found == slot'[call.context]
                 job == Head(jobs)
      <3>1. /\ Resolving /\ jobs # <<>> /\ RunJob /\ CheckSlot(found, LeftByJob) /\ call.op = "resolve"
            /\ call.context \in Contexts /\ p \in Promises /\ slot \in [Contexts -> Slots]
        BY <1>0, <2>11 DEF ResolveRunsJob, Resolving, ContextInv, PromisesOK
      <3>2. V \subseteq Promises /\ Fits(promise, told, reactions, jobs, V) /\ Once(told, reactions, jobs, W, p)
        BY <1>0, <3>1 DEF SettledInv, WaitInv
      <3>3. job \in TrueJobs(told, V) /\ SetSlot(job)
        BY <3>1, <3>2, HeadTailProperties DEF Fits, RunJob
      <3>4. \/ found = slot[call.context]
            \/ /\ job.kind \in {"then", "catch"} \cup Speakers
               /\ found.result \in {"true", "false"} /\ found.value = job.promise
        BY <3>1, <3>3 DEF SetSlot, Slot, Speakers
      <3> HIDE DEF V, W, p, job
      <3>5. Fits(promise', told', reactions', jobs', V)
        BY <3>1, <3>2, RunJobFits
      <3>6. /\ Once(told', reactions', jobs', W, p)
            /\ (job.kind \in {"then", "catch"} \cup Speakers /\ job.promise = p) =>
                 Fits(promise', told', reactions', jobs', W)
        BY <1>0, <3>1, <3>2, RunJobOnce DEF V, job
      <3>7. found.result # "unset" =>
              \/ found.value \in W
              \/ found.value = p /\ Fits(promise', told', reactions', jobs', W)
        <4>1. CASE found = slot[call.context]
          BY <3>1, <4>1 DEF AwaitInv, W
        <4>2. CASE job.kind \in {"then", "catch"} \cup Speakers /\ found.value = job.promise
          <5>1. job.promise \in V
            BY <3>3, <4>2 DEF TrueJobs, Handlers
          <5> QED
            BY <3>6, <4>2, <5>1 DEF V
        <4> QED
          BY <3>4, <4>1, <4>2
      <3>8. found.result \in {"unset", "true", "false"}
        BY <3>1, <3>4 DEF Slots
      <3> HIDE DEF found
      <3>9. found = slot'[call.context]
        BY DEF found
      <3> QED
        BY <2>9, <3>1, <3>5, <3>6, <3>7, <3>8, <3>9
    <2> QED
      BY <2>4, <2>5, <2>6, <2>7, <2>8, <2>10, <2>11 DEF ResolveStep
  <1> QED
    BY <1>1, <1>2

LEMMA SettledInit == Init => SettledInv /\ AwaitInv
  <1> SUFFICES ASSUME Init PROVE SettledInv /\ AwaitInv
    OBVIOUS
  <1>1. jobs = <<>> /\ reactions = [p \in Promises |-> <<>>]
    BY DEF Init
  <1>2. Fits(promise, told, reactions, jobs, abandoned)
    BY <1>1, EmptySeq DEF Fits
  <1>3. call.op = "idle" /\ ~Found(answer) /\ runtime = "none"
    BY DEF Init, NoCall, Answer, Found
  <1>4. SlotInv
    BY DEF Init, Unset, Slot, SlotInv
  <1> QED
    BY <1>2, <1>3, <1>4 DEF SettledInv, WaitInv, ChainInv, TrueAnswer, AwaitInv, Resolving

(* resolve_value returns the outcome of the promise it was given, of one   *)
(* that the value of a chain of them leads to, or of a promise whose await *)
(* was abandoned, however many promises, contexts and calls there are.     *)
THEOREM AwaitsGetTheirOwn == Spec => []SettledValueIsItsOwn
  <1>1. Init => SettledInv /\ AwaitInv
    BY SettledInit
  <1>2. ContextInv /\ AwaitInv /\ SettledInv /\ [Next]_vars => AwaitInv' /\ SettledInv'
    BY AwaitStep, SettledStep
  <1>3. SettledInv => SettledValueIsItsOwn
    <2> SUFFICES ASSUME SettledInv, answer.kind \in {"settled", "rejected"}
                 PROVE  LET q == answer.value IN
                        /\ Outcome(IF answer.kind = "settled" THEN "fulfilled" ELSE "rejected", None) \in told[q]
                        /\ \A S \in SUBSET Promises :
                             (abandoned \cup {answer.promise} \subseteq S /\ HoldsValues(S)) => q \in S
      BY DEF SettledValueIsItsOwn
    <2>1. /\ Said(answer.kind = "settled", None) \in told[answer.value]
          /\ Reached(told, abandoned, answer.promise, answer.value)
      BY DEF SettledInv, TrueAnswer, Found
    <2> QED
      BY <2>1 DEF Said, Reached, HoldsValues
  <1> QED
    BY <1>1, <1>2, <1>3, ContextInvariant, PTL DEF Spec
=============================================================================
