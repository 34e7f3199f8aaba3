---------------------------- MODULE TracingProofs ----------------------------
(***************************************************************************)
(* Proofs about Tracing, for all codes, gas limits, depths and numbers of  *)
(* tracers and messages.                                                   *)
(***************************************************************************)
EXTENDS Tracing, TLAPS

Counts == [Opcode -> Nat]
Context == [code : Codes, start_gas : Int, depth : Nat, counts : Counts]
Tracer == [kind : {"trace", "histogram"}, contexts : Seq(Context)]
Frame ==
  [code : Codes, gas : Int, gas_left : Int, depth : Nat, pc : Nat, executed : Counts,
   dispatch : {"traced", "cgoto", "switch"}]

Types ==
  /\ vm \in [execute : {"baseline", "advanced"}, cgoto : BOOLEAN, tracers : Seq(Tracer)]
  /\ frames \in Seq(Frame)

(* One more instruction op.                                                *)
Counted(counts, op) == [counts EXCEPT ![op] = counts[op] + 1]

(* A context is of the execution f, and has counted its instructions.      *)
Match(ctx, f) ==
  ctx.code = f.code /\ ctx.start_gas = f.gas /\ ctx.depth = f.depth /\ ctx.counts = f.executed

(* The contexts of a tracer are of the executions fs, one by one.          *)
Mirrors(ctx, fs) == Len(ctx) = Len(fs) /\ \A k \in 1 .. Len(fs) : Match(ctx[k], fs[k])

AllMirror(tracers, fs) == \A i \in 1 .. Len(tracers) : Mirrors(tracers[i].contexts, fs)

(* The histogram printed at the end of an execution is about what was      *)
(* counted in all the steps since its start, calls included, so the counts *)
(* of every open context are part of what is preserved.                    *)
IInv ==
  /\ Types
  /\ AllMirror(vm.tracers, IF traced THEN frames ELSE <<>>)

------------------------------------------------------------------------------
(* Sequences and types.                                                    *)

(* The last element of a sequence.                                         *)
LEMMA TopType ==
  ASSUME NEW S, NEW s \in Seq(S), s # <<>>
  PROVE  Len(s) \in 1 .. Len(s) /\ Len(s) \in Nat \ {0} /\ s[Len(s)] \in S
  OBVIOUS

(* A sequence without its last element.                                    *)
LEMMA FrontType ==
  ASSUME NEW S, NEW s \in Seq(S), s # <<>>
  PROVE  /\ Front(s) \in Seq(S)
         /\ Len(Front(s)) = Len(s) - 1
         /\ \A k \in 1 .. Len(s) - 1 : Front(s)[k] = s[k]
<1>1. Len(s) \in Nat \ {0} /\ Len(s) - 1 \in Nat /\ Len(s) - 1 <= Len(s)
  OBVIOUS
<1>2. Front(s) = [k \in 1 .. Len(s) - 1 |-> s[k]]
  BY <1>1 DEF Front
<1>3. [k \in 1 .. Len(s) - 1 |-> s[k]] \in [1 .. Len(s) - 1 -> S]
  BY <1>1
<1> DEFINE f == Front(s)
<1>4. f \in [1 .. Len(s) - 1 -> S]
  BY <1>2, <1>3
<1>5. \A k \in 1 .. Len(s) - 1 : f[k] = s[k]
  BY <1>2
<1> HIDE DEF f
<1>6. f \in Seq(S) /\ Len(f) = Len(s) - 1
  BY <1>1, <1>4
<1> QED
  BY <1>5, <1>6 DEF f

(* A sequence with one more element.                                       *)
LEMMA AppendType ==
  ASSUME NEW S, NEW s \in Seq(S), NEW e \in S
  PROVE  /\ Append(s, e) \in Seq(S)
         /\ Len(Append(s, e)) = Len(s) + 1
         /\ \A k \in 1 .. Len(s) : Append(s, e)[k] = s[k]
         /\ Append(s, e)[Len(s) + 1] = e
  OBVIOUS

(* A sequence with one element replaced.                                   *)
LEMMA ReplaceType ==
  ASSUME NEW S, NEW s \in Seq(S), NEW n \in 1 .. Len(s), NEW e \in S
  PROVE  /\ [s EXCEPT ![n] = e] \in Seq(S)
         /\ Len([s EXCEPT ![n] = e]) = Len(s)
         /\ \A k \in 1 .. Len(s) : [s EXCEPT ![n] = e][k] = IF k = n THEN e ELSE s[k]
  OBVIOUS

(* What the code has at a position is an opcode, in the padding too.       *)
LEMMA OpcodeType ==
  ASSUME NEW code \in Codes, NEW pc \in Nat
  PROVE  code_at(code, pc) \in Opcode
<1>1. code \in Seq(Opcode)
  BY CodesAssumption
<1>2. CASE pc < Len(code)
  <2>1. pc + 1 \in 1 .. Len(code)
    BY <1>1, <1>2
  <2> QED
    BY <1>1, <1>2, <2>1 DEF code_at
<1>3. CASE ~(pc < Len(code))
  BY <1>3 DEF code_at, Opcode
<1> QED
  BY <1>2, <1>3

(* A tracer with other contexts.                                           *)
With(t, c) == [t EXCEPT !.contexts = c]

(* Only the contexts of the tracer change.                                 *)
LEMMA TracerUpdate ==
  ASSUME NEW t \in Tracer, NEW c \in Seq(Context)
  PROVE  With(t, c) \in Tracer /\ With(t, c).contexts = c /\ With(t, c).kind = t.kind
  BY DEF Tracer, With

(* A tracer of a list.                                                     *)
LEMMA TracerFields ==
  ASSUME NEW tracers \in Seq(Tracer), NEW i \in 1 .. Len(tracers)
  PROVE  i \in DOMAIN tracers /\ tracers[i] \in Tracer /\ tracers[i].contexts \in Seq(Context)
<1>1. i \in DOMAIN tracers /\ tracers[i] \in Tracer
  OBVIOUS
<1> QED
  BY <1>1 DEF Tracer

(* A list made of one tracer for every tracer of a list.                   *)
LEMMA TracerList ==
  ASSUME NEW s \in Seq(Tracer), NEW t, t = [i \in DOMAIN s |-> t[i]],
         \A i \in 1 .. Len(s) : t[i] \in Tracer
  PROVE  t \in Seq(Tracer) /\ Len(t) = Len(s) /\ DOMAIN t = 1 .. Len(s)
<1>1. DOMAIN s = 1 .. Len(s) /\ Len(s) \in Nat
  OBVIOUS
<1>2. t \in [1 .. Len(s) -> Tracer]
  BY <1>1
<1> QED
  BY <1>1, <1>2

------------------------------------------------------------------------------
(* What the notifications do to the contexts.                              *)

(* on_execution_start pushes a context of the new execution in every       *)
(* tracer.                                                                 *)
LEMMA StartedMirrors ==
  ASSUME NEW tracers \in Seq(Tracer), NEW fs \in Seq(Frame), NEW f \in Frame,
         AllMirror(tracers, fs), f.executed = NoCounts
  PROVE  /\ started(tracers, f) \in Seq(Tracer) /\ Len(started(tracers, f)) = Len(tracers)
         /\ AllMirror(started(tracers, f), Append(fs, f))
<1> DEFINE c == start_context(f)
           t == started(tracers, f)
<1>1. c \in Context /\ Match(c, f)
  BY DEF start_context, Context, Frame, Match, NoCounts, Counts
<1>2. ASSUME NEW i \in 1 .. Len(tracers)
      PROVE  /\ tracers[i] \in Tracer /\ tracers[i].contexts \in Seq(Context)
             /\ t[i] = With(tracers[i], Append(tracers[i].contexts, c))
  BY TracerFields DEF started, With
<1>3. ASSUME NEW i \in 1 .. Len(tracers)
      PROVE  t[i] \in Tracer /\ t[i].contexts = Append(tracers[i].contexts, c)
  <2> DEFINE ctx == tracers[i].contexts
  <2>1. ctx \in Seq(Context) /\ tracers[i] \in Tracer /\ t[i] = With(tracers[i], Append(ctx, c))
    BY <1>2
  <2> HIDE DEF t, c, ctx
  <2>2. Append(ctx, c) \in Seq(Context)
    BY <1>1, <2>1
  <2> QED
    BY <2>1, <2>2, TracerUpdate, ZenonT(40) DEF ctx
<1>4. t = [i \in DOMAIN tracers |-> t[i]]
  BY DEF started
<1> HIDE DEF t, c
<1>5. t \in Seq(Tracer) /\ Len(t) = Len(tracers)
  BY <1>3, <1>4, TracerList
<1>6. ASSUME NEW i \in 1 .. Len(tracers)
      PROVE  Mirrors(t[i].contexts, Append(fs, f))
  <2> DEFINE ctx == tracers[i].contexts
  <2>1. Mirrors(ctx, fs) /\ ctx \in Seq(Context)
    BY <1>2 DEF AllMirror
  <2> HIDE DEF ctx
  <2>2. Mirrors(Append(ctx, c), Append(fs, f))
    BY <1>1, <2>1, AppendType DEF Mirrors
  <2> QED
    BY <1>3, <2>2 DEF ctx
<1> QED
  BY <1>5, <1>6 DEF AllMirror, t

(* The last execution fs[n] begins its instruction at pc, and is g then.   *)
LEMMA SeenMirrors ==
  ASSUME NEW tracers \in Seq(Tracer), NEW fs \in Seq(Frame), fs # <<>>, AllMirror(tracers, fs),
         NEW f \in Frame, f = fs[Len(fs)], NEW g \in Frame,
         g.code = f.code, g.gas = f.gas, g.depth = f.depth,
         g.executed = Counted(f.executed, opcode_at(f))
  PROVE  /\ instruction_seen(tracers, f.pc) \in Seq(Tracer)
         /\ Len(instruction_seen(tracers, f.pc)) = Len(tracers)
         /\ AllMirror(instruction_seen(tracers, f.pc), [fs EXCEPT ![Len(fs)] = g])
<1> DEFINE n == Len(fs)
           t == instruction_seen(tracers, f.pc)
<1>1. n \in Nat \ {0} /\ n \in 1 .. n
  BY TopType
<1>2. ASSUME NEW i \in 1 .. Len(tracers)
      PROVE  /\ tracers[i] \in Tracer /\ tracers[i].contexts \in Seq(Context)
             /\ Len(tracers[i].contexts) = n /\ Mirrors(tracers[i].contexts, fs)
             /\ tracers[i].contexts[n] \in Context
             /\ Match(tracers[i].contexts[n], f)
  <2>1. tracers[i] \in Tracer /\ Mirrors(tracers[i].contexts, fs)
    BY DEF AllMirror
  <2>2. tracers[i].contexts \in Seq(Context) /\ Len(tracers[i].contexts) = n
    BY <2>1 DEF Tracer, Mirrors
  <2> QED
    BY <1>1, <2>1, <2>2 DEF Mirrors
<1> DEFINE New(i) == [tracers[i].contexts EXCEPT ![n] = counted(tracers[i].contexts[n], f.pc)]
<1>3. ASSUME NEW ctx \in Context, Match(ctx, f)
      PROVE  counted(ctx, f.pc) \in Context /\ Match(counted(ctx, f.pc), g)
  <2> DEFINE op == opcode_at(f)
  <2>1. op \in Opcode /\ op = code_at(ctx.code, f.pc)
    BY <1>3, OpcodeType DEF opcode_at, Match, Frame
  <2>2. ctx.counts \in Counts /\ ctx.counts = f.executed
    BY <1>3 DEF Context, Match
  <2> HIDE DEF op
  <2>3. counted(ctx, f.pc) = [ctx EXCEPT !.counts = [ctx.counts EXCEPT ![op] = ctx.counts[op] + 1]]
    BY <2>1 DEF counted, Context
  <2>4. [ctx.counts EXCEPT ![op] = ctx.counts[op] + 1] \in Counts
    BY <2>1, <2>2 DEF Counts
  <2>5. g.executed = [ctx.counts EXCEPT ![op] = ctx.counts[op] + 1]
    BY <2>2 DEF op, Counted
  <2> QED
    BY <1>3, <2>3, <2>4, <2>5 DEF Context, Match
<1>4. ASSUME NEW i \in 1 .. Len(tracers)
      PROVE  t[i] \in Tracer /\ t[i].contexts = New(i) /\ Mirrors(New(i), [fs EXCEPT ![n] = g])
  <2> DEFINE ctx == tracers[i].contexts
             e == counted(ctx[n], f.pc)
  <2>1. tracers[i] \in Tracer /\ Len(ctx) = n
    BY <1>2
  <2>2. t[i] = With(tracers[i], New(i))
    BY <2>1, TracerFields DEF instruction_seen, With
  <2>3. e \in Context /\ Match(e, g)
    BY <1>2, <1>3
  <2>4. ctx \in Seq(Context) /\ n \in 1 .. Len(ctx) /\ Mirrors(ctx, fs)
    BY <1>1, <1>2
  <2> HIDE DEF ctx, e
  <2>5. [ctx EXCEPT ![n] = e] \in Seq(Context) /\ Mirrors([ctx EXCEPT ![n] = e], [fs EXCEPT ![n] = g])
    BY <1>1, <2>3, <2>4, ReplaceType DEF Mirrors
  <2>6. New(i) = [ctx EXCEPT ![n] = e]
    BY DEF ctx, e
  <2>7. New(i) \in Seq(Context)
    BY <2>5, <2>6
  <2>8. t[i] \in Tracer /\ t[i].contexts = New(i)
    <3> HIDE DEF t, New
    <3> QED
      BY <2>1, <2>2, <2>7, TracerUpdate
  <2> QED
    BY <2>5, <2>6, <2>8
<1>5. t = [i \in DOMAIN tracers |-> t[i]]
  BY DEF instruction_seen
<1> HIDE DEF t, New
<1>6. t \in Seq(Tracer) /\ Len(t) = Len(tracers)
  BY <1>4, <1>5, TracerList
<1>7. AllMirror(t, [fs EXCEPT ![n] = g])
  BY <1>4, <1>6 DEF AllMirror
<1> QED
  BY <1>6, <1>7 DEF t

(* on_execution_end pops the context of the last execution in every        *)
(* tracer.                                                                 *)
LEMMA EndedMirrors ==
  ASSUME NEW tracers \in Seq(Tracer), NEW fs \in Seq(Frame), fs # <<>>, AllMirror(tracers, fs)
  PROVE  /\ ended(tracers) \in Seq(Tracer) /\ Len(ended(tracers)) = Len(tracers)
         /\ AllMirror(ended(tracers), Front(fs))
<1> DEFINE t == ended(tracers)
<1>1. ASSUME NEW i \in 1 .. Len(tracers)
      PROVE  /\ t[i] \in Tracer /\ t[i].contexts = Front(tracers[i].contexts)
             /\ Mirrors(Front(tracers[i].contexts), Front(fs))
  <2> DEFINE ctx == tracers[i].contexts
  <2>1. tracers[i] \in Tracer /\ i \in DOMAIN tracers /\ Mirrors(ctx, fs)
    BY DEF AllMirror
  <2>2. ctx \in Seq(Context)
    BY <2>1 DEF Tracer
  <2>3. t[i] = With(tracers[i], Front(ctx))
    BY <2>1 DEF ended, With
  <2> HIDE DEF ctx
  <2>4. Len(ctx) = Len(fs) /\ Len(fs) \in Nat \ {0} /\ ctx # <<>>
    BY <2>1, <2>2, TopType DEF Mirrors
  <2>5. Front(ctx) \in Seq(Context) /\ Mirrors(Front(ctx), Front(fs))
    <3>1. /\ Front(ctx) \in Seq(Context) /\ Len(Front(ctx)) = Len(fs) - 1
          /\ \A k \in 1 .. Len(fs) - 1 : Front(ctx)[k] = ctx[k]
      BY <2>2, <2>4, FrontType
    <3>2. /\ Len(Front(fs)) = Len(fs) - 1
          /\ \A k \in 1 .. Len(fs) - 1 : Front(fs)[k] = fs[k]
      BY FrontType
    <3>3. \A k \in 1 .. Len(fs) - 1 : Match(ctx[k], fs[k])
      BY <2>1, <2>4 DEF Mirrors
    <3> QED
      BY <3>1, <3>2, <3>3 DEF Mirrors
  <2>6. t[i] \in Tracer /\ t[i].contexts = Front(ctx)
    BY <2>1, <2>3, <2>5, TracerUpdate
  <2> QED
    BY <2>5, <2>6 DEF ctx
<1>2. t = [i \in DOMAIN tracers |-> t[i]]
  BY DEF ended
<1> HIDE DEF t
<1>3. t \in Seq(Tracer) /\ Len(t) = Len(tracers)
  BY <1>1, <1>2, TracerList
<1>4. AllMirror(t, Front(fs))
  BY <1>1, <1>3 DEF AllMirror
<1> QED
  BY <1>3, <1>4 DEF t

------------------------------------------------------------------------------
(* Executions and the instruction at hand.                                 *)

(* The running execution and its instruction.                              *)
LEMMA TopFrame ==
  ASSUME Types, frames # <<>>
  PROVE  depth \in Nat \ {0} /\ depth \in 1 .. Len(frames) /\ top \in Frame /\ opcode_at(top) \in Opcode
<1>1. depth \in Nat \ {0} /\ depth \in 1 .. Len(frames) /\ top \in Frame
  BY TopType DEF Types, depth, top
<1>2. top.code \in Codes /\ top.pc \in Nat
  BY <1>1 DEF Frame
<1> QED
  BY <1>1, <1>2, OpcodeType DEF opcode_at

(* The types of the fields of the VM object.                               *)
LEMMA VmTypes ==
  ASSUME Types
  PROVE  vm.execute \in {"baseline", "advanced"} /\ vm.cgoto \in BOOLEAN /\ vm.tracers \in Seq(Tracer)
  BY DEF Types

(* An instruction other than STOP is not of the padding.                   *)
LEMMA InstructionShown ==
  ASSUME NEW f, opcode_at(f) # "STOP"
  PROVE  shown(f)
  BY DEF opcode_at, code_at, shown

(* The execution f after it has begun the instruction at hand.             *)
Begun(f) == [f EXCEPT !.executed = [f.executed EXCEPT ![opcode_at(f)] = f.executed[opcode_at(f)] + 1]]

(* Only the count of the instruction at hand changes.                      *)
LEMMA BegunFrame ==
  ASSUME NEW f \in Frame
  PROVE  /\ Begun(f) \in Frame
         /\ Begun(f).code = f.code /\ Begun(f).gas = f.gas /\ Begun(f).depth = f.depth
         /\ Begun(f).executed = Counted(f.executed, opcode_at(f))
<1> DEFINE op == opcode_at(f)
           e == [f.executed EXCEPT ![op] = f.executed[op] + 1]
<1>1. op \in Opcode /\ f.executed \in Counts
  BY OpcodeType DEF opcode_at, Frame
<1>2. e \in Counts
  <2> HIDE DEF op
  <2> QED
    BY <1>1 DEF Counts
<1>3. Begun(f) = [f EXCEPT !.executed = e]
  BY DEF Begun
<1> HIDE DEF e
<1>4. /\ [f EXCEPT !.executed = e] \in Frame
      /\ [f EXCEPT !.executed = e].code = f.code /\ [f EXCEPT !.executed = e].gas = f.gas
      /\ [f EXCEPT !.executed = e].depth = f.depth /\ [f EXCEPT !.executed = e].executed = e
  BY <1>2 DEF Frame
<1> QED
  BY <1>3, <1>4 DEF e, Counted

(* The instruction at hand is counted and paid for.                        *)
LEMMA AdvancedFrame ==
  ASSUME Types, frames # <<>>
  PROVE  /\ advanced_frame \in Frame
         /\ advanced_frame.code = top.code /\ advanced_frame.gas = top.gas
         /\ advanced_frame.depth = top.depth /\ advanced_frame.gas_left = top.gas_left - 1
         /\ advanced_frame.executed = Counted(top.executed, opcode_at(top))
<1> DEFINE op == opcode_at(top)
           e == [top.executed EXCEPT ![op] = top.executed[op] + 1]
<1>1. top \in Frame /\ op \in Opcode
  BY TopFrame
<1>2. top.executed \in Counts /\ top.pc + 1 \in Nat /\ top.gas_left - 1 \in Int
  BY <1>1 DEF Frame
<1>3. e \in Counts
  <2> HIDE DEF op
  <2> QED
    BY <1>1, <1>2 DEF Counts
<1>4. advanced_frame = [top EXCEPT !.pc = top.pc + 1, !.gas_left = top.gas_left - 1, !.executed = e]
  BY <1>1 DEF advanced_frame, Frame
<1> DEFINE g == [top EXCEPT !.pc = top.pc + 1, !.gas_left = top.gas_left - 1, !.executed = e]
<1> HIDE DEF e
<1>5. /\ g \in Frame /\ g.code = top.code /\ g.gas = top.gas /\ g.depth = top.depth
      /\ g.gas_left = top.gas_left - 1 /\ g.executed = e
  BY <1>1, <1>2, <1>3 DEF Frame
<1> QED
  BY <1>4, <1>5 DEF e, Counted

(* Announcing the instruction at hand: every tracer counts it.             *)
LEMMA AnnouncedMirrors ==
  ASSUME IInv, frames # <<>>, traced, shown(top), NEW g \in Frame,
         g.code = top.code, g.gas = top.gas, g.depth = top.depth,
         g.executed = Counted(top.executed, opcode_at(top))
  PROVE  /\ announced \in Seq(Tracer) /\ Len(announced) = Len(vm.tracers)
         /\ AllMirror(announced, [frames EXCEPT ![depth] = g])
<1>1. vm.tracers \in Seq(Tracer) /\ frames \in Seq(Frame) /\ AllMirror(vm.tracers, frames)
  BY VmTypes DEF IInv, Types
<1>2. top \in Frame /\ top = frames[Len(frames)] /\ depth = Len(frames)
  BY TopFrame DEF top, depth, IInv
<1>3. announced = instruction_seen(vm.tracers, top.pc)
  BY DEF announced
<1>4. /\ instruction_seen(vm.tracers, top.pc) \in Seq(Tracer)
      /\ Len(instruction_seen(vm.tracers, top.pc)) = Len(vm.tracers)
      /\ AllMirror(instruction_seen(vm.tracers, top.pc), [frames EXCEPT ![Len(frames)] = g])
  <2> DEFINE f == top
  <2>1. f \in Frame /\ f = frames[Len(frames)]
    BY <1>2
  <2>2. /\ g.code = f.code /\ g.gas = f.gas /\ g.depth = f.depth
        /\ g.executed = Counted(f.executed, opcode_at(f))
    OBVIOUS
  <2> HIDE DEF f
  <2>3. /\ instruction_seen(vm.tracers, f.pc) \in Seq(Tracer)
        /\ Len(instruction_seen(vm.tracers, f.pc)) = Len(vm.tracers)
        /\ AllMirror(instruction_seen(vm.tracers, f.pc), [frames EXCEPT ![Len(frames)] = g])
    BY <1>1, <2>1, <2>2, SeenMirrors
  <2> QED
    BY <2>3 DEF f
<1> QED
  BY <1>2, <1>3, <1>4

(* The tracers learn nothing when the loop is not the traced one.          *)
LEMMA NotTraced ==
  ASSUME ~traced
  PROVE  announced = vm.tracers
  BY DEF announced

(* A step to the executions fs with the tracers t keeps IInv.              *)
LEMMA StepTo ==
  ASSUME IInv, NEW fs \in Seq(Frame), NEW t \in Seq(Tracer), Len(t) = Len(vm.tracers),
         traced => AllMirror(t, fs), ~traced => t = vm.tracers,
         frames' = fs, vm' = [vm EXCEPT !.tracers = t]
  PROVE  IInv'
<1>1. Types /\ vm.tracers \in Seq(Tracer)
  BY VmTypes DEF IInv
<1>2. vm' \in [execute : {"baseline", "advanced"}, cgoto : BOOLEAN, tracers : Seq(Tracer)]
  BY <1>1 DEF Types
<1>3. vm'.execute = vm.execute /\ vm'.tracers = t
  BY <1>1 DEF Types
<1>4. (t = <<>>) <=> (vm.tracers = <<>>)
  BY <1>1
<1>5. traced' <=> traced
  BY <1>3, <1>4 DEF traced
<1>6. AllMirror(t, IF traced THEN fs ELSE <<>>)
  BY DEF IInv
<1>7. AllMirror(vm'.tracers, IF traced' THEN frames' ELSE <<>>)
  BY <1>3, <1>5, <1>6
<1> QED
  BY <1>2, <1>7 DEF IInv, Types

(* The VM object with the tracers it has.                                  *)
LEMMA VmSame ==
  ASSUME Types
  PROVE  vm = [vm EXCEPT !.tracers = vm.tracers]
  BY DEF Types

------------------------------------------------------------------------------
(* The actions.                                                            *)

(* set_option() between executions keeps the invariant: no tracer has a    *)
(* context then.                                                           *)
LEMMA SetOptionStep ==
  ASSUME IInv, NEW name, NEW value, set_option(name, value)
  PROVE  IInv'
<1>1. frames = <<>> /\ frames' = <<>> /\ frames' \in Seq(Frame) /\ Types
  BY DEF set_option, IInv
<1>2. AllMirror(vm.tracers, <<>>) /\ vm.tracers \in Seq(Tracer)
  BY <1>1, VmTypes DEF IInv
<1>3. ASSUME vm' \in [execute : {"baseline", "advanced"}, cgoto : BOOLEAN, tracers : Seq(Tracer)],
             AllMirror(vm'.tracers, <<>>)
      PROVE  IInv'
  BY <1>1, <1>3 DEF IInv, Types
<1>4. CASE vm' = [vm EXCEPT !.execute = "advanced"]
  BY <1>1, <1>2, <1>3, <1>4 DEF Types
<1>5. CASE vm' = [vm EXCEPT !.cgoto = FALSE]
  BY <1>1, <1>2, <1>3, <1>5 DEF Types
<1>6. CASE UNCHANGED vm
  BY <1>1, <1>2, <1>3, <1>6 DEF Types
<1>7. ASSUME NEW kind \in {"trace", "histogram"}, add_tracer(kind)
      PROVE  IInv'
  <2> DEFINE n == [kind |-> kind, contexts |-> <<>>]
  <2>1. n \in Tracer /\ Mirrors(n.contexts, <<>>)
    BY DEF Tracer, Mirrors
  <2>2. vm' = [vm EXCEPT !.tracers = Append(vm.tracers, n)]
    BY <1>7 DEF add_tracer
  <2> HIDE DEF n
  <2>3. /\ Append(vm.tracers, n) \in Seq(Tracer)
        /\ AllMirror(Append(vm.tracers, n), <<>>)
    BY <1>2, <2>1, AppendType DEF AllMirror
  <2>4. /\ vm' \in [execute : {"baseline", "advanced"}, cgoto : BOOLEAN, tracers : Seq(Tracer)]
        /\ vm'.tracers = Append(vm.tracers, n)
    BY <1>1, <2>2, <2>3 DEF Types
  <2> QED
    BY <1>3, <2>3, <2>4
<1> QED
  BY <1>4, <1>5, <1>6, <1>7 DEF set_option

(* Continue and CallTooDeep: the instruction is counted by the execution   *)
(* and by its contexts.                                                    *)
LEMMA InstructionStep ==
  ASSUME IInv, frames # <<>>, opcode_at(top) # "STOP",
         frames' = [frames EXCEPT ![depth] = advanced_frame],
         vm' = [vm EXCEPT !.tracers = announced]
  PROVE  IInv'
<1>1. Types /\ frames \in Seq(Frame) /\ vm.tracers \in Seq(Tracer)
  BY VmTypes DEF IInv, Types
<1>2. [frames EXCEPT ![depth] = advanced_frame] \in Seq(Frame)
  BY <1>1, TopFrame, AdvancedFrame, ReplaceType
<1>3. shown(top)
  BY InstructionShown
<1>4. CASE traced
  <2>1. /\ announced \in Seq(Tracer) /\ Len(announced) = Len(vm.tracers)
        /\ AllMirror(announced, [frames EXCEPT ![depth] = advanced_frame])
    BY <1>1, <1>3, <1>4, AdvancedFrame, AnnouncedMirrors
  <2> QED
    BY <1>2, <1>4, <2>1, StepTo
<1>5. CASE ~traced
  BY <1>1, <1>2, <1>5, NotTraced, StepTo
<1> QED
  BY <1>4, <1>5

(* A new execution has counted nothing.                                    *)
LEMMA NewFrameType ==
  ASSUME NEW code \in Codes, NEW gas \in Int, NEW d \in Nat
  PROVE  /\ NewFrame(code, gas, d) \in Frame
         /\ NewFrame(code, gas, d).executed = NoCounts /\ NewFrame(code, gas, d).depth = d
  BY DEF NewFrame, Frame, NoCounts, Counts

(* The start of an execution keeps the invariant.                          *)
LEMMA EnterStep ==
  ASSUME IInv, NEW below \in Seq(Frame), NEW tracers \in Seq(Tracer), NEW b, NEW code \in Codes,
         NEW gas \in Int, NEW d \in Nat, Enter(below, tracers, b, code, gas, d),
         Len(tracers) = Len(vm.tracers), traced => AllMirror(tracers, below)
  PROVE  IInv'
<1> DEFINE f == NewFrame(code, gas, d)
<1>1. Types /\ vm.tracers \in Seq(Tracer)
  BY VmTypes DEF IInv
<1>2. f \in Frame /\ f.executed = NoCounts
  BY NewFrameType
<1>3. /\ frames' = Append(below, f)
      /\ vm' = IF traced THEN [vm EXCEPT !.tracers = started(tracers, f)] ELSE vm
  BY DEF Enter
<1> HIDE DEF f
<1>4. Append(below, f) \in Seq(Frame)
  BY <1>2
<1>5. CASE traced
  BY <1>2, <1>3, <1>4, <1>5, StartedMirrors, StepTo
<1>6. CASE ~traced
  BY <1>1, <1>3, <1>4, <1>6, VmSame, StepTo
<1> QED
  BY <1>5, <1>6

(* A message from outside starts the first execution.                      *)
LEMMA ExecuteStep ==
  ASSUME IInv, NEW code \in Codes, NEW gas \in GasLimits, NEW d \in OuterDepths, Execute(code, gas, d)
  PROVE  IInv'
<1>1. gas \in Int /\ d \in Nat /\ frames = <<>> /\ <<>> \in Seq(Frame)
  BY GasLimitsAssumption, OuterDepthsAssumption DEF Execute
<1>2. vm.tracers \in Seq(Tracer)
  BY VmTypes DEF IInv
<1>3. traced => AllMirror(vm.tracers, <<>>)
  BY <1>1 DEF IInv
<1> QED
  BY <1>1, <1>2, <1>3, EnterStep DEF Execute

(* CALL starts a nested execution.                                         *)
LEMMA CallStep ==
  ASSUME IInv, NEW code \in Codes, NEW gas \in GasLimits, Call(code, gas)
  PROVE  IInv'
<1> DEFINE msg_gas == IF gas < top.gas_left THEN gas ELSE top.gas_left - 1
           g == [advanced_frame EXCEPT !.gas_left = advanced_frame.gas_left - msg_gas]
           below == [frames EXCEPT ![depth] = g]
<1>1. Types /\ frames # <<>> /\ opcode_at(top) = "CALL" /\ shown(top)
  BY InstructionShown DEF IInv, Call, Running
<1>2. frames \in Seq(Frame) /\ vm.tracers \in Seq(Tracer)
  BY <1>1, VmTypes DEF Types
<1>3. top \in Frame /\ depth \in 1 .. Len(frames) /\ top.gas_left \in Int /\ top.depth + 1 \in Nat
  BY <1>1, TopFrame DEF Frame
<1>4. msg_gas \in Int /\ advanced_frame.gas_left - msg_gas \in Int
  BY <1>1, <1>3, GasLimitsAssumption, AdvancedFrame
<1>5. Enter(below, announced, announced_base, code, msg_gas, top.depth + 1)
  BY DEF Call
<1> HIDE DEF msg_gas
<1>6. /\ g \in Frame /\ g.code = advanced_frame.code /\ g.gas = advanced_frame.gas
      /\ g.depth = advanced_frame.depth /\ g.executed = advanced_frame.executed
  BY <1>1, <1>4, AdvancedFrame DEF Frame
<1>7. /\ g.code = top.code /\ g.gas = top.gas /\ g.depth = top.depth
      /\ g.executed = Counted(top.executed, opcode_at(top))
  BY <1>1, <1>6, AdvancedFrame
<1> HIDE DEF g
<1>8. below \in Seq(Frame)
  BY <1>2, <1>3, <1>6, ReplaceType
<1>9. CASE traced
  <2>1. /\ announced \in Seq(Tracer) /\ Len(announced) = Len(vm.tracers)
        /\ AllMirror(announced, below)
    BY <1>1, <1>6, <1>7, <1>9, AnnouncedMirrors
  <2> HIDE DEF below
  <2> QED
    BY <1>3, <1>4, <1>5, <1>8, <2>1, EnterStep
<1>10. CASE ~traced
  <2> HIDE DEF below
  <2> QED
    BY <1>2, <1>3, <1>4, <1>5, <1>8, <1>10, NotTraced, EnterStep
<1> QED
  BY <1>9, <1>10

(* The tracers at the end of an execution: the instruction at hand is      *)
(* counted unless it is of the padding.                                    *)
Final(f) == IF shown(f) THEN Begun(f) ELSE f

(* The last instruction is counted by every tracer before the end.         *)
LEMMA EndAnnounced ==
  ASSUME IInv, frames # <<>>, traced
  PROVE  /\ announced \in Seq(Tracer) /\ Len(announced) = Len(vm.tracers)
         /\ Final(top) \in Frame
         /\ AllMirror(announced, [frames EXCEPT ![depth] = Final(top)])
<1>1. Types /\ frames \in Seq(Frame) /\ vm.tracers \in Seq(Tracer) /\ AllMirror(vm.tracers, frames)
  BY VmTypes DEF IInv, Types
<1>2. top \in Frame /\ depth \in 1 .. Len(frames) /\ top = frames[depth]
  BY <1>1, TopFrame DEF top
<1>3. CASE shown(top)
  BY <1>2, <1>3, BegunFrame, AnnouncedMirrors DEF Final
<1>4. CASE ~shown(top)
  <2>1. [frames EXCEPT ![depth] = top] = frames
    BY <1>1, <1>2
  <2>2. announced = vm.tracers /\ Final(top) = top
    BY <1>4 DEF announced, Final
  <2> QED
    BY <1>1, <1>2, <2>1, <2>2
<1> QED
  BY <1>3, <1>4

(* The end of an execution keeps the invariant.                            *)
LEMMA EndStep ==
  ASSUME IInv, End
  PROVE  IInv'
<1> DEFINE n == depth
           fs == [frames EXCEPT ![n] = Final(top)]
           below == Front(frames)
           gas_left == IF opcode_at(top) = "STOP" THEN top.gas_left ELSE 0
           new == IF below = <<>> THEN <<>> ELSE [below EXCEPT ![Len(below)].gas_left = @ + gas_left]
<1>1. Types /\ frames # <<>> /\ frames \in Seq(Frame) /\ vm.tracers \in Seq(Tracer)
  BY VmTypes DEF IInv, End, Types
<1>2. /\ frames' = new
      /\ vm' = IF traced THEN [vm EXCEPT !.tracers = ended(announced)] ELSE vm
  BY DEF End
<1>3. /\ below \in Seq(Frame) /\ Len(below) = n - 1 /\ n \in 1 .. Len(frames) /\ n = Len(frames)
      /\ \A k \in 1 .. n - 1 : below[k] = frames[k]
  BY <1>1, FrontType, TopFrame DEF depth
<1>4. gas_left \in Int
  BY <1>1, TopFrame DEF Frame
<1> HIDE DEF below, gas_left
<1>5. /\ new \in Seq(Frame) /\ Len(new) = n - 1
      /\ \A k \in 1 .. n - 1 : /\ new[k].code = frames[k].code /\ new[k].gas = frames[k].gas
                               /\ new[k].depth = frames[k].depth /\ new[k].executed = frames[k].executed
  <2>1. CASE below = <<>>
    BY <1>3, <2>1
  <2>2. CASE below # <<>>
    <3> DEFINE m == Len(below)
               b == below[m]
               g == [b EXCEPT !.gas_left = b.gas_left + gas_left]
    <3>1. b \in Frame /\ m \in 1 .. Len(below)
      BY <1>3, <2>2
    <3>2. new = [below EXCEPT ![m] = g]
      BY <2>2, <3>1
    <3>3. b.gas_left + gas_left \in Int
      BY <1>4, <3>1 DEF Frame
    <3> HIDE DEF m, b
    <3>4. /\ g \in Frame /\ g.code = b.code /\ g.gas = b.gas /\ g.depth = b.depth /\ g.executed = b.executed
      BY <3>1, <3>3 DEF Frame
    <3> HIDE DEF g, new
    <3>5. /\ new \in Seq(Frame) /\ Len(new) = Len(below)
          /\ \A k \in 1 .. Len(below) : new[k] = IF k = m THEN g ELSE below[k]
      BY <1>3, <3>1, <3>2, <3>4, ReplaceType
    <3>6. ASSUME NEW k \in 1 .. n - 1
          PROVE  /\ new[k].code = frames[k].code /\ new[k].gas = frames[k].gas
                 /\ new[k].depth = frames[k].depth /\ new[k].executed = frames[k].executed
      <4>1. below[k] = frames[k] /\ new[k] = IF k = m THEN g ELSE below[k]
        BY <1>3, <3>5
      <4>2. CASE k = m
        BY <3>4, <4>1, <4>2 DEF b
      <4> QED
        BY <4>1, <4>2
    <3> QED
      BY <1>3, <3>5, <3>6
  <2> QED
    BY <2>1, <2>2
<1> HIDE DEF new
<1>6. CASE traced
  <2>1. /\ announced \in Seq(Tracer) /\ Len(announced) = Len(vm.tracers)
        /\ Final(top) \in Frame /\ AllMirror(announced, fs)
    BY <1>1, <1>6, EndAnnounced
  <2>2. fs \in Seq(Frame) /\ Len(fs) = n /\ \A k \in 1 .. n - 1 : fs[k] = frames[k]
    BY <1>1, <1>3, <2>1, ReplaceType
  <2> HIDE DEF fs
  <2>3. fs # <<>>
    BY <1>3, <2>2
  <2>4. /\ ended(announced) \in Seq(Tracer) /\ Len(ended(announced)) = Len(vm.tracers)
        /\ AllMirror(ended(announced), Front(fs))
    BY <2>1, <2>2, <2>3, EndedMirrors
  <2>5. Len(Front(fs)) = n - 1 /\ \A k \in 1 .. n - 1 : Front(fs)[k] = frames[k]
    BY <2>2, <2>3, FrontType
  <2>6. ASSUME NEW ctx, Mirrors(ctx, Front(fs))
        PROVE  Mirrors(ctx, new)
    <3>1. Len(ctx) = Len(new)
      BY <1>5, <2>5, <2>6 DEF Mirrors
    <3>2. ASSUME NEW k \in 1 .. Len(new)
          PROVE  Match(ctx[k], new[k])
      <4>1. k \in 1 .. n - 1 /\ k \in 1 .. Len(Front(fs))
        BY <1>5, <2>5
      <4>2. Match(ctx[k], frames[k])
        BY <2>5, <2>6, <4>1 DEF Mirrors
      <4> QED
        BY <1>5, <4>1, <4>2 DEF Match
    <3> QED
      BY <3>1, <3>2 DEF Mirrors
  <2>7. AllMirror(ended(announced), new)
    BY <2>4, <2>6 DEF AllMirror
  <2> QED
    BY <1>2, <1>5, <1>6, <2>4, <2>7, StepTo
<1>7. CASE ~traced
  BY <1>1, <1>2, <1>5, <1>7, VmSame, StepTo
<1> QED
  BY <1>6, <1>7

------------------------------------------------------------------------------
(* No execution and no tracer at first.                                    *)
LEMMA InvariantInit == Init => IInv
<1> SUFFICES ASSUME Init PROVE IInv
  OBVIOUS
<1>1. Types
  BY DEF Init, Types
<1>2. vm.tracers = <<>>
  BY DEF Init
<1> QED
  BY <1>1, <1>2 DEF IInv, AllMirror

(* Every step keeps the invariant.                                         *)
LEMMA InvariantStep == IInv /\ [Next]_vars => IInv'
<1> SUFFICES ASSUME IInv, [Next]_vars PROVE IInv'
  OBVIOUS
<1>1. ASSUME NEW name, NEW value, set_option(name, value) PROVE IInv'
  BY <1>1, SetOptionStep
<1>2. ASSUME NEW code \in Codes, NEW gas \in GasLimits, NEW d \in OuterDepths, Execute(code, gas, d) PROVE IInv'
  BY <1>2, ExecuteStep
<1>3. ASSUME NEW code \in Codes, NEW gas \in GasLimits, Call(code, gas) PROVE IInv'
  BY <1>3, CallStep
<1>4. CASE Continue
  BY <1>4, InstructionStep DEF Continue, Running
<1>5. CASE CallTooDeep
  BY <1>5, InstructionStep DEF CallTooDeep, Running
<1>6. CASE End
  BY <1>6, EndStep
<1>7. CASE UNCHANGED vars
  BY <1>7 DEF vars, IInv, Types, traced, AllMirror, Mirrors
<1> QED
  BY <1>1, <1>2, <1>3, <1>4, <1>5, <1>6, <1>7 DEF Next

(* The invariant contains the property of the run.                         *)
LEMMA InvariantMirrors == IInv => ContextsMirrorExecutions
<1> SUFFICES ASSUME IInv, NEW i \in DOMAIN vm.tracers
             PROVE  LET ctx == vm.tracers[i].contexts
                    IN /\ Len(ctx) = (IF traced THEN depth ELSE 0)
                       /\ \A k \in DOMAIN ctx :
                            /\ ctx[k].code = frames[k].code
                            /\ ctx[k].start_gas = frames[k].gas
                            /\ ctx[k].depth = frames[k].depth
  BY DEF ContextsMirrorExecutions
<1> DEFINE ctx == vm.tracers[i].contexts
<1>1. vm.tracers \in Seq(Tracer) /\ frames \in Seq(Frame)
  BY VmTypes DEF IInv, Types
<1>2. i \in 1 .. Len(vm.tracers)
  BY <1>1
<1>3. ctx \in Seq(Context)
  BY <1>1, <1>2, TracerFields
<1>4. Mirrors(ctx, IF traced THEN frames ELSE <<>>)
  BY <1>2 DEF IInv, AllMirror
<1> HIDE DEF ctx
<1>5. DOMAIN ctx = 1 .. Len(ctx)
  BY <1>3
<1>6. Len(ctx) = IF traced THEN depth ELSE 0
  BY <1>4 DEF Mirrors, depth
<1>7. ASSUME NEW k \in DOMAIN ctx
      PROVE  Match(ctx[k], frames[k])
  BY <1>4, <1>5, <1>7 DEF Mirrors
<1> QED
  BY <1>6, <1>7 DEF Match, ctx

(* At every moment the stack of contexts of every tracer is the stack of   *)
(* executions, whatever calls, failures and options came before.           *)
THEOREM ContextsCorrect == Spec => []ContextsMirrorExecutions
  BY InvariantInit, InvariantStep, InvariantMirrors, PTL DEF Spec

------------------------------------------------------------------------------
(* The histogram that a step prints has the counts of the execution that   *)
(* ends in it.                                                             *)
CountsExact ==
  \A l \in out' : l.line = "histogram" =>
    \A op \in Opcode :
      l.counts[op] = top.executed[op]
        + (IF top.pc < Len(top.code) /\ opcode_at(top) = op THEN 1 ELSE 0)

(* The end of an execution prints its own counts.                          *)
LEMMA EndCounts ==
  ASSUME IInv, End
  PROVE  CountsExact
<1>1. Types /\ frames # <<>> /\ frames \in Seq(Frame)
  BY DEF IInv, End, Types
<1>2. top \in Frame /\ depth \in 1 .. Len(frames) /\ depth = Len(frames) /\ opcode_at(top) \in Opcode
  BY <1>1, TopFrame DEF depth
<1> SUFFICES ASSUME NEW l \in out', l.line = "histogram", NEW op \in Opcode
             PROVE  l.counts[op] = top.executed[op]
                      + (IF top.pc < Len(top.code) /\ opcode_at(top) = op THEN 1 ELSE 0)
  BY DEF CountsExact
<1>3. traced /\ l \in end_lines(announced, announced_base)
  BY DEF End
<1>4. PICK i \in DOMAIN announced : l.counts = Last(announced[i].contexts).counts
  BY <1>3 DEF end_lines
<1> DEFINE fs == [frames EXCEPT ![depth] = Final(top)]
           ctx == announced[i].contexts
<1>5. announced \in Seq(Tracer) /\ Final(top) \in Frame /\ AllMirror(announced, fs)
  BY <1>1, <1>3, EndAnnounced
<1>6. Len(fs) = depth /\ fs[depth] = Final(top)
  BY <1>1, <1>2, <1>5, ReplaceType
<1>7. i \in 1 .. Len(announced)
  BY <1>5
<1> HIDE DEF fs
<1>8. Mirrors(ctx, fs)
  BY <1>5, <1>7 DEF AllMirror
<1>9. Len(ctx) = depth /\ Match(ctx[depth], Final(top))
  BY <1>2, <1>6, <1>8 DEF Mirrors
<1>10. l.counts = Final(top).executed
  BY <1>4, <1>9 DEF Last, Match
<1>11. top.executed \in Counts
  BY <1>2 DEF Frame
<1>12. CASE shown(top)
  <2>1. l.counts = Counted(top.executed, opcode_at(top))
    BY <1>2, <1>10, <1>12, BegunFrame DEF Final
  <2> QED
    BY <1>2, <1>11, <1>12, <2>1 DEF Counts, shown, Counted
<1>13. CASE ~shown(top)
  BY <1>10, <1>11, <1>13 DEF Final, shown, Counts
<1> QED
  BY <1>12, <1>13

(* The start of an execution prints no histogram.                          *)
LEMMA EnterCounts ==
  ASSUME NEW below, NEW tracers, NEW b, NEW code, NEW gas, NEW d, Enter(below, tracers, b, code, gas, d)
  PROVE  CountsExact
<1>1. \A l \in out' : l.line = "start"
  BY DEF Enter, start_lines
<1> QED
  BY <1>1 DEF CountsExact

(* No step prints wrong counts.                                            *)
LEMMA StepCounts == IInv /\ [Next]_vars => [CountsExact]_vars
<1> SUFFICES ASSUME IInv, Next PROVE CountsExact
  OBVIOUS
<1>1. ASSUME out' = {} PROVE CountsExact
  BY <1>1 DEF CountsExact
<1>2. ASSUME NEW name, NEW value, set_option(name, value) PROVE CountsExact
  BY <1>1, <1>2 DEF set_option
<1>3. ASSUME NEW code, NEW gas, NEW d, Execute(code, gas, d) PROVE CountsExact
  BY <1>3, EnterCounts DEF Execute
<1>4. ASSUME NEW code, NEW gas, Call(code, gas) PROVE CountsExact
  BY <1>4, EnterCounts DEF Call
<1>5. CASE Continue
  BY <1>1, <1>5 DEF Continue
<1>6. CASE CallTooDeep
  BY <1>1, <1>6 DEF CallTooDeep
<1>7. CASE End
  BY <1>7, EndCounts
<1> QED
  BY <1>2, <1>3, <1>4, <1>5, <1>6, <1>7 DEF Next

(* What a histogram prints when an execution ends is what that execution   *)
(* began, nothing of its callees, its callers and the padding.             *)
THEOREM HistogramsCorrect == Spec => HistogramCountsExact
<1>1. Spec => [][CountsExact]_vars
  BY InvariantInit, InvariantStep, StepCounts, PTL DEF Spec
<1> QED
  BY <1>1 DEF HistogramCountsExact, CountsExact

------------------------------------------------------------------------------
(* The stream is in hex only after the end of an execution that an         *)
(* instruction tracer was told of.                                         *)
HexIsLeftBehind == base = "hex" => has_trace(Len(vm.tracers)) /\ messages >= 1

(* What is preserved for the number base.                                  *)
BInv == HexIsLeftBehind /\ NumbersAreDecimal /\ messages \in Nat

(* The tracers keep their kinds when they are told of something.           *)
Kinded(ts, us) ==
  /\ DOMAIN us = DOMAIN ts
  /\ \A i \in DOMAIN ts : DOMAIN us[i] = DOMAIN ts[i] /\ us[i].kind = ts[i].kind

OfKind(ts) == \A i \in DOMAIN ts : "kind" \in DOMAIN ts[i]

(* Other contexts, the same kind.                                          *)
LEMMA KeepsKind ==
  ASSUME NEW t, "kind" \in DOMAIN t, NEW c
  PROVE  With(t, c).kind = t.kind /\ DOMAIN With(t, c) = DOMAIN t
  BY DEF With

(* Each notification changes contexts only.                                *)
LEMMA KindsKept ==
  ASSUME NEW ts, OfKind(ts), NEW pc, NEW f
  PROVE  Kinded(ts, instruction_seen(ts, pc)) /\ Kinded(ts, started(ts, f)) /\ Kinded(ts, ended(ts))
<1>1. ASSUME NEW i \in DOMAIN ts
      PROVE  /\ instruction_seen(ts, pc)[i]
                   = With(ts[i], [ts[i].contexts EXCEPT ![Len(ts[i].contexts)] =
                                    counted(ts[i].contexts[Len(ts[i].contexts)], pc)])
             /\ started(ts, f)[i] = With(ts[i], Append(ts[i].contexts, start_context(f)))
             /\ ended(ts)[i] = With(ts[i], Front(ts[i].contexts))
  BY DEF instruction_seen, started, ended, With
<1>2. /\ DOMAIN instruction_seen(ts, pc) = DOMAIN ts
      /\ DOMAIN started(ts, f) = DOMAIN ts /\ DOMAIN ended(ts) = DOMAIN ts
  BY DEF instruction_seen, started, ended
<1>3. ASSUME NEW i \in DOMAIN ts, NEW c
      PROVE  DOMAIN With(ts[i], c) = DOMAIN ts[i] /\ With(ts[i], c).kind = ts[i].kind
  BY KeepsKind, ZenonT(60) DEF OfKind
<1> QED
  BY <1>1, <1>2, <1>3 DEF Kinded

(* One notification after another.                                         *)
LEMMA KindsChain ==
  ASSUME NEW ts, NEW us, OfKind(ts), Kinded(ts, us)
  PROVE  OfKind(us) /\ \A ws : Kinded(us, ws) => Kinded(ts, ws)
  BY DEF OfKind, Kinded

(* What a step of an execution does to the list of tracers.                *)
LEMMA ToldKinds ==
  ASSUME Types
  PROVE  /\ Kinded(vm.tracers, vm.tracers) /\ Kinded(vm.tracers, announced)
         /\ \A f : Kinded(vm.tracers, started(vm.tracers, f)) /\ Kinded(vm.tracers, started(announced, f))
         /\ Kinded(vm.tracers, ended(announced))
<1> DEFINE ts == vm.tracers
<1>1. ts \in Seq(Tracer)
  BY VmTypes
<1>2. OfKind(ts)
  <2>1. ASSUME NEW t \in Tracer PROVE "kind" \in DOMAIN t
    BY DEF Tracer
  <2>2. \A i \in DOMAIN ts : ts[i] \in Tracer
    BY <1>1
  <2> QED
    BY <2>1, <2>2 DEF OfKind
<1>3. Kinded(ts, ts)
  BY DEF Kinded
<1> HIDE DEF ts
<1>4. Kinded(ts, announced)
  BY <1>2, <1>3, KindsKept DEF announced, ts
<1>5. OfKind(announced) /\ \A ws : Kinded(announced, ws) => Kinded(ts, ws)
  BY <1>2, <1>4, KindsChain
<1>6. ASSUME NEW f
      PROVE  Kinded(ts, started(ts, f)) /\ Kinded(announced, started(announced, f)) /\ Kinded(announced, ended(announced))
  BY <1>2, <1>5, KindsKept
<1> QED
  BY <1>3, <1>4, <1>5, <1>6 DEF ts

(* An instruction tracer that is there stays there.                        *)
LEMMA TraceStays ==
  ASSUME Types, Types', has_trace(Len(vm.tracers)), Kinded(vm.tracers, vm'.tracers)
  PROVE  has_trace(Len(vm.tracers))'
<1>1. PICK j \in 1 .. Len(vm.tracers) : vm.tracers[j].kind = "trace"
  BY DEF has_trace
<1>2. vm.tracers \in Seq(Tracer) /\ vm'.tracers \in Seq(Tracer)
  BY VmTypes DEF Types
<1>3. j \in 1 .. Len(vm'.tracers) /\ vm'.tracers[j].kind = "trace"
  BY <1>1, <1>2 DEF Kinded
<1> QED
  BY <1>3 DEF has_trace

(* The lists of tracers an execution step can lead to.                     *)
Told(ts) ==
  \/ ts = vm.tracers \/ ts = announced \/ ts = ended(announced)
  \/ \E f : ts = started(vm.tracers, f) \/ ts = started(announced, f)

(* The VM object after a step of an execution.                             *)
LEMMA ToldStep ==
  ASSUME IInv, IInv', NEW ts, Told(ts), vm' = [vm EXCEPT !.tracers = ts] \/ vm' = vm
  PROVE  has_trace(Len(vm.tracers)) => has_trace(Len(vm.tracers))'
<1>1. Types /\ Types'
  BY DEF IInv
<1>2. vm'.tracers = ts \/ vm'.tracers = vm.tracers
  BY <1>1 DEF Types
<1>3. Kinded(vm.tracers, vm.tracers) /\ Kinded(vm.tracers, ts)
  BY <1>1, ToldKinds DEF Told
<1> QED
  BY <1>1, <1>2, <1>3, TraceStays

(* A step that starts an execution.  If it is nested, a CALL has just been *)
(* announced to the instruction tracer, which leaves the stream in         *)
(* decimal.                                                                *)
LEMMA EnterDecimal ==
  ASSUME IInv, IInv', BInv, NEW below, NEW ts, ts = vm.tracers \/ ts = announced,
         NEW b, NEW code, NEW gas, NEW d, Enter(below, ts, b, code, gas, d),
         \/ below = <<>> /\ b = base
         \/ (traced /\ has_trace(Len(vm.tracers)) => b = "dec") /\ (b = "dec" \/ b = base)
  PROVE  BInv'
<1> DEFINE f == NewFrame(code, gas, d)
           us == started(ts, f)
<1>1. /\ messages' = messages + 1 /\ base' = b /\ messages \in Nat /\ HexIsLeftBehind
      /\ frames' = Append(below, f) /\ out' = IF traced THEN start_lines(f, b) ELSE {}
      /\ vm' = IF traced THEN [vm EXCEPT !.tracers = us] ELSE vm
  BY DEF Enter, BInv
<1>2. Told(us)
  BY DEF Told
<1> HIDE DEF us, f
<1>3. has_trace(Len(vm.tracers)) => has_trace(Len(vm.tracers))'
  BY <1>1, <1>2, ToldStep
<1>4. b = "hex" => b = base
  OBVIOUS
<1>5. HexIsLeftBehind'
  BY <1>1, <1>3, <1>4 DEF HexIsLeftBehind
<1>6. ASSUME NEW l \in out', l.base = "hex"
      PROVE  has_trace(Len(vm.tracers))' /\ depth' = 1 /\ messages' > 1
  <2>1. traced /\ l \in start_lines(f, b)
    BY <1>1, <1>6
  <2>2. PICK i \in DOMAIN vm.tracers : vm.tracers[i].kind = "trace" /\ l.base = b
    BY <2>1 DEF start_lines
  <2>3. vm.tracers \in Seq(Tracer)
    BY VmTypes DEF IInv
  <2>4. has_trace(Len(vm.tracers))
    BY <2>2, <2>3 DEF has_trace
  <2>5. b = "hex" /\ base = "hex" /\ below = <<>>
    BY <1>4, <1>6, <2>1, <2>2, <2>4
  <2>6. messages >= 1
    BY <1>1, <2>5 DEF HexIsLeftBehind
  <2>7. depth' = 1
    BY <1>1, <2>5 DEF depth
  <2> QED
    BY <1>1, <1>3, <2>4, <2>6, <2>7
<1>7. NumbersAreDecimal'
  BY <1>6 DEF NumbersAreDecimal
<1> QED
  BY <1>1, <1>5, <1>7 DEF BInv

(* A step that prints nothing, and leaves the stream as it is or in        *)
(* decimal.                                                                *)
LEMMA QuietStep ==
  ASSUME BInv, has_trace(Len(vm.tracers)) => has_trace(Len(vm.tracers))',
         out' = {}, messages' = messages, base' = "dec" \/ base' = base
  PROVE  BInv'
  BY DEF BInv, HexIsLeftBehind, NumbersAreDecimal

(* An announced instruction leaves the stream as it is or in decimal.      *)
LEMMA AnnouncedBase ==
  announced_base = "dec" \/ announced_base = base
  BY DEF announced_base, base_after_instruction

(* set_option() keeps the tracers that are there.                          *)
LEMMA OptionDecimal ==
  ASSUME IInv, BInv, NEW name, NEW value, set_option(name, value)
  PROVE  BInv'
<1>1. Types /\ vm.tracers \in Seq(Tracer)
  BY VmTypes DEF IInv
<1>2. out' = {} /\ messages' = messages /\ (base' = "dec" \/ base' = base)
  BY DEF set_option
<1>3. \/ vm' = [vm EXCEPT !.execute = "advanced"] \/ vm' = [vm EXCEPT !.cgoto = FALSE] \/ vm' = vm
      \/ \E kind \in {"trace", "histogram"} : add_tracer(kind)
  BY DEF set_option
<1>4. CASE vm' = [vm EXCEPT !.execute = "advanced"] \/ vm' = [vm EXCEPT !.cgoto = FALSE] \/ vm' = vm
  <2>1. vm'.tracers = vm.tracers
    BY <1>1, <1>4 DEF Types
  <2> QED
    BY <1>2, <2>1, QuietStep DEF has_trace
<1>5. ASSUME NEW kind \in {"trace", "histogram"}, add_tracer(kind)
      PROVE  BInv'
  <2> DEFINE n == [kind |-> kind, contexts |-> <<>>]
  <2>1. n \in Tracer
    BY DEF Tracer
  <2>2. vm'.tracers = Append(vm.tracers, n)
    BY <1>1, <1>5 DEF add_tracer, Types
  <2> HIDE DEF n
  <2>3. ASSUME NEW j \in 1 .. Len(vm.tracers), vm.tracers[j].kind = "trace"
        PROVE  j \in 1 .. Len(vm'.tracers) /\ vm'.tracers[j].kind = "trace"
    BY <1>1, <2>1, <2>2, <2>3, AppendType
  <2>4. has_trace(Len(vm.tracers)) => has_trace(Len(vm.tracers))'
    BY <2>3 DEF has_trace
  <2> QED
    BY <1>2, <2>4, QuietStep
<1> QED
  BY <1>3, <1>4, <1>5

(* At the end of an execution a histogram is in hex only if an instruction *)
(* tracer has put it there, now or before.                                 *)
LEMMA EndDecimal ==
  ASSUME IInv, IInv', BInv, messages >= 1, End
  PROVE  BInv'
<1> DEFINE ts == announced
<1>1. /\ messages' = messages /\ base' = base_after_end(announced_base)
      /\ out' = IF traced THEN end_lines(ts, announced_base) ELSE {}
      /\ vm' = IF traced THEN [vm EXCEPT !.tracers = ended(announced)] ELSE vm
  BY DEF End
<1>2. has_trace(Len(vm.tracers)) => has_trace(Len(vm.tracers))'
  BY <1>1, ToldStep DEF Told
<1>3. vm.tracers \in Seq(Tracer) /\ DOMAIN vm.tracers = 1 .. Len(vm.tracers) /\ Len(vm.tracers) \in Nat
  BY VmTypes DEF IInv
<1>4. announced_base = "hex" => has_trace(Len(vm.tracers))
  BY AnnouncedBase DEF BInv, HexIsLeftBehind
<1>5. HexIsLeftBehind'
  BY <1>1, <1>2, <1>4 DEF HexIsLeftBehind, base_after_end
<1>6. ASSUME NEW l \in out', l.base = "hex"
      PROVE  has_trace(Len(vm.tracers))' /\ l.line # "start"
  <2>1. traced /\ l \in end_lines(ts, announced_base)
    BY <1>1, <1>6
  <2>2. DOMAIN ts = 1 .. Len(vm.tracers)
    BY <1>3, ToldKinds DEF Kinded, IInv
  <2> HIDE DEF ts
  <2>3. PICK i \in DOMAIN ts : l.line = "histogram" /\ l.base = IF has_trace(i - 1) THEN "hex" ELSE announced_base
    BY <2>1 DEF end_lines
  <2>4. has_trace(i - 1) => has_trace(Len(vm.tracers))
    BY <1>3, <2>2 DEF has_trace
  <2> QED
    BY <1>2, <1>4, <1>6, <2>3, <2>4
<1>7. NumbersAreDecimal'
  BY <1>6 DEF NumbersAreDecimal
<1> QED
  BY <1>1, <1>5, <1>7 DEF BInv

(* An execution is that of a message.                                      *)
Messages == messages \in Nat /\ (frames # <<>> => messages >= 1)

(* Every step keeps that.                                                  *)
LEMMA MessagesStep ==
  ASSUME IInv, Messages, [Next]_vars
  PROVE  Messages'
<1>1. CASE UNCHANGED vars
  BY <1>1 DEF vars, Messages
<1>2. CASE messages' = messages /\ (frames = <<>> => frames' = <<>>)
  BY <1>2 DEF Messages
<1>3. CASE messages' = messages + 1
  BY <1>3 DEF Messages
<1>4. Next => \/ messages' = messages + 1
              \/ messages' = messages /\ (frames = <<>> => frames' = <<>>)
  BY DEF Next, set_option, Execute, Call, Enter, Continue, CallTooDeep, End, Running
<1> QED
  BY <1>1, <1>2, <1>3, <1>4

(* Every step keeps the numbers decimal.                                   *)
LEMMA StepDecimal ==
  ASSUME IInv, IInv', Messages, BInv, [Next]_vars
  PROVE  BInv'
<1>1. ASSUME NEW name, NEW value, set_option(name, value) PROVE BInv'
  BY <1>1, OptionDecimal
<1>2. ASSUME NEW code, NEW gas, NEW d, Execute(code, gas, d) PROVE BInv'
  <2>1. Enter(<<>>, vm.tracers, base, code, gas, d)
    BY <1>2 DEF Execute
  <2> QED
    BY <2>1, EnterDecimal
<1>3. ASSUME NEW code, NEW gas, Call(code, gas) PROVE BInv'
  <2> DEFINE msg_gas == IF gas < top.gas_left THEN gas ELSE top.gas_left - 1
             g == [advanced_frame EXCEPT !.gas_left = @ - msg_gas]
             below == [frames EXCEPT ![depth] = g]
  <2>1. shown(top) /\ frames # <<>>
    BY <1>3, InstructionShown DEF Call, Running
  <2>2. traced /\ has_trace(Len(vm.tracers)) => announced_base = "dec"
    BY <2>1 DEF announced_base, base_after_instruction
  <2>3. Enter(below, announced, announced_base, code, msg_gas, top.depth + 1)
    BY <1>3 DEF Call
  <2> HIDE DEF below, msg_gas
  <2> QED
    BY <2>2, <2>3, AnnouncedBase, EnterDecimal
<1>4. ASSUME out' = {}, messages' = messages, vm' = [vm EXCEPT !.tracers = announced], base' = announced_base
      PROVE  BInv'
  BY <1>4, ToldStep, QuietStep, AnnouncedBase DEF Told
<1>5. CASE Continue
  BY <1>4, <1>5 DEF Continue
<1>6. CASE CallTooDeep
  BY <1>4, <1>6 DEF CallTooDeep
<1>7. CASE End
  BY <1>7, EndDecimal DEF End, Messages
<1>8. CASE UNCHANGED vars
  BY <1>8 DEF vars, BInv, HexIsLeftBehind, NumbersAreDecimal, has_trace, depth
<1> QED
  BY <1>1, <1>2, <1>3, <1>5, <1>6, <1>7, <1>8 DEF Next

(* Numbers read as decimal but in the two cases named: a histogram beside  *)
(* an instruction tracer, and the depth of a later message from outside.   *)
THEOREM NumbersDecimal == Spec => []NumbersAreDecimal
<1>1. Init => BInv /\ Messages
  BY DEF Init, BInv, HexIsLeftBehind, NumbersAreDecimal, Messages
<1>2. Spec => []IInv
  BY InvariantInit, InvariantStep, PTL DEF Spec
<1>3. IInv /\ IInv' /\ Messages /\ BInv /\ [Next]_vars => Messages' /\ BInv'
  BY MessagesStep, StepDecimal
<1>4. BInv => NumbersAreDecimal
  BY DEF BInv
<1> QED
  BY <1>1, <1>2, <1>3, <1>4, PTL DEF Spec
==============================================================================
