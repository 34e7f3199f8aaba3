------------------------------- MODULE Tracing -------------------------------
(***************************************************************************)
(* The VM object, its options and its tracers (vm.cpp, vm.hpp, tracing.hpp,*)
(* tracing.cpp) around the executions of baseline::execute(): nested       *)
(* executions notify a list of tracers, each with a stack of contexts, all *)
(* writing to one stream, std::cerr, whose number base they change.        *)
(*                                                                         *)
(* An execution runs its code instruction by instruction; of what          *)
(* instructions do only calls and ends matter here.                        *)
(***************************************************************************)
EXTENDS Integers, Sequences

CONSTANTS
  Codes,           \* sequences of opcodes
  GasLimits,       \* gas of messages
  OuterDepths,     \* msg.depth of messages that come from outside, 0 from the state transition
  CallDepthLimit,  \* 1024 in the program
  MaxTracers,      \* bound: tracers added
  MaxMessages      \* bound: messages executed

Opcode == {"ADD", "CALL", "STOP", "INVALID"}

ASSUME CodesAssumption == Codes \subseteq Seq(Opcode)
ASSUME GasLimitsAssumption == GasLimits \subseteq Nat
ASSUME OuterDepthsAssumption == OuterDepths \subseteq Nat
ASSUME BoundsAssumption == CallDepthLimit \in Nat /\ MaxTracers \in Nat /\ MaxMessages \in Nat

VARIABLES
  vm,        \* class VM: execute, cgoto and the list of tracers
  frames,    \* the executions on the thread's stack, outermost first
  base,      \* number base of std::cerr
  out,       \* what the last step printed without a 0x prefix
  result,    \* of the last set_option()
  messages   \* messages executed

vars == <<vm, frames, base, out, result, messages>>

Init ==
  /\ vm = [execute |-> "baseline", cgoto |-> TRUE, tracers |-> <<>>]
  /\ frames = <<>>
  /\ base = "dec"
  /\ out = {}
  /\ result = "NONE"
  /\ messages = 0

------------------------------------------------------------------------------
(* set_option(), between executions.                                       *)

add_tracer(kind) ==
  /\ Len(vm.tracers) < MaxTracers
  /\ vm' = [vm EXCEPT !.tracers = Append(@, [kind |-> kind, contexts |-> <<>>])]
  /\ result' = "SUCCESS"

set_option(name, value) ==
  /\ frames = <<>>
  /\ \/ name = "advanced" /\ vm' = [vm EXCEPT !.execute = "advanced"] /\ result' = "SUCCESS" /\ UNCHANGED base
     \/ /\ name = "cgoto"
        /\ IF value = "no" THEN vm' = [vm EXCEPT !.cgoto = FALSE] /\ result' = "SUCCESS"
           ELSE result' = "INVALID_VALUE" /\ UNCHANGED vm
        /\ UNCHANGED base
     \/ name = "trace" /\ add_tracer("trace") /\ base' = "dec"
     \/ name = "histogram" /\ add_tracer("histogram") /\ UNCHANGED base
     \/ name = "unknown" /\ result' = "INVALID_NAME" /\ UNCHANGED <<vm, base>>
  /\ out' = {}
  /\ UNCHANGED <<frames, messages>>

------------------------------------------------------------------------------
(* Notifications.  They go through the list of tracers in order.           *)

depth == Len(frames)
top == frames[depth]

Last(s) == s[Len(s)]
Front(s) == SubSeq(s, 1, Len(s) - 1)

NoCounts == [op \in Opcode |-> 0]

(* The byte at pc of the padded code.                                      *)
code_at(code, pc) == IF pc < Len(code) THEN code[pc + 1] ELSE "STOP"

(* Baseline notifies tracers if there are any, Advanced never.             *)
traced == vm.execute = "baseline" /\ vm.tracers # <<>>

has_trace(n) == \E j \in 1 .. n : vm.tracers[j].kind = "trace"

(* Mutant: the instruction tracer's last number is printed in hex too.     *)
base_left_in_hex(b) == IF traced /\ has_trace(Len(vm.tracers)) THEN "hex" ELSE b

(* The base after notify_instruction_start(), b being that before it: the  *)
(* instruction tracer prints gas in hex, then the memory size in decimal.  *)
base_after_instruction(b) == IF traced /\ has_trace(Len(vm.tracers)) THEN "dec" ELSE b

(* and after notify_execution_end(): its last number is the gas used.      *)
base_after_end(b) == IF traced /\ has_trace(Len(vm.tracers)) THEN "hex" ELSE b

(* on_execution_start(): a context with code, gas and depth is pushed; the *)
(* instruction tracer prints the depth.                                    *)
start_context(f) == [code |-> f.code, start_gas |-> f.gas, depth |-> f.depth, counts |-> NoCounts]

started(tracers, f) ==
  [i \in DOMAIN tracers |-> [tracers[i] EXCEPT !.contexts = Append(@, start_context(f))]]

start_lines(f, b) ==
  {[line |-> "start", by |-> i, depth |-> f.depth, base |-> b] :
     i \in {j \in DOMAIN vm.tracers : vm.tracers[j].kind = "trace"}}

(* on_instruction_start(): the opcode at pc of the context's code is       *)
(* counted.                                                                *)
counted(ctx, pc) == [ctx EXCEPT !.counts[code_at(ctx.code, pc)] = @ + 1]

instruction_seen(tracers, pc) ==
  [i \in DOMAIN tracers |-> [tracers[i] EXCEPT !.contexts[Len(tracers[i].contexts)] = counted(@, pc)]]

(* Mutant: only the first tracer of the list hears of the end.             *)
ended_first(tracers) == [tracers EXCEPT ![1].contexts = Front(@)]

(* on_execution_end(): the context is popped; the histogram tracer prints  *)
(* depth and counts, in the base the tracers before it have left.          *)
ended(tracers) == [i \in DOMAIN tracers |-> [tracers[i] EXCEPT !.contexts = Front(@)]]

end_lines(tracers, b) ==
  {[line |-> "histogram", by |-> i, depth |-> Last(tracers[i].contexts).depth,
    counts |-> Last(tracers[i].contexts).counts,
    base |-> IF has_trace(i - 1) THEN "hex" ELSE b] :
     i \in {j \in DOMAIN tracers : tracers[j].kind = "histogram"}}

------------------------------------------------------------------------------
(* Executions.                                                             *)

(* An execution; executed counts the instructions it has begun (history).  *)
NewFrame(code, gas, d) ==
  [code |-> code, gas |-> gas, gas_left |-> gas, depth |-> d, pc |-> 0, executed |-> NoCounts,
   dispatch |-> IF traced THEN "traced" ELSE IF vm.execute = "baseline" /\ vm.cgoto THEN "cgoto" ELSE "switch"]

(* A new execution, of a message of depth d, begins while the tracers are  *)
(* as given and the base is b.                                             *)
Enter(below, tracers, b, code, gas, d) ==
  LET f == NewFrame(code, gas, d)
  IN /\ frames' = Append(below, f)
     /\ vm' = IF traced THEN [vm EXCEPT !.tracers = started(tracers, f)] ELSE vm
     /\ out' = IF traced THEN start_lines(f, b) ELSE {}
     /\ base' = b
     /\ messages < MaxMessages
     /\ messages' = messages + 1
     /\ UNCHANGED result

Execute(code, gas, d) == frames = <<>> /\ Enter(<<>>, vm.tracers, base, code, gas, d)

(* Mutant: the padding is shown to the tracers.                            *)
shown_with_padding(f) == TRUE

(* "Skip STOP from code padding."                                          *)
shown(f) == f.pc < Len(f.code)

opcode_at(f) == code_at(f.code, f.pc)

(* The tracers and the base after the instruction at hand was announced.   *)
announced == IF traced /\ shown(top) THEN instruction_seen(vm.tracers, top.pc) ELSE vm.tracers
announced_base == IF shown(top) THEN base_after_instruction(base) ELSE base

(* The frame behind the instruction at hand, which takes one unit of gas.  *)
advanced_frame ==
  [top EXCEPT !.pc = @ + 1, !.gas_left = @ - 1, !.executed[opcode_at(top)] = @ + 1]

Running(op) == frames # <<>> /\ opcode_at(top) = op

(* An instruction that goes on.                                            *)
Continue ==
  /\ Running("ADD")
  /\ top.gas_left > 0
  /\ frames' = [frames EXCEPT ![depth] = advanced_frame]
  /\ vm' = [vm EXCEPT !.tracers = announced]
  /\ base' = announced_base
  /\ out' = {}
  /\ UNCHANGED <<result, messages>>

(* CALL: Host::call comes back into execute() of the same VM.              *)
Call(code, gas) ==
  /\ Running("CALL")
  /\ top.gas_left > 0
  /\ top.depth < CallDepthLimit
  /\ LET msg_gas == IF gas < top.gas_left THEN gas ELSE top.gas_left - 1
     IN Enter([frames EXCEPT ![depth] = [advanced_frame EXCEPT !.gas_left = @ - msg_gas]],
              announced, announced_base, code, msg_gas, top.depth + 1)

(* CALL at the depth limit: a light failure.                               *)
CallTooDeep ==
  /\ Running("CALL")
  /\ top.depth >= CallDepthLimit
  /\ top.gas_left > 0
  /\ frames' = [frames EXCEPT ![depth] = advanced_frame]
  /\ vm' = [vm EXCEPT !.tracers = announced]
  /\ base' = announced_base
  /\ out' = {}
  /\ UNCHANGED <<result, messages>>

(* The end of execute(): STOP and the padding end with the gas left, an    *)
(* undefined instruction or no gas with none of it.                        *)
End ==
  /\ frames # <<>>
  /\ opcode_at(top) \in {"STOP", "INVALID"} \/ top.gas_left = 0
  /\ LET gas_left == IF opcode_at(top) = "STOP" THEN top.gas_left ELSE 0
         below == Front(frames)
     IN frames' = IF below = <<>> THEN <<>>
                  ELSE [below EXCEPT ![Len(below)].gas_left = @ + gas_left]
  /\ vm' = IF traced THEN [vm EXCEPT !.tracers = ended(announced)] ELSE vm
  /\ out' = IF traced THEN end_lines(announced, announced_base) ELSE {}
  /\ base' = base_after_end(announced_base)
  /\ UNCHANGED <<result, messages>>

Next ==
  \/ \E name \in {"advanced", "cgoto", "trace", "histogram", "unknown"}, value \in {"no", "1"} :
       set_option(name, value)
  \/ \E code \in Codes, gas \in GasLimits, d \in OuterDepths : Execute(code, gas, d)
  \/ \E code \in Codes, gas \in GasLimits : Call(code, gas)
  \/ Continue
  \/ CallTooDeep
  \/ End

Spec == Init /\ [][Next]_vars

------------------------------------------------------------------------------
(* Properties.                                                             *)

(* Every tracer has one context per running execution, in the same order,  *)
(* with that execution's code, gas and depth: m_contexts.top() is always   *)
(* the execution the notification comes from, however executions nest and  *)
(* end, and nothing is left on a stack between messages.                   *)
ContextsMirrorExecutions ==
  \A i \in DOMAIN vm.tracers :
    LET ctx == vm.tracers[i].contexts
    IN /\ Len(ctx) = (IF traced THEN depth ELSE 0)
       /\ \A k \in DOMAIN ctx :
            /\ ctx[k].code = frames[k].code
            /\ ctx[k].start_gas = frames[k].gas
            /\ ctx[k].depth = frames[k].depth

(* A histogram counts exactly the instructions of its own execution: those *)
(* before and after calls, the one that failed, not the callee's and not   *)
(* the padding.                                                            *)
HistogramCountsExact ==
  [][\A l \in out' : l.line = "histogram" =>
       \A op \in Opcode :
         l.counts[op] = top.executed[op]
           + (IF top.pc < Len(top.code) /\ opcode_at(top) = op THEN 1 ELSE 0)]_vars

(* The numbers that are printed without 0x read as decimal, although the   *)
(* tracers share one stream and switch it to hex and back.  Two exceptions *)
(* remain: a histogram beside an instruction tracer, and the depth of a    *)
(* message from outside that is not the first.                             *)
NumbersAreDecimal ==
  \A l \in out : l.base = "hex" =>
    /\ has_trace(Len(vm.tracers))
    /\ l.line = "start" => depth = 1 /\ messages > 1
==============================================================================
