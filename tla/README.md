# TraceWasm in TLA+

Models, model checks and proofs of TraceWasm: its two WebAssembly machines (the
register machine, the stack machine and the loops that drive them), numerics,
linear memory, compilation and instantiation of modules, and the LLVM IR builder
beside them. The subject throughout is bookkeeping that no single line of the
code shows.

## 1. The system

TraceWasm compiles a module's bodies to one of two instruction sets and
interprets them. `Module::compile` reads and validates a binary
(wasmparser), lowers every function body once, and `Module::instantiate` builds
an instance: memory, tables, globals, segments, imports. A call runs a driver
loop (`TraceVM`) that executes one lowered instruction at a time until the body
ends, calls, or traps. A separate crate, `tracewasm-llvm`, builds LLVM IR in
memory; nothing in the interpreter uses it yet. The program is single-threaded:
what is hard in it is not concurrency but long legal sequences, facts recorded
before the event they describe, and state left over from earlier activations.

| component | state | operations | interacts with |
|---|---|---|---|
| simulated operand stack (`instruction/register/{mod,lazy}.rs`) | stack slots, register counter and high-water mark, borrow entries, origin table, spill slots, interned constants | push, pop, tee, push_const, push_local, set_lazy, reserve/free slot | every lowering rule |
| register lowering (`register/{mod,backpatch}.rs`) | the simulated stack, control stack, emitted instructions, recorded operand runs, dead-code tracker | one arm per operator, spill_live_locals, end-of-body resolution | produces the layout and code execution trusts |
| register execution (`RegInstruction::execute`) | registers of the running frame, globals, memory, tables | one arm per instruction | driver, frames, memory, imports |
| register frames and drivers (`runtime/{reg,mod}.rs`) | register file, depth, suspended callers | reset, enter_frame, exit_frame, call_imported, two drivers | execution; traps unwind it |
| stack lowering and execution (`instruction/stack`, `runtime/stack.rs`) | value stack, control stack, branch records | as above, for a stack machine | same driver |
| linear memory (`memory/`) | bytes | read, write, copy, fill, grow | loads, stores, imports |
| module and instance (`module/`, `instance/`) | declarations, segments, tables, globals, configuration | compile, instantiate, get_typed_func, call | everything above |
| interner, arenas (`tracewasm-utils`, `arena.rs`) | values by id | try_intern, alloc | lowering |
| LLVM IR builder (`tracewasm-llvm`) | blocks, functions, types, registers, names | builders, cursors, walk, emit | none |

What makes each correct, in one line:

* simulated stack: an operand reads the value it had when it was pushed, however
  often its local is written before it is popped; no register or spill slot is
  given to two live values.
* lowering and execution: a body's register code returns what its operators
  mean, on every path, whatever the frame held on entry.
* frames: a callee's frame overlaps nothing its caller still needs; a trap
  leaves nothing that the next call can see.
* stack machine: the same meaning; the same traps; a branch leaves exactly the
  operands its label carries, whatever lies under the frame.
* numerics: both machines give what WebAssembly defines, at the ends of every width.
* memory: an access is entirely inside the memory or changes nothing.
* instantiation: an instance is complete or does not exist.
* LLVM IR builder: every accepted sequence of calls gives text that is well typed;
  a literal keeps its number when it changes its type; a refused call leaves the
  module as it was.

The hazards of the code, each at its line, are listed in `PROJECT.json`.

## 2. The modules

```
WasmOperands          the operand stack of WebAssembly (abstract)
SimulatedStack        the record and operators of the simulated stack, its invariants
  LazyOperands        straight-line code: lowering and run together; refines WasmOperands
    LazyOperandsProofs   the theorems
  SimulatedStackProofs   lemmas about every stack operator
WasmCode              operators, validity, meaning (external)
  BodyReader          a validated body, chosen as it is read
    BodyReaderProofs  lemmas: the labels of a validated body, how they nest, their kinds,
                      where a branch goes
    RegLowering       register lowering of structured bodies (with SimulatedStack)
      RegExecution    the run of a lowered body; compares it with its meaning
        RegLoweringProofs   its theorems: the simulated stack, the heights
          RegJumpsProofs    its theorems: where the jumps go
    StackLowering     stack lowering of the same bodies
      StackExecution  its run on the shared operand stack
        StackLoweringProofs   the theorems about the stack lowering
          StackRunProofs      the theorems about its run
  Bodies              the alphabets of the runs
    RegExecutionMC, StackExecutionMC
FrameLayouts          storage plans of bodies, records of a backtrace
  CallChain           calls in which every activation owns its slots (abstract)
  Drivers             both driver loops on the one register file; refines CallChain
    DriversMC         its instance for TLC
    DriversProofs     the theorems, refinement included
RustNumbers           integers and floats of the host at small widths (external)
  RuntimeValues       the untagged Value, truncation limits
    StackNumerics, RegNumerics     the numeric arms of the two machines
  WasmNumerics        WebAssembly's numerics (external)
    Numerics          both machines on the same operands;  NumericsMC
  LinearMemory        the memory and its view, what the memory arms share
    StackMemory, RegMemory         the memory arms of the two machines
    Memories          both machines and a host, against WebAssembly's memory instructions
                      (external), one after another;  MemoriesMC
    WasmModules       modules as binaries list them, what instantiating gives (external)
      Instantiation   compile, instantiate, get_typed_func;  InstantiationMC
IrValues              types, constants and values of the IR builder
  IrContext           symbols, functions, blocks, names, register definitions
    IrCursor          what a cursor builds
    IrEmitter         the walk and the text
      LlvmRules       what llvm-as asks of the text (external)
    IrBuilder         a client's calls, in any order;  IrBuilderMC
```

### SimulatedStack

A record `s` has the fields of the source's `SimulatedStack` that lowering
reads back: the stack, `curr_register_index`, `max_registers`, the arena's
`entries` (numbered from 1, never reused), `origin`, the spill arena, and the
constant interner. Every method is an operator from record to record with the
method's name; a method that returns `RegisterFrameTooLarge` sets `failed`, and
the machines stop there as `?` does. `location` is what `pop`, `simulated_pop`
and `tee` report. `RefCountsOK`, `OriginsOK`, `SpillsOK` and `RegistersOK` are
the invariants; as predicates on the record they serve both machines.

Operators whose comment begins "A slip" are wrong on purpose: plausible bugs
that the mutation runs substitute for the operator they name. No other
definition uses them.

### LazyOperands and WasmOperands

For code without blocks, lowering order is execution order, so one step lowers
an operator and runs what it emits. `sim` is the simulated stack; `locals`,
`registers` and `spills` are the regions of the frame. `Operands` reads each
stack slot where the lowering says it lives; under that mapping the machine
implements `WasmOperands`, in which a slot simply holds its value
(`ImplementsWasm`). An operator of type I -> O is I `Pop`s and O `Push`es, and
`arg` exposes each operand read, so a wrong read is a difference in behaviour
even when the operand is gone from the stack. What is pushed is any value:
arithmetic is not the question here.

### WasmCode

What is outside the repository: which operator sequences are valid
(`Allowed`, `Validated`, with the polymorphic stack of unreachable code) and what
a valid body means (`Meaning`, an evaluator with labels and `Fuel`). Every value is
a number, so a type is an arity. It knows nothing of registers or of a stack's
layout, so agreeing with it is a real statement, and both machines are held to it.
`BodyReader` offers the operators of a body one by one: any valid sequence over one
of the run's `Alphabets`, each of which has its own bounds on length and height.

### RegLowering

One action per operator of `emit_instructions_for_func`, each the whole arm:
rescues, recorded indices, recorded operand runs, the Move, the instruction, the
layout reset, the dead-code mark. The body is chosen while it is read: any valid
sequence over one of the run's alphabets, within that alphabet's length and height.
`lowering.instructions` keeps the source's indices (index i at position
i + 1); destinations stay relative until `Resolve`, which is the end-of-body pass:
the frame-width check, the four-region layout, `BackpatchMap::apply` and the
`caller_base` shift. `instruction_offsets` is the code's own table from an emitted
index to the operator it came from, kept here as the operator's position; the machine
uses it for backtraces, and `JumpsLand` to say which operator a target stands for.

Abstractions: an operand arena entry is part of the instruction that owns it;
the backpatch map is a sequence of runs, selected by instruction index in the
order they were recorded; u16 limits are the constants `MAX_REGISTER_SLOTS`,
`MAX_SPILLS`, `MAX_CONSTS` and `MAX_FRAME`; of the numeric operators, which share
one emit path, there are a unary, a binary and a ternary one.

### RegExecution

The frame is a function from index to value. On entry the locals and constants
are written and everything else is `Stale`, a value no body can produce; so a
read of something this activation did not write shows in the result. There is
one action per instruction of `execute`; `Numeric` stands for the arms that read
operands, compute and write the destination. A call to an import overwrites the
results only; a call to a local function overwrites everything from
`caller_base` up before its results appear, which is the most a callee's frames
can do. A trap ends the run.

### StackLowering and StackExecution

The stack lowering emits one instruction per operator, dead ones included, so an
index is a position in the body; `LowerEnd`, `LowerElse` and the branches are its
arms with `curr_height`, the recorded block heights and the back-patching. The flat
`br_table_target_branches` is kept flat, since that is where an arm can be resolved
into another table's slot. `StackExecution` runs the result in a frame entered on a
stack that already holds a caller's operands (`Callers`): locals and operands are
addressed from `base_height`, storage keeps what was popped, and
`truncate_by_preserving_arity` moves a branch's operands down over whatever is there.

### Numerics

`StackNumerics` and `RegNumerics` translate the numeric arms of the two `execute`
functions, as functions from operands to a result or an error, each with the height
effect or signature its lowering books. The host's arithmetic (wrapping, checked and
saturating forms, casts, shifts, rounding) is `RustNumbers`; WebAssembly's definition
is `WasmNumerics`, over bit patterns. `Numerics` runs one instruction on both
machines above an operand that must survive. Widths keep their proportions at a
quarter (2, 4, 8, 16 bits); a float is a sign, an exponent and a mantissa of so few
bits that neither width holds the other's integers exactly, which is what makes the
truncation limits delicate in the code.

### LinearMemory and Memories

`LinearMemory` has every method of the memory and its view, on a sequence of bytes.
`StackMemory` and `RegMemory` are the arms: address sums, widths, sign extension,
grow, fill, copy, init and drop. `Memories` begins with WebAssembly's definition of the
same instructions, which is external; it gives each machine and a host an instance
of its own and lets them execute the same instructions in a row; a trap ends a call
and leaves the instance, so what it left behind meets the next instruction.

### Instantiation

One action per payload that `Module::compile` handles, then one per step of
`Module::instantiate` in the code's order, each with its refusals, then
`get_typed_func`. Binaries are sequences of items that a validator accepted; what
an instance of one should be, and what may be wrong with it, is `WasmModules`, which
reads the binary and never what `compile` collected. A start function runs as any
body would; it succeeds or traps. Bodies are not lowered here: a body of a binary
carries the error its lowering would end with, if any, and `CodeSectionEntry` passes
that on as the code's `?` does; a constant expression with an operator that
`emit_instruction_for_const_expr` does not know is refused where it is met.

### The IR builder

Operations of `IrContext` and `IrCursor` take the context and return a reply: the
context after the call, and what the caller gets unless it was refused. What a refused
call has already changed is kept, since that is a hazard. Types are records, as
interning makes equal types one id. `IrEmitter` turns the finished graph into lines,
records of the words of the text in which an operand has lost its type except where
the line writes one; `LlvmRules` judges those lines alone, and lists its objections by
function and rule. In `IrBuilder` a client
follows a plan, a sequence of menus, and at each step makes any call on the menu, with
values its earlier calls returned; it may have the graph written out at any point.

### Drivers, CallChain and FrameLayouts

What `RegExecution` assumes of a callee is the subject here. `driver` chooses the
loop: "Native" is `execute_on_native_stack`, which `run` uses; "FrameStack" is
`_execute_on_frame_stack`, kept in the code beside it. `current` holds the loop's
variables for the activation it executes, with the body, the layout and the
offsets as separate fields because the frame-stack loop saves and restores each
of them; `frames` are the suspended callers (the host's stack, or the
`Vec<Frame>`); `registers` is `RegFrame`. The operators of the register file are
its methods. `Run`, `StepNext`, `StepJumpTo`, `CallImported`, `StepCall`,
`ReturnToCaller` and `Finish` are the arms and ends of the loops. A trap under the
native loop is `TrapHere`, one `UnwindFrame` per caller and `CloseUnwind`; under the
other it is `FuncCallErr` at once. `run` may be called again after any of them, on
the register file they left.

Which instructions a body has is abstracted: at each step it writes one slot of its
frame that is not a constant, jumps inside its body, calls a function with
`caller_base` anywhere among its operand registers, or fails. `FrameLayouts` gives
each function a `Plan`, the counts of `RegFrameLayout` with its function type;
`LayoutAssumption` is what lowering guarantees of them (`FrameCovers` checks that in
`RegLowering`).

`CallChain` says what calls promise, with no register file: an activation has a
sequence of slots, a call hands the arguments to the callee and keeps what is below
them, a return appends the results to that, a trap ends the chain and reports it.
The mapping cuts the register file at the frame bases. Slots above a caller's
results are any values after a return, as the callee left them.

## 3. The runs

| run | question | size | distinct states |
|---|---|---|---|
| LazyOperands | are operands, counts, origins, slots and registers right in straight-line code, and does it implement WebAssembly's stack? | 2 locals, 2 values, limits of 1-4 | 188 thousand |
| Loops | does a loop see fresh locals and stable operands, and does every terminating body terminate? | bodies over the loop alphabet | 494 thousand |
| IfsAndCalls | do both arms leave the same layout and values; does a callee's frame begin at its arguments and above what is kept? | 2 results; if alphabet and call alphabet | 1.26 million |
| Branches | are operands carried out of blocks and through br_table arms, and does lowering resume after dead code where it should? | three alphabets | 958 thousand |
| Limits | is a body at a limit refused, or given a frame that holds it? | 3 registers, 1 spill, 1 constant, frame of 4 | 790 thousand |
| StackMachine | does the stack code of the same kinds of bodies mean what they mean, on a stack that holds others' operands? | 2 locals, eight alphabets, 6 to 9 operators | 365 thousand |
| Drivers | does every activation own its slots on the shared file, and do both loops count and report alike? | 2 functions, 2 values, depth 3 | 187 thousand |
| Numerics | does every numeric instruction give WebAssembly's result on both machines? | widths 2, 4, 8, 16 bits, operands at every limit | 519 thousand |
| Memories | do memory instructions agree with WebAssembly in sequence, and do traps change nothing? | pages of 8 bytes, 2 pages at most | 156 thousand |
| Instantiation | is an instance complete and right, and is every refusal justified? | two families of small modules, several registries and limits | 1.71 million |
| IrBuilder | does llvm-as take what the builder accepts, but for four known exceptions, with literals intact, and do refusals leave the module alone? | 9 plans of up to 9 calls | 27 thousand |
| IrNumbering | do unnamed registers ascend in the text? They do not | one plan of 7 calls | violation |

Properties:

* `ComputesMeaning`: results, locals, global and traps are those of the body's
  meaning. It is the main property; every hoisted rescue, operand run, index and
  layout reset can break it.
* `Terminates`: a started run ends. Runs start only on inputs whose meaning halts
  within `Fuel` (40 operators; no body in the bounds that halts needs more), so a
  wrong back-edge is a livelock.
* `StackConsistent`, `HeightsAgree`: the invariants of `SimulatedStack` through
  every construct; the simulated height against the validator's, which is what
  End's `debug_assert` states in one instance.
* `JumpsLand`: every jump of a lowered body goes to its own place. A branch and every
  arm of a table go to the Loop or the End of the label that their depth names
  (`OpenerAt`, `LandingOf`, read off the body alone), a return to the function's End, an
  `if` to its own End (`MatchingEnd`) and to its own Else exactly when the body gives it
  one (`FalseArm`), an `else` to the End of its `if`. Arms of one table that were
  swapped, or a break patched by another label's End, break it.
* `FrameCovers`: every operand, destination, spill and staged argument lies inside the
  frame.
* `ImplementsCallChain`: both loops implement `CallChain`. Stale locals, results
  copied from or to the wrong place, a frame over its caller's operands, a lost or
  extra record in a trace, and anything a trap leaves for the next call to see
  would break it.
* `FileCovers`, `DepthCounted`, and `TypeOK` of `Drivers`: every live frame is inside
  the file to its end; depth is counted exactly and limited alike by both loops; an
  activation executes, lays out and blames one and the same function, and a caller
  resumes inside its body (the loop does not test for its end again).
* `StackComputesMeaning`, `StackTerminates`: the same for the stack machine.
  `BranchesResolve`: every branch and every arm of a table points at its label's end
  or start. `HeightModelHolds`: the operands on the stack never
  exceed the counted maximum, and at every `End` they are the recorded height and the
  block's results. `FrameKept`: operands stay above the locals and inside the storage,
  and what lies below the frame is not touched.
  `StackHeightsAgree`: the height is the validator's in live code.
* `StackNumericsCorrect`, `RegNumericsCorrect`: result, trap, and the operand below
  untouched. `EffectsBooked`: the height a lowering books is the one execution leaves.
* `StackMemoryCorrect`, `RegMemoryCorrect`: memory, segments, result and trap agree
  with WebAssembly after every sequence; `TrapsChangeNothing` is an action property.
* `InstanceCorrect`: a handed-out instance is the one WebAssembly defines and there was
  no reason to refuse; a refusal names a fault that the binary has. One exception is
  stated in it: an active segment that begins in the upper half of the address space is
  refused though it fits, and the error must then be of that very segment.
  `TypedFuncsExact`:
  a handle is for an exported, defined function of exactly the signature asked for,
  with its own body behind it.
* `OperandsKeepTheirReading`: in the line a call appends, each literal is the number
  the caller wrote, read as the operation reads its operands. `EmittedIsWellTyped`:
  llvm-as takes the text, or `LlvmObjections` is one of four things the crate is known
  to let through, each tied to what the client did in that function: numbers that do
  not ascend where a later block was filled first (`LaterBlockFirst`), a gap in them
  where a refused call had drawn one (`NumberRefused`), a label that is also a register
  where a block was given that name (`BlockNamedAsRegister`), and a type without a size
  where a function's address was loaded or indexed through (`FunctionAccessed`). All
  four occur in the run. `RefusalsLeaveTheModule`: an action property, with the one
  exception the code has, a phi whose later branch is refused.
* `RefCounts`, `OriginsExact`, `SpillSlotsPartitioned`, `RegistersContiguous`,
  `SpillsAreStable`, `ImplementsWasm`: see section 4.

Bounds. One local is enough to make a borrow stale and two to make two spills
compete; LazyOperands has two. A body of eight to ten operators holds a nested
pair of blocks with a borrow outside, a write inside, a branch and a use, which is
what each rescue is for; each run's mutants show its bodies are long enough to
tell the bug from the code. Limits of one to three make every limit reachable.
In `Drivers` one function has two results that are moved down over its one argument
and the other has a declared local, a constant and a spill slot, so no two frames
align; a depth of three has a frame that is both caller and callee.
In `StackMachine` a caller leaves no operand or one below the frame, so a height taken
from the wrong end differs. Numeric operands are the integers and floats at and
beside every limit of every width. The memory of `Memories` has pages of 8 bytes,
at most two, and ends well inside the eight-bit address space, so sums that pass the
memory and sums that pass the address space both occur; any two of grow, drop and fill
come first, then any instruction. `Instantiation` has up to two of each kind of item where
order or shift matters, and one table and one memory larger than half the address
space, with a segment that begins past the half and fits. The literals of `IrBuilder` are the ends, -1, 0 of four widths
(2 to 5 bits) with i1 and doubles that a float does and does not hold.
`CHECK_DEADLOCK FALSE` is set everywhere because a failed lowering, a finished
run, a ready instance and an emitted module stop.

Fairness. `WF_vars(Execute)` in `RegExecution` and `StackExecution` is the driver's loop: once entered it
executes one instruction after another until the body ends or traps, and nothing
else runs meanwhile. Lowering and starting are not fair: a body may never be
finished or called.

## 4. The proofs

`LazyOperandsProofs` proves, for every number of locals, every set of values and
every limit (the assumptions are `LimitsAssumption` and `BoundsAssumption`: the
limits are naturals, the locals fit the register limit, the stale value is a
value):

| theorem | states |
|---|---|
| `Invariance` | `Spec => []IInv` |
| `TypeCorrect` | `[]TypeOK` |
| `RefCountsExact` | `[]RefCounts` |
| `OriginsAreExact` | `[]OriginsExact` |
| `SpillSlotsArePartitioned` | `[]SpillSlotsPartitioned` |
| `RegistersAreContiguous` | `[]RegistersContiguous` |
| `SpillsStable` | `SpillsAreStable` |
| `Refinement` | `Spec => ImplementsWasm` |

`IInv` is `TypeOK` with `StackInv(sim)`, the conjunction of the four predicates. They
are inductive only together. That a pop of the last reference frees a slot nobody
else holds needs the count to be exact; that the count is exact after a shared push
needs the origin to name a live entry; that a rescue redirects only the borrows of
the written local needs the origin table to be exact; that a freed slot is not
already free needs the partition. So the argument runs operator by operator:
`SimulatedStackProofs` shows that each operator of the stack preserves `StackInv`
and which locations it leaves alone (the "Frame" lemmas), and
`LazyOperandsProofs` combines them, one lemma per action.

For the refinement the key fact is that a step that writes a register, a spill
slot or a local writes no location that an operand still on the stack reads from:
a new register is above all registers on the stack (`RegistersOK`), a reserved
slot is held by no live borrow (`SpillsOK`), and after `set_lazy` no operand reads
the local (`OriginsOK`).

`DriversProofs` proves, for every set of functions, every storage plan, every host
function and every depth limit allowed by `LayoutAssumption` and `CallAssumption`:

| theorem | states |
|---|---|
| `DriversInvariance` | `Spec => []DInv` |
| `DriversTypeCorrect` | `[]TypeOK` |
| `FilesCoverFrames` | `[]FileCovers` |
| `DepthIsCounted` | `[]DepthCounted` |
| `FramesAreNested` | `Spec => []RInv` |
| `LoopsImplementCalls` | `Spec => ImplementsCallChain` |

`DInv` adds to `TypeOK`, while a loop runs, that the file covers every live frame, that
the depth is counted, and `Linked`: each suspended frame's `callee_func_index` is the
function of the activation above it, its `callee_results_count` that function's, and
the outermost activation is the entry's. Without `Linked` a return could copy more
results than the callee's frame holds, and `Finish` could use a layout other than the
entry's. The lemmas about the register file (`EnterFrameShape`, `ExitFrameShape`,
`ImportShape`) say that each method keeps a sequence of values and never shortens it,
so a frame once covered stays covered; the rest is one lemma per action.

The refinement needs more of the state, `RInv`: `Based`, each frame begins inside the
one below it with room for arguments and results, so bases never decrease;
`SitesKept`, a frame remembers which kind of call it waits for; and what an unwinding
loop holds is a trace so far. Since the bases never decrease, a write through one
frame's base changes no slot that `CallChain` keeps for a frame below it, which is what
each action's step lemma comes down to. The loops differ only in when they report, and
both are shown: the abstract chain reports a trap when the loop does, and what the
native loop has collected and has still to collect is together that report.

`BodyReaderProofs` holds what both lowerings need of a validated body, for every
alphabet of well-formed operators (`AlphabetsAssumption`, `ResultsAssumption`): the
validator's labels have the shape and the order of heights its rules rely on
(`ReaderInv`); how labels nest, over the depth of the labels at each operator:
`OpenAt` says that the label an operator opened is still open, `ClosedAt` where it
closes; at most one label of a level is open at any place, and the one that closes is
the one `MatchingEnd` and `FalseArm` find; and what each operator does to the kinds
of the labels, which is what tells an `if` that may still have an `else`; that
`OpenerAt` and `LandingOf` find, in a finished body, the opener and the End those
predicates speak of; and what a run may rely on (`Position`): a place live code reaches, with the height the validator
has there, found from the height of a label by way of where it opens and closes. `DepthAt` is a recursive function, and
what is needed of it follows by induction on a bounded set of numbers
(`CountingTo`, from the well-foundedness of the naturals), which needs no theorem
with an operator parameter.

`RegLoweringProofs` proves, for every body, alphabet and limit:

| theorem | states |
|---|---|
| `LoweringFollowsValidator` | `Spec => []LoweringInv` |
| `StacksStayConsistent` | `[]StackConsistent` |
| `HeightsMatchValidator` | `[]HeightsAgree` |

`LoweringInv` says that until the lowering fails the simulated stack satisfies
`StackInv`, and that the control stack follows the validator's labels: block by block
the same params, results and height, and in live code the same height of the operand
stack. Each is needed for the other. A pop is sound only if there is an operand above
the block's height, which the validator guarantees where the heights agree; and the
heights agree after an `End` only if the reset of the layout truncates a stack that was
sound. Dead code is the delicate part: the lowering emits nothing there and only
remembers the blocks it skips, so the validator's labels above the block that died are
matched with those, and the height is already the one the block will leave. The lemmas
about one stack operator are those of `SimulatedStackProofs`, reused;
`spill_live_locals`, `push_n` and the layout reset, which iterate, are proved over the
number of their rounds.

`RegJumpsProofs` proves, under the same assumptions:

| theorem | states |
|---|---|
| `JumpsAreTracked` | `Spec => []JumpsInv` |
| `JumpsGoWhereTheyShould` | `[]JumpsLand` |

`JumpsLand` speaks of a finished body only; `JumpsInv` is what holds on the way, over the
operators read so far. It knows each open label by the operator that opened it
(`LabelKnows`: where its Loop or its If is, and its Else once it has one), and says of
each jump emitted so far where it is bound for. `Lands`: a branch, or an arm of a table,
leaves for the label of one level, and either that label is a loop and the jump has
the index of that Loop, or it is still open and the jump waits in its `attached_breaks`
and in those of no other label, or it has closed and the jump has the index of that very
End. `IfLands` and `ElseLands` say the same of an `If`, which waits through its label's
`index`, and of an `Else`, which waits through its `else_index`. That a jump waits in no other
label is what makes it inductive: `patched` gives whatever waits in the closing label the
index of its End, so a jump that waited in two would be sent to the wrong one first.
`IfsMatch` relates the labels to the validator's: where an `else` may still come, the
label is an `if` and has none yet, so the `else` it records displaces no other.

Indices are not positions here: dead operators emit nothing, others emit moves and
spills besides, so `Became` ties an index to an operator through
`instruction_offsets`, and `Calm` shows that what the helpers emit is no jump. A
dead operator is read by the validator and not by the lowering; it closes none of the
labels the lowering has open (`SkippedTracked`), so they stay those of the same
openers. At the end no label is open, so every jump is of the first or the third kind,
`OpenerIs`, `LandingIs`, `MatchingEndIs` and `FalseArmIs` identify the place with the one
`JumpsLand` names, and `Resolve` moves registers and tables' receivers and leaves every
target alone (`ResolvedSameJump`).

`StackLoweringProofs` proves, under the same assumptions:

| theorem | states |
|---|---|
| `HeightsAreTracked` | `Spec => []HeightInv` |
| `StackHeightsMatchValidator` | `[]StackHeightsAgree` |
| `BranchesAreTracked` | `Spec => []BranchInv` |
| `BranchesAreResolved` | `[]BranchesResolve` |

`HeightInv` relates two flags of a block to the validator's labels. A block is dead by a
transfer inside it, which its `else` takes back, or by birth in dead code, which
nothing takes back; `Fits` says that the first is the validator's flag of the same
label and the second holds exactly when a block around it is dead. Where neither holds,
`curr_height` and the recorded heights are the validator's.

`BranchInv` adds `Targets`, over the operators read so far. Each open block is the label
that a known operator opened, with its `else` when it has one (`Stands`). Each jump
emitted so far (`Lands`) leaves for one label, and either that label is a loop and the
jump knows it already, or its block is still open and the jump waits in the
`attached_breaks` of that block and no other, or its block has closed and the jump
holds the index of that `End`. "No other" is what makes it inductive: an `End` patches
whatever waits in its block, so a jump or an arm waiting in two would be overwritten by the
second. It needs in turn that the slots of two tables differ (`Bounded`: what waits is
older than the next index and slot). When the body ends nothing is open, so every jump
is of the first or the third kind, and `LandingOf` and `MatchingEnd` are its target.

`StackRunProofs` proves, with two assumptions about the runs (`FrameAssumption`: the
params are among the locals, and the values that come from outside are naturals;
`ImmediatesAssumption`: a body names only locals the function has):

| theorem | states |
|---|---|
| `RunsStayInFrame` | `Spec => []RunInv` |
| `FramesAreKept` | `[]FrameKept` |
| `HeightModelIsTrue` | `[]HeightModelHolds` |
| `StackTypeCorrect` | `[]StackTypeOK` |

The stack machine checks nothing: it reads locals by their offset, pops without a
test and unwinds to recorded heights, so what keeps a frame is that the lowering got
every height and target right. The argument has two halves. `SizeInv` is what the
emitted code knows, an invariant of the lowering: to `BranchInv` it adds `Sized`, that
a branch carries the arity of its label to the height of its label, that an `End`
records the height its block leaves, and that `max_height` bounds the validator's height
at every operator that can run. `RunInv` is what a run then does: `Position` says
that pc stands where the validator saw live code, with as many operands as it counted,
and `FrameOK` that they lie above the locals, and the locals above the caller's operands,
which are as they were. Each instruction leads from one such position to another: a
plain one and a call by their effect, a branch because the label's height and arity are
those where it lands, a false `if` without an `else` because the params of its block
are its results, an `else` because both arms end at one height. `Position` is stated
of the operator to come, and before an `End` it is the height behind that End: a
branch may reach an `End` that the code before it, dead, could not fall into. A local
callee may leave anything in the storage above its base (`Stale`), and `FrameCalls`
shows that its results alone come down. TLC checked both invariants on bodies over the
alphabets of `StackMachine` before they were proved. Dead code needs no statement: no run stands in it.

Model-checked only, and why.

* Out of the prover's reach: `Terminates` and `StackTerminates` (liveness under fairness,
  ENABLED); `ComputesMeaning` and `StackComputesMeaning` (`Meaning` is an induction over the
  steps of an evaluator, for all bodies).
* Built on what the prover's backends do not interpret: `FrameCovers`, `InstanceCorrect`,
  `TypedFuncsExact` (selections and folds with a function argument), the byte values of
  `Memories` and `Numerics` (powers, sums over sets).
* Not yet proved: see section 7.

## 5. Where code and documentation differ

One disagreement has a run. `IrNumbering`: unnamed registers are numbered in the order
of the calls and written in the order of the blocks, so a client that fills a later
block first gets text that llvm-as refuses, though `cfg/context.rs` says the numbering
matches LLVM and `cfg/emit.rs` that llvm-as accepts the output.

Others were met while translating, and are recorded here without a run (the models do
what the code does):

* Where `tracewasm-llvm` is looser than LLVM "that is a bug", says `lib.rs:52`. Four such
  places are the exceptions of `EmittedIsWellTyped`. Numbers out of order have the run
  above. A call that draws a number and is then refused leaves a gap in them, which
  llvm-as took as an error before LLVM 19. Block labels and registers share LLVM's
  namespace, and the crate draws their names apart, so a block and a register may both
  be `x`. `build_load` and `build_get_element_ptr` check an asserted type for having a
  size and not an inferred one, so a load through a function's address loads the
  function type. A fifth is left to the client in the model as in the crate: nothing
  refuses a branch to the entry block.
* `ConstValue`'s readings (`value.rs:401`) are documented so that a type the caller
  asserts reads a literal as signed. `build_ibinop` and `build_icmp` read it as the
  operation does, asserted or not: `udiv` asserted to be i32 widens -1i8 to 255.
* An i1 constant asserted to be i1 is refused: `ConstValue::try_cast` sends it to the
  i8 rules, which have no i1 case.
* `build_ibinop` documents operations without a reading as refusing to widen; they
  widen by the signed reading. `OperandTy` documents that a `float` may be asserted of
  0.1; a double that is not exactly a float is refused.
* `try_integer` cuts an i64 to 32 bits, so an array index of 2^32 passes as 0.
* A name drawn for a call that is then refused is used up; a refused
  `define_function` leaves a function in the arena that nothing mentions.
* `Module::instantiate` documents that imports are checked before anything is
  allocated; imported globals are checked after the memory.
* It documents (`module/mod.rs:1707`) `ImportNotFound` for a registry that lacks a
  declared import. For a global it is another error: `import_registry.get_global(..)?`
  (`module/mod.rs:1857`) turns the registry's own into
  `CallToImportedItemReturnedError` (`error.rs:166`), which is what `InitGlobal` has.
* Offsets of active segments go through `as_i32() as usize` (`module/mod.rs:1972`), so
  one in the upper half of the address space never fits, however large the table or the
  memory; WebAssembly reads it as unsigned. The run Instantiation reaches this.

## 6. What is not modelled

Rendering and error texts, macros, tests, benchmarks, wasmparser's decoding and
validation. Custom, name and DWARF sections and tags;
accessors of exported globals and the traits that adapt host functions. Numeric and
memory instructions inside structured bodies (each is checked on its own). In the IR
builder: linkage, visibility, inbounds, triple and data layout; dominance, which
neither the crate nor `LlvmRules` checks; calls through pointers, which are `todo!()`.

## 7. Plan

1. `SimulatedStack`, `LazyOperands` (done, with their invariants and the refinement proved).
2. `FrameLayouts`, `CallChain`, `Drivers` (done, with their invariants and the refinement
   proved).
3. `RegLowering`, `RegExecution` (done; consistency, heights and jumps proved, each to
   its own label). Left: `TypeOK`, and that the runs of a lowered body stay in its frame.
4. `StackLowering`, `StackExecution` (done; heights, branches, and the frames and heights
   of every run proved).
5. Numerics, memory, instantiation, the IR builder (done, checked). Left: theorems about
   `LinearMemory` and `Memories` (an access that fails changes nothing, for every page
   size and width) and about `IrContext` (names handed out in a function are distinct,
   and a block that ended takes nothing more).
