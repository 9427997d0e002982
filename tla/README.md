# Verification of autoGenILA

autoGenILA turns a Verilog netlist (the output of Yosys) into an
instruction-level model in two steps (`README.md:4-5`): find the architectural
state variables by instrumenting the design with taint logic
(`src/live_analysis`, `src/write_taint`), then generate, for every state
variable and instruction, an LLVM function that computes its next value
(`src/func_extract`). This directory holds TLA+ modules of both steps, the
TLC configurations that check them and TLAPS proofs about them. Paths below are
relative to `src/src/func_extract/src` of the source tree unless they start with
another directory.

## 1. Inventory

| Part | State it keeps | Operations | Correct when |
|---|---|---|---|
| Search for targets, `get_all_update.cpp:38-245` | `g_workSet`, `g_visitedTgt`, the vectors still to do; in the threaded schedule also the copies of a round | take a target, call or spawn a worker per instruction and delay, join, mark visited, print | it works on the closure of the first targets under "is an argument of", and ends |
| Worker, `get_update_function`, `get_all_update.cpp:248-471` | its locals; the shared `g_dependVarMap`, `g_asvSet`, `g_fileNameVec`, `g_currInstrInfo`; artefacts on disk | create entry, copy the instruction, generate, run `opt` twice, read back, publish, record, push new targets | what is on record for a target is one of its own functions' arguments, and no argument is forgotten |
| Targets and delays, `get_all_update.cpp:50-100,474-510`, `ast.cpp:90-143` | `g_allowedTgt`, `g_allowedTgtVec`, `delayExceptions`, `g_skippedOutput` | first work set, delay bound of a call | each call has the delay the files give it |
| Unrolling, `check_regs.cpp:1050-1303`, `op_constraint.cpp` | per worker: `existedExpr`, `out2FuncMp`, `minInOutDelay`, the context stack; the LLVM module under construction | `add_constraint` and its handlers for inputs, registers, operators and sub-modules | the function is the RTL's, over the same arguments and input words; it ends |
| Contexts, `ins_context_stack.cpp` | a stack of (instance, module, target, function) | push, pop, hierarchical name | the path names the instance being elaborated |
| Trees and targets, `ast.cpp` | one node per module and name; `g_allowedTgt`, `g_allowedTgtVec` | depth-first build from each target; `allowed_target.txt` line by line | each name has one node, with the right sources; targets, vectors and delays are as written |
| Cleaning, `src/live_analysis`: `taint_gen.cpp` (`clean_file`, `remove_functions`), `helper.cpp`, `varWidth.cpp` | `NEW_FANGYUAN`, `varWidth`, the `always` line held back | one line of Verilog at a time becomes none, one or several | the text means what it meant |
| Verilog reader, `parse_fill.cpp`, `expr.cpp` | `g_moduleInfoMap`, `g_currentModuleName`, `g_new_var` | one statement at a time fills the tables | the tables mean what the text means |
| Program, `app/func_extract.cpp` | `design.v`, `.nocomment`, `.clean` on disk | clean when stale, read, search | a run never works on a design that is no longer there |
| Reader of `instr.txt`, `read_instr.cpp` | `g_instrInfo`, `g_nopInstr`, `g_rstVal` and a mode | one line at a time | each instruction has its own words, delays, addresses and targets |
| Simulation flow, `app/rand_test_gen.cpp`, `app/sim_gen.cpp`, `app/tb_gen.cpp`, `app/compare_ila_rtl.cpp`, `util.cpp` | files: `tb.txt`, `ila.cpp`, `tb_vlg.v`, the two outputs; in `ila.cpp` the C variables `r` and `r_nxt` | draw tests, print program and bench, run both, compare | the program runs the instructions as promised, and the comparison reports the differences there are |
| Taint rules, `op_taint_gen.cpp` of `src/live_analysis` and `src/write_taint` | in the simulated design: `_t`, `_r`, `_sig` companions of every signal, two flags per register | one rule per operator and register | untainted means unchanged, irrelevant means unused, a signature names the register whose word a wire carries, a register gets one verdict |
| Taint generation, `taint_gen.cpp`, `app/main.cpp` of `src/live_analysis` | `nextVersion`, `nxtVerBits`, `g_next_sig`, `moduleInputsMap`, the list of modules done | walk the hierarchy, take the lines of a module one by one, merge at its end | each relevance bit has one driver, children come first, signatures are unique |

How they interact: the program reads everything into tables that are then only
read (`global_data_struct.h:105-111`), builds trees for the targets, and calls
`get_all_update`. Workers talk to the search and to each other through five
locked tables, one global without a lock (`g_currInstrInfo`) and files named
after instruction, destination and delay. Each worker has an
`UpdateFunctionGen` of its own, except for the few flags that live in the shared
module table.

The simulation flow starts from what the search leaves (`func_info.txt`,
`asv_info.txt`, the linked LLVM functions) and `instr.txt`; its tools meet only
in the files they write, one after the other (`src/src/misc/make_simulations.txt`).

The taint tools read the same netlist line by line and print a second one,
which a simulator runs next to the first; `live_analysis` reports the registers
whose flags say "read", `write_taint` those that one instruction writes.

What is hard here: threads that share tables under different locks; a global
written by every thread; a search whose work set is extended by those who work
on it; artefacts kept over kills and reruns and over ignored failures of
`opt`; several delays of one register that compete for one record; memoised
expressions and functions shared by instances, callers and levels; cutting off
time at both ends; trees built once per module name though reached through
several instances; rules for taint and relevance that must agree with what the
operator does for every value and literal; bookkeeping of bits shared by lines
in any order; files kept between runs while the design is edited and programs are
killed; a text rewritten three times before it is read; a program whose
statements must read only values from before the instruction; two outputs
compared by position. The list with lines is `hazards` in `PROJECT.json`.

## 2. Modules

| Module | Stands for |
|---|---|
| `DepClosure` | abstract specification: whatever the schedule, the registers worked on are those reachable from the first targets |
| `UpdateCall` | one call of `get_update_function` and the tables all calls share, EXTENDed by both schedules |
| `TargetConfig` | where targets and delay bounds come from; the operators the properties are stated with |
| `ParSchedule` | `get_all_update` with `g_use_multi_thread`: rounds of threads |
| `SeqSchedule` | `get_all_update` without it: one target after the other |
| `LlvmOps` | the LLVM instructions `op_constraint.cpp` builds for each operator, with their widths |
| `Unroll` | `UpdateFunctionGen`: the recursion over time and hierarchy that makes one update function, EXTENDS `LlvmOps` |
| `UnrollRtl` | what `Unroll`'s values mean by LLVM's rules, what the RTL computes by Verilog's, and that they agree |
| `Ast` | `build_ast_tree`: the trees `Unroll` takes as given, and the reader of `allowed_target.txt` |
| `Words` | Verilog bit vectors, for `LlvmOps` and the taint modules |
| `TaintRules` | the `_t`, `_r` and `_sig` rules of both taint tools, one operator each |
| `TaintSim` | a small design simulated with the signals both tools add |
| `FlagMonitor` | abstract specification: a register gets one verdict between two resets |
| `TaintGen` | `live_analysis` going over the modules and lines of a design |
| `Netlist` | what a netlist means, bit by bit: the reference for `FrontEnd` (external) |
| `FrontEnd` | from `design.v` over `.nocomment` and `.clean` to the tables, with edits, kills and reruns |
| `Encodings` | words of encodings and tests: fields, drawing the open ones, decoding |
| `InstrFile` | `read_in_instructions`, and what `instr.txt` says |
| `Ila` | abstract specification: instruction after instruction, all functions see the registers as they were before |
| `IlaProgram` | the program `sim_gen` prints: its readers, declarations and statements |
| `IlaFlow` | the flow from `instr.txt` to the verdict of `cmp`, EXTENDS `InstrFile` and `IlaProgram` |
| `TargetConfig_proofs` | facts both schedules' proofs use |
| `ParSchedule_proofs`, `SeqSchedule_proofs`, `Unroll_proofs`, `Ast_proofs`, `TaintSim_proofs`, `TaintGen_proofs`, `FrontEnd_proofs` | theorems |
| `MCParRounds`, `MCParRerun`, `MCSeq`, `MCUnroll`, `MCAst`, `MCTaintSim`, `MCTaintGen`, `MCFrontEnd`, `MCIlaFlow` | instances for TLC |

### The worker and the schedules

Every call is a process with a program counter `pc[c]`, named after what it does
next: `create` (entry of `g_dependVarMap`, :342-349), `assign`/`assigning`
(`g_currInstrInfo = instrInfo`, :350), `generate` (:363-376), `emit` (the two
`opt` commands, :378-408), `read` (`read_clean_optimized` and the `mv`,
:802-874), `name` (`g_fileNameVec`), `record` (:419-433), then one turn of
`push`, `insert`, `register` per argument (:435-468), `done`. Each step is what
happens under one lock, or between two; so the steps of calls interleave exactly
where the code lets them. The assignment of `g_currInstrInfo` is two steps,
because it is a copy of a structure of maps without a lock: in between the
global is `Torn`, after two overlapping copies it may stay `Smashed`, and who
reads it then may generate a function with any of the argument sets in
`TornArgs`.

What an update function depends on is a constant, `UpdateFn`: the schedules do
not look inside it. `kept` says whether a function of the searched name
survives optimisation; if not, `read_clean_optimized` takes `top_function`
(:820-825). `files` holds the artefacts of `opt`, `published` those that
`link.sh` links. `faulty` is a history variable: the jobs whose artefact was not
the one this run's own encoding gives.

`Crash` is a kill followed by a rerun over the same directory: memory starts
anew, artefacts stay, one that `opt` was writing may be cut short.

`ParSchedule` is `get_all_update.cpp:168-237`: `BeginRound` takes the work set,
`SpawnTarget`, `SpawnVec` and `SkipTarget` empty the local copies in any order
of the set, `NextInstr` and `EndRound` wait for all threads. `SeqSchedule` is
:106-167.

### Unrolling

`Unroll` runs `add_constraint` as an explicit stack. A frame is one call; its
`step` is `enter`, `body` (waiting for a sub-module's function to be elaborated)
or `collect` (waiting for operands). Level 0 is the end of the instruction and
level `bound` its beginning; a register asks for its source one level later
(`check_regs.cpp:1235`) until `bound`, where it becomes an argument of the
function. The operands a node asks for are had one by one, in the code's order
(`asks`, `got`). A value is a tree of LLVM instructions with their widths, as
`make_llvm_instr`, `zext`, `sext`, `extract_func` and `concat_func` build it.
`memo` is `existedExpr`, `funcs` is `out2FuncMp`, `minDelay` is `minInOutDelay`,
`arrays` is `memDynInfo`: of an array, the last level it is written at and the
stores emitted so far, as `dyn_sel_constraint` finds them (`FindWrites`,
`LoadArray`) and `mem_assign_constraint` makes them (`Store`). A black box is a call
of a function that is only declared, over inputs some levels back.

A run of the model is one call of `print_llvm_ir` for a member of `Jobs`: a module and
the targets in it, one, or several of the top module for a vector. The modules
of a target below top are elaborated in the one function (`FnOf`, `Prefix`), found
through their first parent and first instance (`Parent`, `FirstWire`). `Abort` is
the assertion at `op_constraint.cpp:1571`, which fails whenever an output of such a
module is met on the way.

What `Unroll` is given is assumed by name. `DesignAssumption`: every name read is in its
module's table, of a width above 0, and each node has as many operands as its handler in
`op_constraint.cpp` reads by position. `HierarchyAssumption`: no module is in itself, the
inputs of every instance are connected, a module below top has the first parent and instance the code asks for.
`JobAssumption`: the modules above a target are not functioned (`print_llvm_ir` clears
the flag itself, `check_regs.cpp:213`), and the targets of a vector are of the top module and one width.
`EncodingAssumption`: each input of the top module has a word for each cycle of the instruction, and
a `DIRTY` one has a number in the NOP instruction (see the hazard at `op_constraint.cpp:309`).

`Meaning` evaluates such a tree for given arguments: LLVM's instructions, with
calls of the functions in `funcs`, poison (a shift by the width or more, a
remainder by 0) and loads from outside a table being `Undefined`. `Rtl` is
the reference: a function defined forward by cycles on the flattened design,
with Verilog's widths and signs, no levels, no memo and no sub-functions.
Of an array's contents at the
beginning and of black boxes both take the same arbitrary function (`Held`,
`BlackBox`), so the zeroes that the code's global array starts with are not
compared with the RTL's. `MemoIsRTL` compares the two for every value as it enters the memo, under
`Samples` valuations of the function's arguments, each of which gives other
words to other names and levels.

### Trees

`Ast` is the recursion of `add_node` (`ast.cpp:148-1336`) as an explicit stack.
A target is taken (`TakeRoot`, with its path of instances pushed by
`set_stk_build_tree`), its node entered (`StartRoot`), and each call then adds
its children (`AddChild`; an operand that has a node is linked, one that has not
is a call of its own), goes out of a module through an input (`EnterPort`), leaves
out the clock of an instance (`SkipClock`) and returns (`Return`). `ctx` is
`g_insContextStk`, `visited` the table per module, `outport` is
`out2RootNodeMp`, `flat` are the modules whose `isFunctionedSubMod` is cleared.
`pass` follows the body of `build_ast_tree`: the targets of the instructions, then
`allowed_target.txt` line by line (`SkipNote`, `ReadTarget`, `OpenVec`, `AddMember`,
`CloseVec`), then the targets it gave (`EndOfFile`). Between brackets the code skips
a comment or an empty line with `continue` and reads none after it, nor does it look
for the end of the file (`ast.cpp:117`): `Stuck` is that endless loop.

What the design must be like is assumed by name. `DesignAssumption`: every name read is
found in its module (`add_node` aborts otherwise, `ast.cpp:331`), every input of an
instance is wired, and all values of a case but the last are cut from one variable, as
`add_case_node` looks at the first only. `TargetAssumption`: a target's path leads to the
module that assigns it. `FilesAssumption`: brackets are not nested. `ClockAssumption`: a
clock goes into an instance as its clock and nothing else does. `NodesFaithful` says of each
node that its children are what its handler will read; `NothingMissing` that, from the
targets, everything `add_constraint` comes to has a node, and that instances have the
wires of their ports.

### Taint rules

`TaintRules` has one operator for each rule of `op_taint_gen.cpp`: what is
assigned to `_t`, `_r` and `_sig`, as a function of the values, taints and
signatures of the operands. The same with a `W` in front is `write_taint`'s where
it differs. `TaintSim` holds a design as a sequence of nodes, computes all
wires from inputs and registers, and steps: `Drive` and `TaintInput` change an
input, `AskOutput` the relevance of an output, `Clock` is an edge with or without
reset, at which registers take their word, their taint and their flags
(`nonblock_taint_gen`). Relevance runs backwards: the relevance of a variable is
the disjunction over its readings, which is what `merge_taints` prints. The wires settle
node by node: `Settled` builds a signal of all nodes from the first to the last, each from those
before it, `RelevanceOf` from the last to the first. `NetAssumption` says what a design is:
each node reads nodes before it (a register any), inside their words, and has the operands and the width its
statement needs (`StatementOK`).

### Taint generation

`TaintGen` is the order in which those rules are printed. `Enter`, `Begin` and
`Finish` are `add_taint_bottom_up` and the start and end of `add_taint`;
`DeclareReg`, `DeclareOutput`, `ReadOperand` and `InstanceLine` are lines of a
module, in any order and number up to `MaxReads`. `ReadOperand` is one
call of `find_version_num`: it decides whether a slice may share the current
relevance word, and closes a word by driving the bits nobody read. `driven` and
`twice` are history variables: the bits assigned once and more than once.

### Front end

A run of `func_extract` goes through its passes, one line a step: `pc` is
`clean` (`clean_file`: comments and reset edges dropped, concatenations given
wires of their own, long literals split), `io` (`get_io`), `remove` (functions
become cases, braces at ports become wires), `parse` (`parse_verilog`, one action per
form of statement) and `parsed`, or `aborted` where the code gives up. A line is a
record with its kind and operands. `disk` is what outlives a run: the two files,
whether `design.v.clean` is missing, older or newer than `design.v` (`cleanIs`), and,
as history, the edition it was made of (`madeOf`), whether it was written to its
end (`whole`) and whether `design.v` was edited after it had been read (`late`).
`Start` chooses cleaning, reuse or what the user forces (:112-118), `Kill` ends a run and
leaves the lines written so far, `Edit` puts another edition in place.

`Netlist` is the reference: of a text by the language's rules, and of the tables by
what later passes read from them, `Meaning` is the expression over inputs and
registers that drives each bit of each output, register, array write and
instance input.

### Simulation flow

`IlaFlow` has the tools as phases: `read` (`instr.txt`, with the line machine of
`InstrFile`), `draw` (`test_gen`: `MakeInstr` draws an instruction, `AssignInstrValue` a
word, into `tb.txt`), `gen` (`sim_gen`: `ReadSimFiles`, a `DecodeTest` per
block of `tb.txt`, `PrintInstrCalls`, `Compile`), `run` (one action for each kind of
statement of `ila.cpp`), `bench` (`WriteBench`, then the RTL under the statements of
`tb_vlg.v`) and `cmp` (`ReadRtlValues`, `ReadIlaValue`, `Compare`). A design that fetches
its instructions (`PICO`) runs a memory image instead of the list of tests, on both sides.
A word is a sequence of fields, a number with its width or one left open (`x`, or `Z`,
`Z+n`, `Z-n`, which a group draws together). C variables are `<<name, "cur">>` and
`<<name, "nxt">>`; a statement of the program is a record, so that what is checked is the order
of the statements `sim_gen` prints. A call (`DoCall`) goes through the wrapper that
`create_wrapper_function` puts around the LLVM function: C passes what the prototype says
(`Passed`: more than 64 bits by reference, a wide result through a last one), from the widths of
`func_info.txt` and `asv_info.txt`; the wrapper takes what the LLVM types say (`Loaded`, `Delivered`). Where the
two disagree the word read is `Junk`.

What the program prints goes through two conversions before it is compared. `Printed` is `build_printf`
(`sim_gen.cpp:876-901`): `%d` or `%ld`, which show a word with its top bit set behind a minus
sign, or `{a, b}` for more than 64 bits. `ToInt` is `to_int` of `compare_ila_rtl.cpp:142-150`, a `long int` cut
to a `uint32_t`, or the first character of what is no number, `-` and `{` among them. `OutOfRange`
is the exception `stol` throws when the RTL, which prints without a sign, prints more than a `long int` holds.
Numbers are scaled: `Uint` stands for 2^32, `Long` for 2^63.

The update functions `Fn` and what the RTL does, `RtlFn`, are constants; both may differ, as what
`cmp` is for is to say where. `Ila` has four variables and one step per instruction; the refinement
takes a state of `ila.cpp` between two blocks for the state of the machine (`RegsBar`, `DinBar`, `AtBar`,
`DoneBar`), and inside a block for the state before it until the block is over.

## 3. What the runs show

| Run | Question and instance | Result |
|---|---|---|
| `par_rounds` | Two outputs, a skipped one and a register found on the way; two instructions; new targets found in every round; the race on `g_currInstrInfo` with two possible wrong argument sets. No argument is lost, no foreign instruction is used, what is printed is the closure, the end is reached, `DepClosure` is implemented | holds |
| `par_rerun` | `allowed_target.txt` with two delays for a register and a vector; `opt` may fail; one kill and rerun over kept artefacts. Each function is linked once from the right file, what a call found is on record, artefacts stay | holds |
| `seq` | One thread; two delays, a delay exception, a vector, a skipped output, registers that depend on themselves and each other; one kill and rerun. The first delay in the file is on record, the closure is reached, every function used is linked exactly once, the end is reached | holds |
| `par_race` | "for each update function, what are the arguments" (`get_all_update.cpp:36-37`), under the race on `g_currInstrInfo` | violated |
| `unroll` | Three-level design with a node for each operator, signed and unsigned, slices, a register of two parts, a case, a switch, a memory, an array, a black box, targets in a sub-module and in a vector; up to three cycles, two encodings (one with a `DIRTY` word, one with a word half number and half `x`): every memoised value that fits is the RTL's, zeroed inputs are not used, nothing goes round, it ends | holds |
| `unroll_late` | A register behind a clocked sub-module: "generate state update functions from RTL" (`README.md:5`) | violated |
| `unroll_flat` | A target in a sub-module clears the shared flag of its module: "a general sub-module function" (`op_constraint.cpp:202-206`) | violated |
| `ast` | Targets of the instructions, then those of `allowed_target.txt`, each in any order (one skipped, two below top) on five modules, a black box and a memory; three texts of that file. Each name has one node with the children its handler reads, all that is read has its node, no name is built inside itself, delays and vectors are as written | holds |
| `taint_sim` | A design for each operator and literal kind, and ten with registers, in `live_analysis` and `write_taint` at once: no statement loses taint or relevance, signatures name what they stand for, `write_taint`'s taint covers `live_analysis`'s, `FlagMonitor` is implemented | holds |
| `taint_gen` | Three modules, the smallest used by both others; all orders of lines and readings: no relevance bit has two drivers or none, children first, unique signatures | holds |
| `front_end` | Three editions with every form of statement between them, one of which gives up; two runs in each mode, an edit and a kill anywhere. Tables mean what the edition means they were made of, and that edition is the one the run was started on | holds |
| `ila_flow` | Thirteen sets of files: instructions of one and two cycles on inputs and fetched from memory, data loads, mapped variables, a vector, refinement, skipped and ignored names, and eight the tools give up on; all tests of three instructions. `instr.txt` is read as written, tests decode to what they were drawn for, the program implements `Ila`, `cmp` reports the differences it can see in 32 bits | holds |

The three violations are described under `findings` in `PROJECT.json`. `VisitedIsClosure`
and `VisitedIsRecorded` leave out runs in which `faulty` is not empty: what the
code does after a failed `opt` or in a race is the subject of the violation
runs.

`MemoIsRTL` speaks of values in which every call fits its body (`Fits`). A call
does not fit when the body reads a register, or an input further back than the
caller has levels left, at a level above 0, or reads its reset input, which is
always given 0 (`DoesNotFit`). These are exactly the cases the violation run and
the hazard at `op_constraint.cpp:192` are about; a switch at level `bound`, whose
selector is taken as 0 where the register should be an argument, a black box that
lags behind the beginning, and an array read whose stores are not just those of
the earlier cycles in order (`InOrder`) are left out in the same way. In the `unroll` run the targets `late` (at bounds 1 and 2) and
`lost` end in such a value, most others never make one. What the netlist must
be like for the operators to agree is named too (`Fitting`): the code's own
assertions and comments on widths, and that the operand of `>>>` is signed or
narrower than the result. Where LLVM's instruction is undefined
(`Undefined`) any word is accepted: shifts by the width or more, which are 0 in
Verilog, and the upper half of a switch's table, as its index is signed.

What the taint properties leave out is named in the modules:

- `Misnamed` (in `SigFaithful`): `1'h0` in the true branch of a multiplexer is
  taken for 1, because `stoi` of `1'h0` stops at the quote; a literal taken by a
  case is given the selector's signature; a slice has the signature of the
  whole variable. In each the tool may take a register for held that is not.
- `Nameless` (in `RelevantSound`): of a reduction at its absorbing value (`|0`
  and `&1..1`) no single bit is the reason, and the tool marks none; the
  selector of a case that takes its default is marked only where a pattern asks.
- Soundness is per operand: two tainted operands that change together are
  covered because the rules only grow with taint.
- The case statements are `parallel_case`, as Yosys writes them: selectors have at
  most one bit set.

`Ast` names two more: an output that is read inside its own module before the
module is entered keeps an empty node in `out2RootNodeMp` (`InnerRead`; `ast.cpp:1081`,
read by `op_constraint.cpp:1722`), and below a module without a reset the clock is
not recognised and stays an input (`FirstClk`). `SigUnique` speaks of designs
whose register names differ between modules; `separate_modules` counts names, so
that others may run out of signatures, which then wrap to the reserved ones.

`MeaningKept` and `TablesCurrent` leave out, by name, the runs that work on a file a kill cut short
(`whole`), one that is `late`, and those the user forced: the comparison of dates cannot
tell these (hazard at `func_extract.cpp:118`).

`TestsDecode` asks for the decoding only of instructions no earlier one admits the words of (`Distinct`), as
the first that fits wins. `VerdictRight` leaves out designs with a refinement file, in which a
renamed register is printed twice at the beginning and compared one column off, and
registers of sub-modules, whose names are converted on one side only. For the others it claims what 32 bits
allow: of a register of up to 32 bits every difference and nothing else is reported, of one of up to 64
exactly a difference in the lower 32, and of a wider one, or of a value that the program prints with a minus
sign, nothing is said: any text with a minus sign is read as 4294967293, and every `{a, b}` as 75.

### Bounds

- Threads: one per (target, delay), two at a time in `par_rounds`, three in
  `par_rerun` (two delays of a register, and a vector). A race between the test of `g_visitedTgt` and the insertion into
  `g_workSet` needs two calls and the main thread.
- Two instructions are needed for a record per instruction and for a foreign
  encoding; two rounds for a target that is found by a thread; two delays for
  the competition over one record. Each instance has a dependency that only one
  instruction or only one delay shows.
- `MaxCrashes` = 1: memory after a kill does not depend on earlier kills, and
  artefacts differ only by being there, missing or broken, which one kill
  reaches.
- `Unroll`: `Bounds` = 0, 1, 2. Two levels are needed for a second read of an input at a smaller
  level, three for a register behind a register. The design has every kind of
  node, a sub-module within a sub-module, two instances of one module, a
  combinational module fed back into itself (a false loop), a register with
  a known value, an array written from a read of itself and read a cycle later, and a module with
  targets that calls another. Words of two bits in results of three tell a
  sign extension from a zero extension; with sixteen valuations a wrong
  extension of either operand, a swapped choice, `urem` for `srem` and a wrong
  shift in a concatenation are each found.
- `ast`: a target per kind of node and per way of reaching one; loops through a
  register, a sliced variable, an output back into an input; a module reached by
  three instances on two levels. Of the texts of `allowed_target.txt` one has two delays for a register
  with a vector between them, a vector with and one without a delay, and ends; the other two end in `Stuck`, by a
  note between brackets and by a bracket that is not closed, so that there `AllowedAsWritten` and `NothingMissing` say nothing.
- `taint_sim`: operands of two bits, which tell a whole word from a slice, the
  lowest bit from another and a carry from none; literals 0, 1, and all ones.
  The run enumerates every value, taint and relevance of them. Registers of one
  and two bits; chains of two registers are the shortest in which one may be
  taken for another.
- `taint_gen`: a variable of three bits has slices that meet, touch and leave a
  gap; `MaxReads` = 4 is one reading more than it takes to fill a word, start the
  second and read into it. Five registers and three reserved numbers fill the
  three bits of a signature exactly.

- `front_end`: `MaxRuns` = 2, `MaxEdits` = 1, `MaxKills` = 1: what one run leaves is all the next can
  read, and a file made by an older run or edition is reached with two. The editions have operands of one to four bits,
  which tell all slices and orders of a concatenation apart, and literals of 33 and 36 bits, one more than
  those that are split. 87,669 states; deadlock is checked (a finished program rests).
- `ila_flow`: `TestNum` = 3: a value must be computed, read by the next instruction and
  seen in the one after. Of the numbers that may be drawn for a field the two smallest and the largest are
  (`Rand`). Registers have widths
  of 16, 32, 64, 65 and 70 bits, on both sides of the 64 at which C passes a reference, and take few
  values; `RtlFn` differs from `Fn` for one target everywhere and for
  another at one value, so that `cmp` has both to report, and registers of 32 and 64 bits reach values with the top bit set and values
  that differ in the upper or in the lower half only. `Uint` = 128 and `Long` = 1024: of either only the
  order and the remainder of one by the other count, and 75, what `{` is read as, has to be below `Uint`. 187,355 states; deadlock is checked.

### Fairness

`ParSchedule` assumes weak fairness of the main thread and of every worker: they
are `std::thread`s under a preemptive scheduler and no lock is held across a
wait. `SeqSchedule` and `Unroll` have one thread, hence weak fairness of its
next step. No property of the taint modules, of `Ast`, `FrontEnd` or `IlaFlow` needs fairness; the taint
generator may stop at `MaxReads` or with an error, so deadlock is not checked
there. `Crash` is not fair and is bounded. Deadlock checking is off because
the programs stop; that they stop in the right state is `Terminates`.

## 4. What is proved

The theorems on the schedules are for any number of registers, vectors,
instructions, delays and kills, any update functions, with and without
overwriting, pushing of targets and failing `opt`. They rest on the named
assumptions of `UpdateCall` and `TargetConfig`: at least one instruction, names
that are told apart, functions over the declared sets, vectors that are listed
once and are not registers.

Threads (`ParSchedule_proofs`):

- `ParTypeCorrect`: `Spec => []TypeOK`. `TypeOK` is inductive as it stands because it
  says what a call holds at each point of its way (`LocalsOK`).
- `ParNeverForeignInstr`: `Spec => []NeverForeignInstr`. It is not inductive: it needs that
  threads run only inside a round and for the loop's instruction. The invariant
  is `Barrier`: outside the spawn phase no thread runs and no round set is
  held; a running call is for `instr` and on a target already taken out of the
  local sets, each vector being listed once, so no call is started over
  a running one; and `g_currInstrInfo`, when whole and about to be read, is
  `instr`'s. Two lemmas of `TargetConfig_proofs` say how the steps of a call
  change `Running`.
- `ParNoArgLost`: `Spec => []NoArgLost`. While a call pushes arguments one by one some
  of them are in nobody's table, so the invariant `ArgsAccountedFor` adds who
  holds them: every recorded argument is registered and known, or still in the
  `todo` or `pend` of a call of that target. That a second call for the same
  target records nothing new, and that `EndRound` moves the round's targets to
  `visited` in the step that empties `oldWorkSet`, is what the proof turns on.

- `ParImplementsClosure`: every step of the rounds is a step of `DepClosure` or leaves it
  alone, and `ParVisitedIsClosure`: what is printed is the least closed set. They rest on
  `Rounds` and `Closed`. `Rounds` says what a barrier hides: in a round, for
  every earlier instruction each call of each of its targets is done with (`Sat`), and for the
  instruction in hand each is waiting, running or done with. Hence `EndRound`, which marks all
  of them visited at once, finds all they depend on known. `Closed` then keeps the known targets
  between the first ones and every closed set.
- `ParVisitedIsRecorded`, from `RecordsOK`: a target on record for an instruction has had all
  its calls, or the rest of them run now, and has a record of its own unless one went wrong.
- `ParLinkedExactlyOnce` and `ParArtefactsKept`, from `LinksOK` and `EmitFresh`: a job's file
  is not in the list while the job is still to be called or before its call has pushed the name,
  and an artefact is emitted only where none was. Both assume `DistinctFiles`: no two targets have one
  artefact name. The code does not see to that, since `get_dest_name` leaves the path of instances
  out of the name (hazard at `check_regs.cpp:166`); for designs that break it both properties are false.

One thread (`SeqSchedule_proofs`):

- `SeqTypeCorrect`; `SeqOwnInstrOnly`, from `Inline`: at most one call runs, it is on the
  target and instruction in hand, `g_currInstrInfo` is whole except while it is
  assigned; `SeqNoArgLost`, from `ArgsAccountedFor` as above.
- `SeqVisitedIsClosure`. The invariant `Closed` squeezes what is known between the
  first targets and every set closed under "is an argument of": what a finished
  register depends on is known, and each vector is waiting, in hand or
  covered. It needs `Progress`: of the target in hand, every call of the plan
  is done with all it depends on known, still to do, or under way.
- `SeqImplementsClosure`: every step of the schedule is a step of `DepClosure` or
  leaves it alone. The step that matters is the one that marks the target
  visited, for which `Progress` says that all it depends on is known.
- `SeqFirstDelayRecorded`: of several delays the record holds the arguments of the first. The
  invariant adds `Begun`: of the target in hand, no delay of its list is used up and nothing runs yet, or
  the call for the first delay runs, went wrong, or has left the target on record.
- `SeqLinkedExactlyOnce`: when the program ends, every function on record that did not go wrong has one line in
  `link.sh`, with the file that holds it, and none has two. `OnceOnly` says that no call still to be made has its
  file in the list and that no list of what is to do names a thing twice: a register that is pushed again by its own
  function, or by another's while it is in hand, is passed over because it is visited by then, and a kill empties
  list and record together. `AllLinked` is the other half: the calls of the target in hand are to be made, under way or linked,
  those of all others linked. `OneLink` (`TargetConfig_proofs`, also used for the threads): a file in the list is its call's own. The
  theorem assumes `DistinctFiles`, as above, and `DistinctDelays`: `allowed_target.txt` names no delay of a register twice, in
  which case the function would be made and linked twice.

Taint (`TaintSim_proofs`, `TaintGen_proofs`):

- `FlagsRefineMonitor`: `TaintSim` implements `FlagMonitor`, for every design: of two
  flags that are set under different conditions only the first to be set counts.
- `TaintCovered`: `Spec => []WriteCoversLive`, for every design of any width and depth: whatever bit
  `live_analysis` marks as written, `write_taint` marks too. It needs `TaintInv`: of each register, the words have their
  width and each bit of `t` is one of `tz`, which an edge keeps because it does for all wires. That the second is so
  wire by wire is one lemma for each rule (`live => write` for operands of which that is so), put together
  over the nodes by an induction over a set of numbers.
- `ForwardTaintSound`: `ForwardNets /\ Spec => []ForwardSound`, and `RelevanceSound`:
  `RelevanceNets /\ Spec => []RelevantSound`. For each kind of statement a lemma says what of an operand its value is a
  function of, and that the bits the rule lets go are not among them: of `&` a bit opposite a clean 0; of a
  shift by a tainted amount none; of a case the fields not taken. The hypotheses are on widths and are where the rules
  are wrong without them, which TLC shows on a design without: a `&&` or `||` with a literal passes
  the other operand's taint on bit by bit, so that it has to be one bit wide (`ForwardWidths`);
  a sum passes relevance on bit by bit ("FIXME: the width of op1/op2 and dest are not
  necessarily the same", `op_taint_gen.cpp:454`), so that its operands have to be as wide as it is, and those of
  `|` one as wide as the other (`RelevanceWidths`). `MCTaintSim` assumes both of its designs, and TLC evaluates that.
- The proofs unfold `Settled` and `RelevanceOf` at any node: that the recursive functions in them exist is
  shown as for `DelaysOf` (below), and `Num`, `CaseTaken` and the other folds over words are used through lemmas
  about what they depend on.
- `TypeCorrect`, `DrivenOnceHolds`, `ChildrenFirstHolds`, `SigUniqueHolds`, for every
  hierarchy, width and number of readings. `DrivenOnce` needs `Filled`: of each
  variable all words but the last are driven in full, and of the last exactly
  the bits in `nxtVerBits`. `ChildrenFirst` needs that the calls under way form a
  path down the hierarchy, which a rank on modules keeps from meeting itself.
  `SigUnique` is the count: at most as many registers are declared as there are
  names, so that no signature wraps.

Unrolling (`Unroll_proofs`), for every design, target, bound and encoding:

- `UnrollZeroedInputsUnused`. The code gives 0 for an input of an instance at levels before
  `minInOutDelay`, and that number is still being lowered while the function is made. The invariant
  `IInv` says of every value there is, whether in `memo`, in `funcs`, in an array's stores, among
  operands had or just returned: each input it reads of an instance is noted at the level it is read at or an
  earlier one (`Noted`, `Good`). A value stays good because notes are only added and lowered
  (`Falls`); the one step that could undo this is `Elaborate`, which starts a function's notes anew. So the
  proof turns on no function being elaborated twice (`NotTwice`): what has notes has a body or is being
  elaborated (`Traced`), and whatever runs while a function is elaborated is within its
  instance (`Under`); a second call of it would come from a module that contains that instance, which
  the rank of the hierarchy excludes.
- `UnrollNoCircularElaboration`: no name is elaborated under itself, in the same context and at the same level.
  Its hypothesis on the design, `NoLoops`, is that some `order` is as `Acyclic` asks: `rank` falls along every reading within
  one cycle, where an output of an instance reads what is connected to those inputs that `reads` says it
  reads in that cycle. `MCUnroll` assumes `Acyclic` of its design with such an order, worked out from the design, and TLC evaluates it. The invariant is
  `LeadsInv`: each frame of the stack comes after those below it (`Passes`, which is transitive: a later level, or the same
  with a lower rank; or nearer to Top in the target's own function; or into an instance, lower in the hierarchy).
  An output calls only what is connected to inputs that are noted, and the level noted is 0 only for inputs that the output reads
  at once (`NotedAtOnce`, `InStep`), which is the point of giving 0 for the others. The property holds in the states in which
  `Ahead` and `Inside` do, and is false without them (see below); TLC finds both in every state of
  `mc_unroll` when they are added to its cfg.
- `AncestryIs`, `CatArgs` and `CaseArgs` unfold the recursive functions of the
  module (the path to a target's module, concatenations, chains of `select`) by induction over a set of
  numbers, as in `Ast_proofs`.

Trees (`Ast_proofs`), for every design, file, order of targets and order of children that
`Ast`'s assumptions admit:

- `AstTypeOK`, `AstNoReentry`, `AstNodesFaithful`, from one invariant, `IInv`. None of the three is
  inductive. `ctx` is a global that calls push to and pop from, so what it is when a call returns
  is a fact about all calls under way: `StackOK` says there is a history `H` of stacks, one for each
  call while it is the innermost, each a path of instances, and that a call's `saved` entries lead
  from its stack to the one it was made with. Under each frame, what it has gone over and what its
  node has as children match position by position (`Progress`). `Owned`: a node belongs to one name
  and at most one call, so a child added by one call is in no other's node. `NoReentry` is
  part of the invariant: a name is marked before its children are gone over. `Built`:
  the node of a call that has returned is faithful and has all its children.
- `AstAllowedAsWritten`, for every well-formed `allowed_target.txt` of any length, from `ReadSoFar`: after
  each line the delays of a register are those of its lines so far, and the vectors are the bracketed stretches
  so far, the last one perhaps still open. `DelaysOf` is a recursive function, and it exists and can be unfolded
  by `RecursionExists`: an induction put over a set (`0 \in S`, and `n \in S => n + 1 \in S`, give `Nat` within `S`,
  `NatSetInduction`, from the pigeonhole theorem for finite sets).
- That the first value's variable stands for all values of a case, and that an input reached
  through any instance has the wire of one, is what the proof of `AstNodesFaithful` shows.

Front end (`FrontEnd_proofs`):

- `TablesAreCurrent`: `Spec => []TablesCurrent`, for any editions and any number of runs, edits and
  kills. The invariant `DatesInv` says what a date is good for: a file newer than `design.v`, written to
  its end and not late, was made of the `design.v` there is (`Trustworthy`); it holds between
  runs because an edit makes the file older, and while the file is written because an edit makes it
  `late` (`Writing`).

Theorems a run does not repeat: type correctness of both schedules and of `TaintGen`, and
`SeqOwnInstrOnly`.

Model-checked only, and why:

- `Terminates` of `ParSchedule`, `SeqSchedule` and `Unroll`: liveness and ENABLED are beyond the prover.
- `MemoIsRTL`, `ReadAsWritten`, `TestsDecode`
  and the refinement of `Ila` speak of what a fold or a recursively defined function
  computes for every input. The library's induction theorems take an operator as parameter, which none of
  the provers can instantiate. An induction over a set, as for `AstAllowedAsWritten`, needs no such operator, but that the
  recursive function exists has to be shown for each, which for functions over expressions and words is work not done.
- `SigFaithful` is a fact about the designs of the run. In general a field that a case takes out of a
  concatenation of unequal operands, or a register loaded from a slice, has the signature of something else; `Misnamed` leaves
  out those the run meets.
- `NothingMissing` depends on the design, on how outputs come back through inputs.
- `NoCircularElaboration` where `Ahead` or `Inside` fails is false, though the code still ends: an array whose written data
  reads the array through two registers is elaborated again under itself, as `FindWrites` asks for writes at levels
  below the reading one (TLC shows it for one such design), and so is a flat module that several contexts share without its being an
  ancestor of the target, whose inputs go on in the caller at the callee's level. The theorem above is for the rest.
- `Unroll`'s `TypeOK` needs more of a design than `Fitting` says. Widths of outputs of instances, of the wires in `FirstWire`
  and of slices assigned directly would have to agree with those of the nodes they stand for, and the names `Actual` gives to the memories of an
  instance in the target's own module, or to its registers when a flat module that is not the target's calls it, need not be declared by the
  function they are used in. Under which hierarchies they are was not worked out; TLC checks `TypeOK` on the run's design.
- `MeaningKept`: `FrontEnd`'s transformations against `Netlist`, for all statements.

## 5. What is not modelled

- Text itself: the regular expressions that tell statements apart, printing of scripts and reports.
- In `FrontEnd`: registers assigned by slices; a concatenation assigned to a register inside an
  if or else; an else-if nested in an outer if (`expr.cpp:601-652` loses the first
  condition, though the comment before it lists the form) and a third else; function
  formals named like wires; one name with two widths in two modules; hexadecimal
  literals of 32 bits or more between braces whose width is not a multiple of four; decimal literals between
  braces; concatenations on both sides that do not end together destination by destination, other than on unused
  wires; a function without a call in the next eight lines; `switch` and `memory`
  comments; a kill inside a function or instance of several lines; equal dates; a missing
  `design.v`; edits while `clean_file` reads; `get_skipped_output`, `determine_clk_rst`.
- In the simulation flow: `parse_sim_results`, the data memory, what is special to `VTA`, `AES`, `URV` and `BI`,
  headers, waveforms, the last values printed with `PRINT_ALL` off; radix and name collisions after
  conversion; fields of five bits between braces
  (for `OTHER` designs they get no digits); a variable given twice in a
  first cycle, an end of file inside brackets; a relation `Z+n` on a base smaller than `n`.
- Two registers of the same name in different instances that share an artefact within one run
  (hazard at `check_regs.cpp:166`); whether a function folded away by `opt` is "discarded"
  (`get_all_update.cpp:799-801`).
- Hazards in whose failing case nothing is claimed. `PROJECT.json` lists them without a property and with the
  operator that leaves the case out: `DistinctFiles` (`check_regs.cpp:166`), `Misnamed`, `Nameless`
  (`op_taint_gen.cpp:1441`, `:937`), names that several modules share (`taint_gen.cpp:1072`, `:2359`), a field of a concatenation that comes
  back under its first piece's name (`op_taint_gen.cpp:1087`, not in the nets), `DoesNotFit` (`op_constraint.cpp:192`, the reset),
  `InnerRead` (`ast.cpp:1081`), files cut short or overtaken by an edit (`func_extract.cpp:118`).
- What LLVM and `opt` do to a function, apart from the arguments that are left.
- In `Unroll`: `sel5`, registers at the beginning with `g_use_read_ASV` off, the
  stores `print_llvm_ir` adds at the end for arrays (`check_regs.cpp:612-632`), vectors
  of memories (their element type is a null pointer), and the wrapper `print_llvm_ir` can build
  itself (`makeWrapper` is false). Names under which an extension or
  slice made before is found again are taken to be faithful.
- Encodings with a `DIRTY` word whose NOP word is `x`: the code runs off the end
  of `input_constraint` (`EncodingAssumption` excludes them).
- Report files (`up_gen_time.txt`, `goal.txt`), `./tmp.ll` and the log.
- In the taint modules: memories, registers assigned slice by slice, gated
  clocks, the choice of lines by regular expressions, and in `TaintGen` the text of ports and instances.
- In `Ast`: which statement a line is, and `Reset` below top; a vector's members with a delay of their own.
- VCD readers, the readers of `config.txt` and `module_info.txt` (their tables are constants), `src/complete_flow`, preprocessors and statistics: filters on text without
  state of interest.

Defects met on the way that no run is about: two instances of one module share
the signatures of its registers; `get_ver_vec` pushes an unset `isNew` for a literal
that comes first (`live_analysis/src/helper.cpp`); a memory's `nextVersion` is never
advanced and its loops leave out the last word; `g_iteDest` and `g_clk_set` are not
cleared between modules; `order.txt` is appended to by every run; the `ALWAYS_NEG`
case of the switch over lines has no `break`. In `func_extract`: stores to an array
are emitted newest first, so that the oldest wins; two instances of a module in
one parent make `ask_parent_my_ins_name` abort for a target below them; the
context of such a target is asserted to be called `top_function`, which it never
is; a target that is a slice is answered with the whole variable; a negated condition of an outer `if` is stored as `!c ? ..`, which no
pattern reads (`IfNested`; no edition has one). In the simulation flow: `g_design` is
set in the source of each tool; `#valid` is compared over four characters with a word of six and
never matches; `#dataIn` without an index never matches; an instruction of a fetching design whose later
words differ from the first cannot be decoded, as the first is repeated; an array target has no `_nxt` declared, so that
`ila.cpp` does not compile (`WithArray`), and if it did, the wrapper of an array takes one pointer more than the
prototype has; a wrapper keeps the calling convention of its function, `fastcc` for a renamed `top_function`, while
`ila.h` declares a C function; a function of more than 64 bits without arguments is called as
`f( , x )`; in the bench every reset value is 0, as `if(is_x)` tests the function `is_x` and not its result;
a bench that is not event-driven prints no initial values; `check_input_val` accepts all but `DIRTY`.

## 6. Plan

Done: the search for targets with its abstract specification; unrolling over
time and hierarchy, with the operators' LLVM instructions; trees; taint rules, simulation and
generation; the front end with its files; the readers of `instr.txt` and `allowed_target.txt`; the simulation flow with the refinement of `Ila`;
the theorems of section 4. Left, in this order:

1. Theorems: `Unroll`'s `TypeOK` for the hierarchies in which the arguments a call passes are declared by its
   caller; the part of `IlaFlow` that is not about words.
2. Memories and sliced registers in the taint modules and in `FrontEnd`.
