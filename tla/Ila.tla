-------------------------------- MODULE Ila --------------------------------
(***************************************************************************)
(* What a simulation of the extracted instructions promises: instruction   *)
(* after instruction, every register an instruction updates gets the value *)
(* of its update function, all of them computed from the registers as they *)
(* were before the instruction; the other registers keep theirs.           *)
(***************************************************************************)
EXTENDS Integers, Sequences, FiniteSets

CONSTANT Fn(_, _, _)   \* Fn(instr, target, args): the update function of a target

VARIABLES job,    \* the instructions, the reset values, the memory; <<>> before they are known
          regs,   \* register values
          din,    \* the word last loaded from memory
          at,     \* index of the next instruction
          done    \* instructions executed

\* The value of the n-th argument of the function of src: the loaded word, an input or a register.
ArgOf(step, src, args, n, rs, d) ==
  LET a    == args[n]
      nth  == Cardinality({m \in 1..n : args[m] = a})
      data == src \in DOMAIN step.load /\ step.load[src] = <<a, nth>>
  IN CASE data                 -> d
       [] a \in DOMAIN step.word -> step.word[a]
       [] OTHER                -> rs[a]

\* Registers, loaded word and next index after one instruction of j in state s.
After(j, s) ==
  LET step == j.steps[s.at]
      new  == [r \in DOMAIN s.regs |->
                 IF r \in DOMAIN step.upd
                 THEN LET u == step.upd[r]
                      IN Fn(step.name, u.src,
                            [n \in DOMAIN u.args |-> ArgOf(step, u.src, u.args, n, s.regs, s.din)])
                 ELSE s.regs[r]]
      slot(v) == ((v \div 4) % Len(j.steps)) + 1
  IN [regs |-> new,
      din  |-> IF step.addr = "" THEN s.din ELSE j.mem[slot(new[step.addr])],
      at   |-> IF ~j.fetch THEN s.at + 1
               ELSE IF step.next \in DOMAIN step.upd THEN slot(new[step.next]) ELSE s.at]

Start(j) == [regs |-> j.rst, din |-> 0, at |-> 1]

Init == job = <<>> /\ regs = <<>> /\ din = 0 /\ at = 1 /\ done = 0

Accept == /\ job = <<>> /\ job' # <<>>
          /\ regs' = job'.rst /\ din' = 0 /\ at' = 1 /\ done' = 0

Execute == /\ job # <<>> /\ done < job.runs
           /\ [regs |-> regs', din |-> din', at |-> at'] = After(job, [regs |-> regs, din |-> din, at |-> at])
           /\ done' = done + 1
           /\ UNCHANGED job

Next == Accept \/ Execute
Spec == Init /\ [][Next]_<<job, regs, din, at, done>>
=============================================================================
