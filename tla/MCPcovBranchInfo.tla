---------------------------- MODULE MCPcovBranchInfo ----------------------------
(***************************************************************************)
(* Op_arrays for PcovBranchInfo: all those of Size opcodes made of plain   *)
(* ones, jumps, conditional jumps and returns, with a return at the end,   *)
(* as the compiler emits; and a few with a chain of catches, a switch that *)
(* is larger than its cap, a finally block, a return by reference, and an  *)
(* op_array of a function that never returns, which ends without a return. *)
(***************************************************************************)
EXTENDS PcovBranchInfo

CONSTANT Size

Op(kind, to) == [kind |-> kind, to |-> to]
Plain  == Op("plain", <<>>)
Return == Op("return", <<>>)

Simple(i) ==
  {Plain, Return} \union {Op(k, <<t>>) : k \in {"jmp", "cond"}, t \in (0 .. Size - 1) \ {i}}

OpArray(s) == [last |-> Len(s), ops |-> [i \in 0 .. Len(s) - 1 |-> s[i + 1]]]

(* Sequences whose i-th element, from 0 on, is in Simple(i).               *)
Choices[n \in 0 .. Size - 1] ==
  IF n = 0 THEN {<<>>}
           ELSE {Append(s, op) : s \in Choices[n - 1], op \in Simple(n - 1)}

Enumerable == {OpArray(Append(s, Return)) : s \in Choices[Size - 1]}

Special ==
  {OpArray(<<Plain, Op("jmp", <<6>>), Op("catch", <<4>>), Op("jmp", <<6>>),
             Op("last_catch", <<>>), Plain, Return>>),
   OpArray(<<Op("switch", <<1, 2, 3, 1, 4>>), Plain, Op("jmp", <<4>>), Plain, Return>>),
   OpArray(<<Op("match", <<1, 1, 2>>), Return, Plain, Return>>),
   OpArray(<<Op("fast_call", <<2>>), Op("jmp", <<4>>), Plain, Return, Return>>),
   OpArray(<<Op("cond", <<2>>), Op("return_by_ref", <<>>), Return>>),
   OpArray(<<Op("cond", <<2>>), Plain, Plain>>)}

(* Those whose last opcode can be reached.                                 *)
LastLive ==
  UNION {IF p.last - 1 \in Live(p) THEN {p} ELSE {} : p \in Enumerable \union Special}

================================================================================
