------------------------------- MODULE MCZendCfg -------------------------------
(***************************************************************************)
(* Op_arrays for ZendCfg, laid out as the compiler lays them out, with     *)
(* opcodes in some places taken from a set: all op_arrays of four opcodes  *)
(* and their return; a try with a catch, a try with a finally block, one   *)
(* with both, and two tries, into which any of the free opcodes may jump   *)
(* as goto does, though never to the beginning of a handler nor into a     *)
(* finally block from outside.  Every opcode has a line of its own, save   *)
(* in the last few, for a constructor call that spans two lines, a switch, *)
(* a chain of catches, and a line that is in live and in dead code.        *)
(***************************************************************************)
EXTENDS ZendCfg

Op(kind, to) == [kind |-> kind, to |-> to]
Plain  == Op("plain", <<>>)
Return == Op("return", <<>>)
Ignored == Op("ignored", <<>>)

Jumps(kinds, targets) == {Op(k, <<t>>) : k \in kinds, t \in targets}

Free(targets) == {Plain, Return} \union Jumps({"jmp", "cond"}, targets)

Try(try, catch, finally, finally_end) ==
  [try |-> try, catch |-> catch, finally |-> finally, finally_end |-> finally_end]

OpArray(s, line, tries) ==
  [last  |-> Len(s),
   ops   |-> [i \in 0 .. Len(s) - 1 |->
                [kind |-> s[i + 1].kind, to |-> s[i + 1].to, line |-> line[i + 1]]],
   tries |-> tries]

Apart(s) == [i \in 1 .. Len(s) |-> i]
Layout(s, tries) == OpArray(s, Apart(s), tries)

Straight ==
  {Layout(<<a, b, c, d, Return>>, <<>>) :
     a \in Free(1 .. 4), b \in Free({0, 2, 3, 4}), c \in Free({0, 1, 3, 4}), d \in Free({0})}

(* try { 1 } catch { 4 }, left by 2 to 5.                                  *)
Catch ==
  {Layout(<<a, b, Op("jmp", <<5>>), Op("last_catch", <<>>), c, Return>>, <<Try(1, 3, 0, 0)>>) :
     a \in Free({1, 2, 4, 5}), b \in Free({0, 2, 4, 5}), c \in Free({0, 1, 2, 5})}

(* try { 1 } finally { 4 }.                                                *)
Finally ==
  {Layout(<<a, b, Op("fast_call", <<4>>), Op("jmp", <<6>>), c, Op("fast_ret", <<>>), Return>>,
          <<Try(1, 0, 4, 5)>>) :
     a \in Free({1, 2, 6}), b \in Free({0, 2, 6}), c \in {Plain, Return, Ignored}}

(* try { 1 } catch { 4 } finally { 7 }.                                    *)
CatchFinally ==
  {Layout(<<a, b, Op("jmp", <<5>>), Op("last_catch", <<>>), c, Op("fast_call", <<7>>),
            Op("jmp", <<9>>), d, Op("fast_ret", <<>>), Return>>, <<Try(1, 3, 7, 8)>>) :
     a \in Free({1, 4, 5, 9}), b \in {Plain, Return} \union Jumps({"jmp"}, {0, 4, 9}),
     c \in {Plain, Return} \union Jumps({"jmp"}, {0, 1, 9}), d \in {Plain, Return}}

(* try { 1 } catch { 3 } and then try { 5 } catch { 8 }.                   *)
TwoTries ==
  {Layout(<<a, b, Op("last_catch", <<>>), c, d, e, Op("jmp", <<9>>), Op("last_catch", <<>>), f, Return>>,
          <<Try(1, 2, 0, 0), Try(5, 7, 0, 0)>>) :
     a \in {Plain} \union Jumps({"jmp"}, {3, 4, 5, 8, 9}), b \in {Return} \union Jumps({"jmp"}, {4, 9}),
     c \in {Plain, Return} \union Jumps({"jmp"}, {1, 5, 8}), d \in {Plain, Return},
     e \in {Plain, Return} \union Jumps({"cond"}, {3}), f \in {Plain} \union Jumps({"jmp", "cond"}, {1, 3, 5})}

Special ==
  {OpArray(<<Op("new", <<>>), Op("do_fcall", <<>>), Op("new", <<>>), Plain, Op("do_fcall", <<>>), Return>>,
           <<1, 2, 3, 4, 5, 6>>, <<>>),
   OpArray(<<Op("jmpznz", <<3, 2>>), Plain, Plain, Ignored, Return>>, <<1, 2, 3, 4, 5>>, <<>>),
   OpArray(<<Op("switch", <<2, 3, 2, 4>>), Op("jmp", <<4>>), Return, Plain, Plain, Return>>,
           <<1, 2, 3, 4, 5, 6>>, <<>>),
   OpArray(<<Plain, Op("jmp", <<6>>), Op("catch", <<4>>), Op("jmp", <<6>>), Op("last_catch", <<>>),
             Plain, Return>>, <<1, 2, 3, 4, 5, 6, 7>>, <<Try(0, 2, 0, 0)>>),
   OpArray(<<Return, Plain, Plain, Return>>, <<1, 1, 2, 2>>, <<>>)}

OpArrays == Straight \union Catch \union Finally \union CatchFinally \union TwoTries \union Special

(* The layouts are those for which dead tries are proved to stay dead.     *)
ASSUME LaidOut == HandlersApart

================================================================================
