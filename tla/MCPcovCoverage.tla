---------------------------- MODULE MCPcovCoverage ----------------------------
(***************************************************************************)
(* Values for checking PcovCoverage: files a and b under the directory, x *)
(* that pcov.exclude matches, and s whose name is shorter than the         *)
(* directory.  TwoLines have opcodes on a second line, which is executable *)
(* in a only: in b it holds nothing that line discovery counts.            *)
(* The list of hits never repeats a pair, so the state space is finite     *)
(* without a bound.                                                        *)
(***************************************************************************)
EXTENDS PcovCoverage

CONSTANTS a, b, x, s, p, q, TwoLines

MCOpLines    == [f \in Files |-> IF f \in TwoLines THEN {1, 2} ELSE {1}]
MCExecutable == [f \in Files |-> IF f = a THEN OpLines[f] ELSE {1}]
MCHasPrefix  == [k \in Prefixes |-> (IF k = p THEN {a} ELSE {a, b, x}) \intersect Files]
MCUnder      == {a, b, x} \intersect Files
MCShort      == {s} \intersect Files
MCExcluded   == {x} \intersect Files

================================================================================
