---------------------------- MODULE MCPcovRequest ----------------------------
(***************************************************************************)
(* Instances of PcovRequest.  Either no request of the process sets        *)
(* pcov.exclude or every one does, to one of two patterns or to text that  *)
(* is no pattern; ExcludeMixed has both kinds of request in one process.   *)
(* One thread meets every configuration; two threads meet one in which     *)
(* everything they share is used.                                          *)
(***************************************************************************)
EXTENDS PcovRequest, TLC

CONSTANTS r1, r2

ExcludeUniform == {{Unset}, {r1, r2, Invalid}}
ExcludeMixed   == {{Unset, r1}}

SharedConfig ==
  [enabled |-> TRUE, PCOV_ENABLED |-> "unset", mode |-> "branch",
   PCOV_MODE |-> "unset", xdebug |-> "absent", excludes |-> {Unset}]

MCInit == Init /\ (~OneThread => config = SharedConfig)

MCSpec == MCInit /\ [][Next]_vars

Symmetry == Permutations(Threads) \union Permutations(Regexes)

================================================================================
