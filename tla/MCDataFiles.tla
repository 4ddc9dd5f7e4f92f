------------------------------ MODULE MCDataFiles ------------------------------
(* A small instance of DataFiles for TLC: the values a cfg cannot write.    *)
EXTENDS DataFiles

MCMalwarePackages ==
  [f \in {1, 2} |-> {f}]

MCBotUses ==
  [c \in {1, 2} |-> IF c = 1 THEN {1} ELSE {1, 2}]

MCSiteEco ==
  [p \in {1, 2, 3} |-> "npm"]

MCSiteAdvisories ==
  {[pkg |-> 1, eco |-> "npm"], [pkg |-> 1, eco |-> "pypi"], [pkg |-> 3, eco |-> ""]}

================================================================================
