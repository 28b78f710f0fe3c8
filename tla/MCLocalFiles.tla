------------------------------ MODULE MCLocalFiles ------------------------------
(* Three processes open one database, two of them disturbed, or one twice;  *)
(* or two commands write their outputs to two paths, disturbed twice.  The  *)
(* two systems share nothing, so that their interleavings are left out.     *)
EXTENDS DatabaseFile, OutputFiles

CONSTANTS p1, p2, p3, m1, m2, f1, f2

LocalNext ==
  \/ maker = [m \in Makers |-> Idle] /\ FileNext /\ UNCHANGED outputVars
  \/ /\ opener = [p \in Processes |-> Start] /\ decides = "content" /\ file = "absent"
     /\ OutputNext /\ UNCHANGED fileVars

LocalInit == FileInit /\ OutputInit

LocalSpec ==
  /\ LocalInit
  /\ [][LocalNext]_<<fileVars, outputVars>>
  /\ FileFairness
=============================================================================
