------------------------------- MODULE OutputFiles -------------------------------
(***************************************************************************)
(* How the commands write their outputs.  An identity is two files, its    *)
(* encrypted private key and its public document; every other output is    *)
(* one.  A file is created exclusively, written, and removed again when    *)
(* something fails.  Makers run side by side, choose the same paths, fail  *)
(* or die at any step and try again.                                       *)
(***************************************************************************)
EXTENDS Integers, Sequences

CONSTANTS Makers, Paths, NoFile,
          MaxFailures     \* bound: failing system calls, interrupts and deaths

ASSUME NoFileIsNone == NoFile \notin [by : Makers, part : {1, 2}, whole : BOOLEAN]

VARIABLES disk,      \* [Paths -> the file of that name, or NoFile]
          maker,     \* [Makers -> what it makes, where, and how far it is]
          failures

outputVars == <<disk, maker, failures>>

Kinds == {"identity", "binding", "reputation", "disclosure", "request", "bbs key"}

(* Which look whether their paths are free before they create anything.    *)
LooksFirst(kind) == kind \in {"identity", "binding", "reputation", "disclosure"}

(* How the writing of a file fails: before its device and inode are known, *)
(* or later, by an error or an interrupt.  Those that compare them do not  *)
(* remove what they have not identified yet; save_disclosure removes       *)
(* nothing after an interrupt, and _save_request nothing at all.           *)
Failures == {"unidentified", "error", "interrupt"}
Undoes(kind, how) ==
  \/ kind \in {"identity", "binding"}
  \/ kind \in {"reputation", "bbs key"} /\ how # "unidentified"
  \/ kind = "disclosure" /\ how = "error"

(* Whose rollback removes whatever has the name; the others compare device *)
(* and inode.                                                              *)
RemovesByName(kind) == kind \in {"identity", "binding"}

(* The paths of an identity differ; the private key comes first.           *)
Outputs(kind) ==
  IF kind = "identity" THEN {ps \in Paths \X Paths : ps[1] # ps[2]}
                       ELSE {<<p>> : p \in Paths}

(* part is the output it works on; left, whether it once left a file; at   *)
(* becomes "look", "create", "write", "undo", and "made" or "failed".      *)
Idle == [kind |-> "request", paths |-> <<>>, part |-> 1, at |-> "idle", left |-> FALSE]

Name(m) == maker[m].paths[maker[m].part]
Own(m, p) == disk[p] # NoFile /\ disk[p].by = m
Go(m, place) == maker' = [maker EXCEPT ![m].at = place]
Disturbed == failures < MaxFailures /\ failures' = failures + 1

(* The name is taken, or the system refuses. *)
Obstructed(m) == Disturbed \/ (disk[Name(m)] # NoFile /\ UNCHANGED failures)

(* Whoever failed may try again, with another output too.                  *)
Make(m, kind, paths) ==
  /\ maker[m].at \in {"idle", "failed"}
  /\ maker' = [maker EXCEPT ![m] = [kind |-> kind, paths |-> paths, part |-> 1, left |-> @.left,
                                    at |-> IF LooksFirst(kind) THEN "look" ELSE "create"]]
  /\ UNCHANGED <<disk, failures>>

Look(m) ==
  /\ maker[m].at = "look"
  /\ Go(m, IF \A i \in DOMAIN maker[m].paths : disk[maker[m].paths[i]] = NoFile
             THEN "create" ELSE "failed")
  /\ UNCHANGED <<disk, failures>>

CreateOutput(m) ==
  /\ maker[m].at = "create" /\ disk[Name(m)] = NoFile
  /\ disk' = [disk EXCEPT ![Name(m)] = [by |-> m, part |-> maker[m].part, whole |-> FALSE]]
  /\ Go(m, "write")
  /\ UNCHANGED failures

CreateFailsUndoing(m) ==                                            \* mutant
  /\ maker[m].at = "create"
  /\ Obstructed(m)
  /\ Go(m, "undo")
  /\ UNCHANGED disk
CreateFailsKeeping(m) ==                                            \* mutant
  /\ maker[m].at = "create"
  /\ Obstructed(m)
  /\ Go(m, "failed")
  /\ UNCHANGED disk

(* What was created before is undone: the private key, when the public     *)
(* identity cannot be created.                                             *)
CreateFails(m) ==
  /\ maker[m].at = "create"
  /\ Obstructed(m)
  /\ maker' = [maker EXCEPT ![m].part = 1,
                            ![m].at = IF maker[m].part = 1 THEN "failed" ELSE "undo"]
  /\ UNCHANGED disk

(* Written, flushed and synchronized. *)
WriteOutput(m) ==
  /\ maker[m].at = "write"
  /\ disk' = [disk EXCEPT ![Name(m)] = IF Own(m, Name(m)) THEN [@ EXCEPT !.whole = TRUE] ELSE @]
  /\ IF maker[m].part < Len(maker[m].paths)
       THEN maker' = [maker EXCEPT ![m].part = @ + 1, ![m].at = "create"]
       ELSE Go(m, "made")
  /\ UNCHANGED failures

WriteFails(m, how) ==
  /\ maker[m].at = "write" /\ Disturbed
  /\ IF Undoes(maker[m].kind, how) THEN Go(m, "undo")
       ELSE maker' = [maker EXCEPT ![m].at = "failed", ![m].left = TRUE]
  /\ UNCHANGED disk

(* Removes the output, unless that fails too, and goes on to the one that  *)
(* was made before it.                                                     *)
Undo(m) ==
  /\ maker[m].at = "undo"
  /\ LET removes == RemovesByName(maker[m].kind) \/ Own(m, Name(m))
         Undone(left) ==
           maker' = [maker EXCEPT ![m].part = 1, ![m].left = @ \/ left,
                                  ![m].at = IF maker[m].part = 1 THEN "failed" ELSE "undo"]
     IN  \/ /\ disk' = [disk EXCEPT ![Name(m)] = IF removes THEN NoFile ELSE @]
            /\ Undone(FALSE)
            /\ UNCHANGED failures
         \/ Disturbed /\ Undone(Own(m, Name(m))) /\ UNCHANGED disk

Killed(m) ==
  /\ maker[m].at \notin {"idle", "made", "failed"} /\ Disturbed
  /\ maker' = [maker EXCEPT ![m].at = "failed", ![m].left = @ \/ \E p \in Paths : Own(m, p)]
  /\ UNCHANGED disk

OutputInit ==
  /\ disk = [p \in Paths |-> NoFile]
  /\ maker = [m \in Makers |-> Idle]
  /\ failures = 0

OutputNext ==
  \E m \in Makers :
    \/ \E kind \in Kinds : \E paths \in Outputs(kind) : Make(m, kind, paths)
    \/ Look(m) \/ CreateOutput(m) \/ CreateFails(m) \/ WriteOutput(m)
    \/ \E how \in Failures : WriteFails(m, how)
    \/ Undo(m) \/ Killed(m)

OutputSpec == OutputInit /\ [][OutputNext]_outputVars

(***************************************************************************)
(* Properties                                                              *)
(***************************************************************************)

(* What a command said it wrote is there, complete, and of one making: the *)
(* private key and the public identity belong together.  The rollback of   *)
(* another command, which removes files by name, does not take it away,    *)
(* whichever of the paths they share.                                      *)
MadeStands ==
  \A m \in Makers : maker[m].at = "made" =>
    \A i \in DOMAIN maker[m].paths :
      disk[maker[m].paths[i]] = [by |-> m, part |-> i, whole |-> TRUE]

(* A command that failed leaves nothing behind, above all no private key   *)
(* without its identity, unless it was killed, could not remove it, had    *)
(* not identified it yet, or is one of those that do not try.              *)
NothingLeft ==
  \A m \in Makers : maker[m].at = "failed" /\ ~maker[m].left =>
    \A p \in Paths : ~Own(m, p)
=============================================================================
