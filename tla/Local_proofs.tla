------------------------------- MODULE Local_proofs ------------------------------
(***************************************************************************)
(* Proofs about what runs on one machine: the opening of a database file   *)
(* by any number of processes, with any number of deaths and timeouts; the *)
(* outputs of any number of commands; and the BBS companion, for any       *)
(* number of clients and requests.  The three share no state.              *)
(***************************************************************************)
EXTENDS DatabaseFile, OutputFiles, Companion, TLAPS

(***************************************************************************)
(* The database file                                                       *)
(***************************************************************************)

FileTypeOK ==
  /\ decides \in {"content", "creator"}
  /\ file \in {"absent", "empty", "ready", "foreign"}
  /\ opener \in [Processes -> Opener]

(* A process that created the file, or that came past its creation, finds  *)
(* one; the file that it created is not another program's.                 *)
CreatedHere ==
  \A p \in Processes :
     /\ opener[p].at # "start" => file # "absent"
     /\ opener[p].created => file \in {"empty", "ready"}

FileInv == FileTypeOK /\ CreatedHere /\ OpenIsReady

(* What a step may do to the file.                                         *)
FileMoves ==
  \/ file' = file
  \/ file = "absent" /\ file' = "empty"
  \/ file = "empty" /\ file' = "ready"

(* One opening moves on, while the file stays or moves forward.            *)
LEMMA OpeningMoves ==
  ASSUME FileInv, FileMoves, NEW p \in Processes, NEW o \in Opener,
         opener' = [opener EXCEPT ![p] = o], decides' = decides,
         o.at # "start" => file' # "absent",
         o.created => file' \in {"empty", "ready"},
         o.at = "open" => file' = "ready"
  PROVE  FileInv'
<1>1. FileTypeOK'
  BY DEF FileInv, FileTypeOK, FileMoves
<1>2. \A q \in Processes : opener'[q] = IF q = p THEN o ELSE opener[q]
  BY DEF FileInv, FileTypeOK
<1>3. CreatedHere' /\ OpenIsReady'
  BY <1>2 DEF FileInv, CreatedHere, OpenIsReady, FileMoves
<1> QED BY <1>1, <1>3 DEF FileInv

LEMMA FileStep ==
  ASSUME FileInv, [FileNext]_fileVars
  PROVE  FileInv' /\ FileMoves
<1>1. ASSUME NEW p \in Processes, CreateFile(p)
      PROVE  FileInv' /\ FileMoves
  <2> DEFINE o == [at |-> "connect", created |-> file = "absent"]
  <2>1. o \in Opener /\ opener' = [opener EXCEPT ![p] = o]
    BY <1>1 DEF CreateFile, Opener, Places
  <2>2. FileMoves /\ file' # "absent" /\ (file = "absent" => file' = "empty")
    BY <1>1 DEF CreateFile, FileMoves
  <2>3. decides' = decides
    BY <1>1 DEF CreateFile
  <2> QED BY <2>1, <2>2, <2>3, OpeningMoves
<1>2. ASSUME NEW p \in Processes, NEW place \in {"inside", "open"}, At(p, place),
             opener[p].at # "start", decides' = decides, FileMoves,
             place = "open" => file' = "ready"
      PROVE  FileInv'
  <2> DEFINE o == [opener[p] EXCEPT !.at = place]
  <2>1. o \in Opener /\ o.at = place /\ o.created = opener[p].created
    BY DEF FileInv, FileTypeOK, Opener, Places
  <2>2. opener' = [opener EXCEPT ![p] = o]
    BY <1>2 DEF At
  <2>3. file # "absent" /\ (opener[p].created => file \in {"empty", "ready"})
    BY <1>2 DEF FileInv, CreatedHere
  <2>4. file' # "absent" /\ (opener[p].created => file' \in {"empty", "ready"})
    BY <1>2, <2>3 DEF FileMoves
  <2> HIDE DEF o
  <2> QED BY <1>2, <2>1, <2>2, <2>4, OpeningMoves
<1>3. ASSUME NEW p \in Processes, StartAgain(p), decides' = decides, file' = file
      PROVE  FileInv'
  <2>1. Start \in Opener /\ Start.at = "start" /\ ~Start.created
    BY DEF Start, Opener, Places
  <2>2. opener' = [opener EXCEPT ![p] = Start] /\ FileMoves
    BY <1>3 DEF StartAgain, FileMoves
  <2> QED BY <1>3, <2>1, <2>2, OpeningMoves
<1>4. ASSUME NEW p \in Processes, BeginImmediate(p)
      PROVE  FileInv' /\ FileMoves
  BY <1>2, <1>4 DEF BeginImmediate, FileMoves
<1>5. ASSUME NEW p \in Processes, CommitOpen(p)
      PROVE  FileInv' /\ FileMoves
  <2>1. opener[p].at = "inside" /\ At(p, "open") /\ decides' = decides
    BY <1>5 DEF CommitOpen
  <2>2. file' = "ready" /\ (file = "ready" \/ Initializes(p))
    BY <1>5 DEF CommitOpen, Accepts
  <2>3. Initializes(p) => file \in {"empty", "ready"}
    BY DEF Initializes, FileInv, CreatedHere
  <2>4. FileMoves
    BY <2>2, <2>3 DEF FileMoves
  <2> QED BY <1>2, <2>1, <2>2, <2>4
<1>6. ASSUME NEW p \in Processes, RefuseFile(p) \/ LockTimeout(p) \/ Die(p)
      PROVE  FileInv' /\ FileMoves
  BY <1>3, <1>6 DEF RefuseFile, LockTimeout, Die, FileMoves
<1>8. ASSUME NEW p \in Processes, LeaveWal(p)
      PROVE  FileInv' /\ FileMoves
  BY <1>8 DEF LeaveWal, FileInv, FileTypeOK, CreatedHere, OpenIsReady, FileMoves
<1>7. CASE UNCHANGED fileVars
  BY <1>7 DEF fileVars, FileInv, FileTypeOK, CreatedHere, OpenIsReady, FileMoves
<1> QED BY <1>1, <1>4, <1>5, <1>6, <1>7, <1>8 DEF FileNext, Work

(* Files, openings and what each opening knows hold together always.       *)
THEOREM FileInvariant == FileSpec => []FileInv
<1>1. FileInit => FileInv
  BY DEF FileInit, FileInv, FileTypeOK, CreatedHere, OpenIsReady, Start, Opener, Places
<1>2. FileInv /\ [FileNext]_fileVars => FileInv'
  BY FileStep
<1> QED BY <1>1, <1>2, PTL DEF FileSpec

(* Whoever was given a store finds the schema in its file.                 *)
THEOREM OpenedIsReady == FileSpec => []OpenIsReady
<1>1. FileInv => OpenIsReady
  BY DEF FileInv
<1> QED BY <1>1, FileInvariant, PTL

(* The database of another program is never taken over, and the stores     *)
(* that decide by the content leave its header alone as well.              *)
THEOREM ForeignNotTaken == FileSpec => ForeignUntouched
<1>1. ASSUME [FileNext]_fileVars, decides = "content" PROVE journal' = journal
  BY <1>1 DEF FileNext, Work, CreateFile, LeaveWal, BeginImmediate, CommitOpen, RefuseFile,
              LockTimeout, Die, fileVars
<1>2. FileInv /\ [FileNext]_fileVars =>
        [file = "foreign" => /\ file' = "foreign"
                             /\ decides = "content" => journal' = journal]_fileVars
  BY <1>1, FileStep DEF FileMoves
<1> QED BY <1>2, FileInvariant, PTL DEF FileSpec, ForeignUntouched

-----------------------------------------------------------------------------
(***************************************************************************)
(* The outputs of the commands                                             *)
(***************************************************************************)

File == [by : Makers, part : {1, 2}, whole : BOOLEAN]
Maker == [kind : Kinds, paths : Seq(Paths), part : {1, 2}, left : BOOLEAN,
          at : {"idle", "look", "create", "write", "undo", "made", "failed"}]

OutputsTyped == disk \in [Paths -> File \cup {NoFile}] /\ maker \in [Makers -> Maker]

(* An output has a path of its own.                                        *)
Fits(w) ==
  w.at # "idle" => /\ Len(w.paths) \in {1, 2} /\ w.part <= Len(w.paths)
                   /\ Len(w.paths) = 2 => w.paths[1] # w.paths[2]
                   /\ w.at = "look" => w.part = 1

(* The parts of which a maker has a file, and those that it has written.   *)
Held(w) ==
  {i \in {1, 2} : \/ w.at = "create" /\ i < w.part
                  \/ w.at \in {"write", "undo"} /\ i <= w.part
                  \/ w.at = "made" /\ i <= Len(w.paths)}
Written(w) == {i \in Held(w) : w.at = "made" \/ (w.at \in {"create", "write"} /\ i < w.part)}

(* A file that a maker holds nobody else takes away: nobody else holds it. *)
Holds(m, w) ==
  \A i \in Held(w) : /\ Own(m, w.paths[i]) /\ disk[w.paths[i]].part = i
                     /\ i \in Written(w) => disk[w.paths[i]].whole

(* It has no other ones, unless it left some.                              *)
HoldsOnly(m, w) ==
  ~w.left => \A p \in Paths : Own(m, p) => \E i \in Held(w) : w.paths[i] = p

OutputsInv ==
  /\ OutputsTyped
  /\ \A m \in Makers : Fits(maker[m]) /\ Holds(m, maker[m]) /\ HoldsOnly(m, maker[m])

(* One maker moves on; a file that another one owns stays, and no other    *)
(* gets one.                                                               *)
MovesTo(m, w) ==
  /\ maker' = [maker EXCEPT ![m] = w]
  /\ disk' \in [Paths -> File \cup {NoFile}]
  /\ \A p \in Paths :
       \/ disk'[p] = disk[p]
       \/ (Own(m, p) \/ disk[p] = NoFile) /\ (disk'[p] = NoFile \/ disk'[p].by = m)
  /\ Fits(w)

LEMMA MakerMoves ==
  ASSUME OutputsInv, NEW m \in Makers, NEW w \in Maker, MovesTo(m, w),
         Holds(m, w)', HoldsOnly(m, w)'
  PROVE  OutputsInv'
<1>1. OutputsTyped' /\ maker'[m] = w /\ \A n \in Makers : n # m => maker'[n] = maker[n]
  BY DEF MovesTo, OutputsInv, OutputsTyped
<1>2. ASSUME NEW n \in Makers, n # m, NEW p \in Paths
      PROVE  (Own(n, p)' <=> Own(n, p)) /\ (Own(n, p) => disk'[p] = disk[p])
  <2>1. CASE disk'[p] = disk[p]
    BY <2>1 DEF Own
  <2>2. CASE /\ Own(m, p) \/ disk[p] = NoFile
             /\ disk'[p] = NoFile \/ disk'[p].by = m
    BY <1>2, <2>2 DEF Own
  <2> QED BY <2>1, <2>2 DEF MovesTo
<1>3. ASSUME NEW n \in Makers, n # m
      PROVE  Fits(maker[n])' /\ Holds(n, maker[n])' /\ HoldsOnly(n, maker[n])'
  <2>1. Fits(maker[n]) /\ Holds(n, maker[n]) /\ HoldsOnly(n, maker[n]) /\ maker[n] \in Maker
    BY DEF OutputsInv, OutputsTyped
  <2>2. \A i \in Held(maker[n]) : maker[n].paths[i] \in Paths
    BY <2>1 DEF Maker, Held, Fits
  <2>3. Fits(maker[n])'
    BY <1>1, <1>3, <2>1 DEF Fits
  <2>4. Holds(n, maker[n])'
    BY <1>1, <1>2, <1>3, <2>1, <2>2 DEF Holds, Held, Written
  <2>5. HoldsOnly(n, maker[n])'
    BY <1>1, <1>2, <1>3, <2>1 DEF HoldsOnly, Held
  <2> QED BY <2>3, <2>4, <2>5
<1>4. Fits(maker[m])' /\ Holds(m, maker[m])' /\ HoldsOnly(m, maker[m])'
  BY <1>1 DEF MovesTo, Fits, Holds, HoldsOnly, Held, Written, Own
<1> QED BY <1>1, <1>3, <1>4 DEF OutputsInv

(* A maker of which no file changes.                                       *)
LEMMA MakerTurns ==
  ASSUME OutputsInv, NEW m \in Makers, NEW w \in Maker, maker' = [maker EXCEPT ![m] = w],
         UNCHANGED disk, Fits(w), Holds(m, w), HoldsOnly(m, w)
  PROVE  OutputsInv'
<1>1. Holds(m, w)' /\ HoldsOnly(m, w)'
  BY DEF Holds, HoldsOnly, Held, Written, Own
<1>2. MovesTo(m, w)
  BY DEF MovesTo, OutputsInv, OutputsTyped
<1> QED BY <1>1, <1>2, MakerMoves

LEMMA MakeKeeps ==
  ASSUME OutputsInv, NEW m \in Makers, NEW kind \in Kinds, NEW paths \in Outputs(kind),
         Make(m, kind, paths)
  PROVE  OutputsInv'
<1> DEFINE w == [kind |-> kind, paths |-> paths, part |-> 1, left |-> maker[m].left,
                 at |-> IF LooksFirst(kind) THEN "look" ELSE "create"]
<1>1. maker[m] \in Maker /\ maker[m].at \in {"idle", "failed"} /\ HoldsOnly(m, maker[m])
  BY DEF Make, OutputsInv, OutputsTyped
<1>2. /\ paths \in Seq(Paths) /\ Len(paths) \in {1, 2}
      /\ Len(paths) = 2 => paths[1] # paths[2]
  <2>1. CASE kind = "identity"
    <3>1. PICK p \in Paths, q \in Paths : paths = <<p, q>> /\ p # q
      BY <2>1 DEF Outputs
    <3> QED BY <3>1
  <2>2. CASE kind # "identity"
    <3>1. PICK p \in Paths : paths = <<p>>
      BY <2>2 DEF Outputs
    <3> QED BY <3>1
  <2> QED BY <2>1, <2>2
<1>7. /\ w.kind = kind /\ w.paths = paths /\ w.part = 1 /\ w.at \in {"look", "create"}
      /\ w \in Maker
  BY <1>1, <1>2 DEF Maker
<1>4. maker' = [maker EXCEPT ![m] = w] /\ UNCHANGED disk
  BY DEF Make
<1>5. Held(maker[m]) = {} /\ w.left = maker[m].left
  BY <1>1 DEF Held
<1> HIDE DEF w
<1>8. Len(w.paths) >= 1
  BY <1>2, <1>7
<1>9. Fits(w)
  BY <1>2, <1>7, <1>8 DEF Fits
<1>3. w \in Maker /\ Fits(w) /\ Held(w) = {}
  BY <1>7, <1>9 DEF Held
<1>6. Holds(m, w) /\ HoldsOnly(m, w)
  BY <1>1, <1>3, <1>5 DEF Holds, HoldsOnly
<1> QED BY <1>3, <1>4, <1>6, MakerTurns

(* A maker goes on with the files that it holds, or leaves them.           *)
GoesOn(m, w) ==
  /\ maker' = [maker EXCEPT ![m] = w] /\ UNCHANGED disk
  /\ maker[m].at # "idle" /\ w.at \notin {"idle", "look"}
  /\ w.paths = maker[m].paths /\ w.part <= maker[m].part
  /\ maker[m].left => w.left
  /\ Held(w) \subseteq Held(maker[m]) /\ Written(w) \subseteq Written(maker[m])
  /\ \/ Held(w) = Held(maker[m])
     \/ w.left
     \/ \A p \in Paths : ~Own(m, p)

LEMMA MakerGoes ==
  ASSUME OutputsInv, NEW m \in Makers, NEW w \in Maker, GoesOn(m, w)
  PROVE  OutputsInv'
<1>1. /\ maker[m] \in Maker /\ Fits(maker[m]) /\ Holds(m, maker[m]) /\ HoldsOnly(m, maker[m])
  BY DEF OutputsInv, OutputsTyped
<1>2. Fits(w)
  BY <1>1 DEF GoesOn, Fits, Maker
<1>3. Holds(m, w)
  BY <1>1 DEF GoesOn, Holds
<1>4. HoldsOnly(m, w)
  BY <1>1 DEF GoesOn, HoldsOnly
<1> QED BY <1>2, <1>3, <1>4, MakerTurns DEF GoesOn

LEMMA LookKeeps ==
  ASSUME OutputsInv, NEW m \in Makers, Look(m)
  PROVE  OutputsInv'
<1>1. maker[m] \in Maker /\ maker[m].at = "look" /\ maker[m].part = 1
  BY DEF Look, OutputsInv, OutputsTyped, Fits
<1>2. PICK place \in {"create", "failed"} : maker' = [maker EXCEPT ![m].at = place]
  BY DEF Look, Go
<1> DEFINE w == [maker[m] EXCEPT !.at = place]
<1>3. /\ w \in Maker /\ w.at = place /\ w.paths = maker[m].paths /\ w.part = 1
      /\ w.left = maker[m].left
  BY <1>1 DEF Maker
<1>4. maker' = [maker EXCEPT ![m] = w] /\ UNCHANGED disk
  BY <1>2 DEF Look
<1> HIDE DEF w
<1>5. Held(w) = {} /\ Held(maker[m]) = {} /\ Written(w) = {}
  BY <1>1, <1>3 DEF Held, Written
<1>6. GoesOn(m, w)
  BY <1>1, <1>3, <1>4, <1>5 DEF GoesOn
<1> QED BY <1>3, <1>6, MakerGoes

LEMMA OutputFailsKeeps ==
  ASSUME OutputsInv, NEW m \in Makers, CreateFails(m)
  PROVE  OutputsInv'
<1> DEFINE w == [maker[m] EXCEPT !.part = 1,
                                 !.at = IF maker[m].part = 1 THEN "failed" ELSE "undo"]
<1>1. maker[m] \in Maker /\ maker[m].at = "create"
  BY DEF CreateFails, OutputsInv, OutputsTyped
<1>2. /\ w \in Maker /\ w.at = (IF maker[m].part = 1 THEN "failed" ELSE "undo")
      /\ w.paths = maker[m].paths /\ w.part = 1 /\ w.left = maker[m].left
  BY <1>1 DEF Maker
<1>3. maker' = [maker EXCEPT ![m] = w] /\ UNCHANGED disk
  BY DEF CreateFails
<1> HIDE DEF w
<1>4. maker[m].part \in {1, 2}
  BY <1>1 DEF Maker
<1>5. Held(w) = Held(maker[m]) /\ Written(w) = {}
  BY <1>1, <1>2, <1>4 DEF Held, Written
<1>6. w.at \notin {"idle", "look"} /\ w.part <= maker[m].part
  BY <1>2, <1>4
<1>7. GoesOn(m, w)
  BY <1>1, <1>2, <1>3, <1>5, <1>6 DEF GoesOn
<1> QED BY <1>2, <1>7, MakerGoes

LEMMA WriteFailsKeeps ==
  ASSUME OutputsInv, NEW m \in Makers, NEW how, WriteFails(m, how)
  PROVE  OutputsInv'
<1>1. maker[m] \in Maker /\ maker[m].at = "write" /\ maker[m].part \in {1, 2} /\ UNCHANGED disk
  BY DEF WriteFails, OutputsInv, OutputsTyped, Maker
<1>2. CASE maker' = [maker EXCEPT ![m].at = "undo"]
  <2> DEFINE w == [maker[m] EXCEPT !.at = "undo"]
  <2>1. /\ w \in Maker /\ w.at = "undo" /\ w.paths = maker[m].paths /\ w.part = maker[m].part
        /\ w.left = maker[m].left
    BY <1>1 DEF Maker
  <2>2. maker' = [maker EXCEPT ![m] = w]
    BY <1>2
  <2> HIDE DEF w
  <2>3. Held(w) = Held(maker[m]) /\ Written(w) = {}
    BY <1>1, <2>1 DEF Held, Written
  <2>4. GoesOn(m, w)
    BY <1>1, <2>1, <2>2, <2>3 DEF GoesOn
  <2> QED BY <2>1, <2>4, MakerGoes
<1>3. CASE maker' = [maker EXCEPT ![m].at = "failed", ![m].left = TRUE]
  <2> DEFINE w == [maker[m] EXCEPT !.at = "failed", !.left = TRUE]
  <2>1. /\ w \in Maker /\ w.at = "failed" /\ w.paths = maker[m].paths /\ w.part = maker[m].part
        /\ w.left
    BY <1>1 DEF Maker
  <2>2. maker' = [maker EXCEPT ![m] = w]
    BY <1>3
  <2> HIDE DEF w
  <2>3. Held(w) = {} /\ Written(w) = {}
    BY <2>1 DEF Held, Written
  <2>4. GoesOn(m, w)
    BY <1>1, <2>1, <2>2, <2>3 DEF GoesOn
  <2> QED BY <2>1, <2>4, MakerGoes
<1> QED BY <1>2, <1>3 DEF WriteFails, Go

LEMMA KilledKeeps ==
  ASSUME OutputsInv, NEW m \in Makers, Killed(m)
  PROVE  OutputsInv'
<1> DEFINE owns == \E p \in Paths : Own(m, p)
           w == [maker[m] EXCEPT !.at = "failed", !.left = @ \/ owns]
<1>1. /\ maker[m] \in Maker /\ maker[m].at # "idle" /\ maker[m].part \in {1, 2}
      /\ maker[m].left \in BOOLEAN /\ UNCHANGED disk
  BY DEF Killed, OutputsInv, OutputsTyped, Maker
<1>2. maker' = [maker EXCEPT ![m] = w]
  BY DEF Killed
<1>3. (maker[m].left \/ owns) \in BOOLEAN
  OBVIOUS
<1> HIDE DEF owns
<1>4. /\ w \in Maker /\ w.at = "failed" /\ w.paths = maker[m].paths /\ w.part = maker[m].part
      /\ w.left = (maker[m].left \/ owns)
  BY <1>1, <1>3 DEF Maker
<1> HIDE DEF w
<1>5. Held(w) = {} /\ Written(w) = {}
  BY <1>4 DEF Held, Written
<1>6. maker[m].left => w.left
  BY <1>1, <1>4
<1>7. w.left \/ \A p \in Paths : ~Own(m, p)
  BY <1>4 DEF owns
<1>8. GoesOn(m, w)
  BY <1>1, <1>2, <1>4, <1>5, <1>6, <1>7 DEF GoesOn
<1> QED BY <1>4, <1>8, MakerGoes

(* What is held lies at different paths.                                   *)
LEMMA HeldApart ==
  ASSUME OutputsInv, NEW m \in Makers, maker[m].at # "idle"
  PROVE  /\ maker[m] \in Maker /\ maker[m].part \in {1, 2} /\ Name(m) \in Paths
         /\ \A i \in Held(maker[m]) : maker[m].paths[i] \in Paths
         /\ \A i \in Held(maker[m]) : i # maker[m].part => maker[m].paths[i] # Name(m)
<1>1. maker[m] \in Maker /\ Fits(maker[m]) /\ maker[m].part \in {1, 2}
  BY DEF OutputsInv, OutputsTyped, Maker
<1>2. maker[m].paths \in Seq(Paths) /\ Len(maker[m].paths) \in {1, 2}
      /\ maker[m].part <= Len(maker[m].paths)
      /\ (Len(maker[m].paths) = 2 => maker[m].paths[1] # maker[m].paths[2])
  BY <1>1 DEF Maker, Fits
<1>3. \A i \in Held(maker[m]) : i \in {1, 2} /\ i <= Len(maker[m].paths)
  BY <1>1, <1>2 DEF Held
<1>4. \A i \in {1, 2} : i <= Len(maker[m].paths) => maker[m].paths[i] \in Paths
  BY <1>2
<1>5. \A i, j \in {1, 2} : i # j /\ i <= Len(maker[m].paths) /\ j <= Len(maker[m].paths)
                           => maker[m].paths[i] # maker[m].paths[j]
  BY <1>2
<1> QED BY <1>1, <1>2, <1>3, <1>4, <1>5 DEF Name

LEMMA CreateOutputKeeps ==
  ASSUME OutputsInv, NEW m \in Makers, CreateOutput(m)
  PROVE  OutputsInv'
<1> DEFINE f == [by |-> m, part |-> maker[m].part, whole |-> FALSE]
<1>1. maker[m].at = "create" /\ disk[Name(m)] = NoFile
  BY DEF CreateOutput
<1>2. /\ maker[m] \in Maker /\ Fits(maker[m]) /\ Holds(m, maker[m]) /\ HoldsOnly(m, maker[m])
      /\ maker[m].part \in {1, 2} /\ Name(m) \in Paths
      /\ \A i \in Held(maker[m]) : maker[m].paths[i] \in Paths
      /\ disk \in [Paths -> File \cup {NoFile}]
  BY <1>1, HeldApart DEF OutputsInv, OutputsTyped
<1>3. PICK w \in Maker :
        /\ maker' = [maker EXCEPT ![m] = w] /\ w.at = "write"
        /\ w.paths = maker[m].paths /\ w.part = maker[m].part /\ w.left = maker[m].left
  <2> DEFINE w == [maker[m] EXCEPT !.at = "write"]
  <2>1. /\ w \in Maker /\ w.at = "write" /\ w.paths = maker[m].paths /\ w.part = maker[m].part
        /\ w.left = maker[m].left
    BY <1>2 DEF Maker
  <2>2. maker' = [maker EXCEPT ![m] = w]
    BY DEF CreateOutput, Go
  <2> QED BY <2>1, <2>2
<1>4. f \in File /\ f # NoFile /\ f.by = m /\ f.part = maker[m].part
  <2>1. f \in File
    BY <1>2 DEF File
  <2>2. NoFile \notin File
    BY NoFileIsNone DEF File
  <2> QED BY <2>1, <2>2
<1>5. disk' = [disk EXCEPT ![Name(m)] = f]
  BY DEF CreateOutput
<1>16. f.whole = FALSE
  OBVIOUS
<1> HIDE DEF f
<1>6. Held(w) = Held(maker[m]) \cup {w.part} /\ Written(w) = Held(maker[m])
      /\ Written(maker[m]) = Held(maker[m]) /\ w.part \notin Held(maker[m])
  BY <1>1, <1>2, <1>3 DEF Held, Written
<1>7. Fits(w)
  BY <1>1, <1>2, <1>3 DEF Fits
<1>8. w.paths[w.part] = Name(m)
  BY <1>3 DEF Name
<1>9. \A i \in Held(maker[m]) : maker[m].paths[i] # Name(m)
  BY <1>1, <1>2 DEF Holds, Own
<1>15. /\ disk'[Name(m)] = f
       /\ \A p \in Paths : p # Name(m) => disk'[p] = disk[p]
  BY <1>2, <1>5
<1>10. Holds(m, w)'
  <2> SUFFICES ASSUME NEW i \in Held(w)
               PROVE  /\ Own(m, w.paths[i])' /\ disk'[w.paths[i]].part = i
                      /\ i \in Written(w) => disk'[w.paths[i]].whole
    BY DEF Holds, Held, Written
  <2>1. CASE i = w.part
    BY <1>3, <1>4, <1>6, <1>8, <1>15, <2>1 DEF Own
  <2>2. CASE i \in Held(maker[m])
    <3>1. disk'[w.paths[i]] = disk[w.paths[i]]
      BY <1>2, <1>3, <1>9, <1>15, <2>2
    <3> QED BY <1>2, <1>3, <1>6, <2>2, <3>1 DEF Holds, Own
  <2> QED BY <1>6, <2>1, <2>2
<1>11. HoldsOnly(m, w)'
  <2> SUFFICES ASSUME ~w.left, NEW p \in Paths, Own(m, p)'
               PROVE  \E i \in Held(w) : w.paths[i] = p
    BY DEF HoldsOnly, Held
  <2>1. CASE p = Name(m)
    BY <1>6, <1>8, <2>1
  <2>2. CASE p # Name(m)
    BY <1>2, <1>3, <1>6, <1>15, <2>2 DEF HoldsOnly, Own
  <2> QED BY <2>1, <2>2
<1>12. \A p \in Paths : disk'[p] = disk[p] \/ (disk[p] = NoFile /\ disk'[p].by = m)
  BY <1>1, <1>2, <1>4, <1>5
<1>13. disk' \in [Paths -> File \cup {NoFile}]
  BY <1>2, <1>4, <1>5
<1>14. MovesTo(m, w)
  BY <1>3, <1>7, <1>12, <1>13 DEF MovesTo
<1> QED BY <1>3, <1>10, <1>11, <1>14, MakerMoves

LEMMA OneOfTwo == \A i, j \in {1, 2} : i < j => i = 1
  OBVIOUS

LEMMA WriteOutputKeeps ==
  ASSUME OutputsInv, NEW m \in Makers, WriteOutput(m)
  PROVE  OutputsInv'
<1>1. maker[m].at = "write"
  BY DEF WriteOutput
<1>2. /\ maker[m] \in Maker /\ Fits(maker[m]) /\ Holds(m, maker[m]) /\ HoldsOnly(m, maker[m])
      /\ maker[m].part \in {1, 2} /\ Name(m) \in Paths
      /\ \A i \in Held(maker[m]) : maker[m].paths[i] \in Paths
                                   /\ (i # maker[m].part => maker[m].paths[i] # Name(m))
      /\ disk \in [Paths -> File \cup {NoFile}]
  BY <1>1, HeldApart DEF OutputsInv, OutputsTyped
<1>3. maker[m].part \in Held(maker[m]) /\ maker[m].paths[maker[m].part] = Name(m)
  BY <1>1, <1>2 DEF Held, Name
<1>4. Own(m, Name(m)) /\ disk[Name(m)] \in File /\ disk[Name(m)].part = maker[m].part
  BY <1>2, <1>3 DEF Holds, Own
<1> DEFINE f == [disk[Name(m)] EXCEPT !.whole = TRUE]
<1>5. f \in File /\ f # NoFile /\ f.by = m /\ f.part = maker[m].part /\ f.whole
  BY <1>4, NoFileIsNone DEF File, Own
<1>6. disk' = [disk EXCEPT ![Name(m)] = f]
  BY <1>4 DEF WriteOutput
<1>7. Len(maker[m].paths) \in {1, 2} /\ maker[m].part <= Len(maker[m].paths)
  BY <1>1, <1>2 DEF Fits
<1>8. PICK w \in Maker :
        /\ maker' = [maker EXCEPT ![m] = w] /\ w.paths = maker[m].paths /\ w.left = maker[m].left
        /\ \/ maker[m].part < Len(maker[m].paths) /\ w.part = 2 /\ w.at = "create"
           \/ maker[m].part = Len(maker[m].paths) /\ w.part = maker[m].part /\ w.at = "made"
  <2>1. CASE maker[m].part < Len(maker[m].paths)
    <3> DEFINE w == [maker[m] EXCEPT !.part = 2, !.at = "create"]
    <3>1. maker[m].part = 1
      BY <1>2, <1>7, <2>1, OneOfTwo
    <3>2. w \in Maker /\ w.paths = maker[m].paths /\ w.left = maker[m].left /\ w.part = 2
          /\ w.at = "create"
      BY <1>2, <3>1 DEF Maker
    <3>3. maker' = [maker EXCEPT ![m] = w]
      <4>1. maker' = [maker EXCEPT ![m].part = maker[m].part + 1, ![m].at = "create"]
        BY <2>1 DEF WriteOutput
      <4>2. maker[m].part + 1 = 2
        BY <3>1
      <4> QED BY <4>1, <4>2, Zenon
    <3> QED BY <2>1, <3>2, <3>3
  <2>2. CASE ~(maker[m].part < Len(maker[m].paths))
    <3> DEFINE w == [maker[m] EXCEPT !.at = "made"]
    <3>1. maker[m].part = Len(maker[m].paths)
      BY <1>2, <1>7, <2>2
    <3>2. w \in Maker /\ w.paths = maker[m].paths /\ w.left = maker[m].left
          /\ w.part = maker[m].part /\ w.at = "made"
      BY <1>2 DEF Maker
    <3>3. maker' = [maker EXCEPT ![m] = w]
      BY <2>2 DEF WriteOutput, Go
    <3> QED BY <3>1, <3>2, <3>3
  <2> QED BY <2>1, <2>2
<1> HIDE DEF f
<1>9. Held(w) = Held(maker[m]) /\ Written(w) = Written(maker[m]) \cup {maker[m].part}
  <2>1. /\ Held(maker[m]) = {i \in {1, 2} : i <= maker[m].part}
        /\ Written(maker[m]) = {i \in {1, 2} : i < maker[m].part}
    BY <1>1, <1>2 DEF Held, Written
  <2>2. CASE maker[m].part < Len(maker[m].paths) /\ w.part = 2 /\ w.at = "create"
    <3>1. maker[m].part = 1
      BY <1>2, <1>7, <2>2, OneOfTwo
    <3>2. Held(w) = {1} /\ Written(w) = {1}
      BY <2>2 DEF Held, Written
    <3> QED BY <2>1, <3>1, <3>2
  <2>3. CASE maker[m].part = Len(maker[m].paths) /\ w.part = maker[m].part /\ w.at = "made"
    <3>1. Held(w) = {i \in {1, 2} : i <= maker[m].part} /\ Written(w) = Held(w)
      BY <1>8, <2>3 DEF Held, Written
    <3> QED BY <1>2, <2>1, <3>1
  <2> QED BY <1>8, <2>2, <2>3
<1>10. Fits(w)
  BY <1>1, <1>2, <1>7, <1>8 DEF Fits
<1>11. \A i \in Held(maker[m]) : \/ disk'[w.paths[i]] = f /\ i = maker[m].part
                                 \/ disk'[w.paths[i]] = disk[w.paths[i]] /\ i # maker[m].part
  BY <1>2, <1>3, <1>6, <1>8
<1>12. Holds(m, w)'
  BY <1>2, <1>5, <1>8, <1>9, <1>11 DEF Holds, Own
<1>13. \A p \in Paths : Own(m, p)' <=> Own(m, p)
  BY <1>2, <1>4, <1>5, <1>6 DEF Own
<1>14. HoldsOnly(m, w)'
  BY <1>2, <1>8, <1>9, <1>13 DEF HoldsOnly
<1>15. \A p \in Paths : disk'[p] = disk[p] \/ (Own(m, p) /\ disk'[p].by = m)
  BY <1>2, <1>4, <1>5, <1>6
<1>16. disk' \in [Paths -> File \cup {NoFile}]
  BY <1>2, <1>5, <1>6
<1>17. MovesTo(m, w)
  BY <1>8, <1>10, <1>15, <1>16 DEF MovesTo
<1> QED BY <1>12, <1>14, <1>17, MakerMoves

LEMMA UndoKeeps ==
  ASSUME OutputsInv, NEW m \in Makers, Undo(m)
  PROVE  OutputsInv'
<1>1. maker[m].at = "undo"
  BY DEF Undo
<1>2. /\ maker[m] \in Maker /\ Fits(maker[m]) /\ Holds(m, maker[m]) /\ HoldsOnly(m, maker[m])
      /\ maker[m].part \in {1, 2} /\ Name(m) \in Paths /\ maker[m].left \in BOOLEAN
      /\ \A i \in Held(maker[m]) : maker[m].paths[i] \in Paths
                                   /\ (i # maker[m].part => maker[m].paths[i] # Name(m))
      /\ disk \in [Paths -> File \cup {NoFile}]
  BY <1>1, HeldApart DEF OutputsInv, OutputsTyped, Maker
<1>3. maker[m].part \in Held(maker[m]) /\ maker[m].paths[maker[m].part] = Name(m)
  BY <1>1, <1>2 DEF Held, Name
<1>4. Own(m, Name(m))
  BY <1>2, <1>3 DEF Holds
<1> DEFINE Undone(left) == [maker[m] EXCEPT !.part = 1, !.left = @ \/ left,
                                 !.at = IF maker[m].part = 1 THEN "failed" ELSE "undo"]
<1>5. ASSUME NEW left \in BOOLEAN
      PROVE  /\ Undone(left) \in Maker /\ Undone(left).paths = maker[m].paths
             /\ Undone(left).part = 1 /\ Undone(left).left = (maker[m].left \/ left)
             /\ Undone(left).at = IF maker[m].part = 1 THEN "failed" ELSE "undo"
  <2> DEFINE l == maker[m].left \/ left
             w == [maker[m] EXCEPT !.part = 1, !.left = l,
                                   !.at = IF maker[m].part = 1 THEN "failed" ELSE "undo"]
  <2>1. l \in BOOLEAN
    OBVIOUS
  <2> HIDE DEF l
  <2>2. w \in Maker /\ w.paths = maker[m].paths /\ w.part = 1 /\ w.left = l
        /\ w.at = IF maker[m].part = 1 THEN "failed" ELSE "undo"
    BY <1>2, <2>1 DEF Maker
  <2> QED BY <2>2 DEF l
<1>9. \/ disk' = [disk EXCEPT ![Name(m)] = NoFile] /\ maker' = [maker EXCEPT ![m] = Undone(FALSE)]
      \/ UNCHANGED disk /\ maker' = [maker EXCEPT ![m] = Undone(TRUE)]
  <2>1. Own(m, Name(m)) = TRUE
    BY <1>4 DEF Own
  <2> QED BY <1>2, <2>1 DEF Undo
<1> HIDE DEF Undone
<1>6. ASSUME NEW w \in Maker, w.part = 1, w.paths = maker[m].paths,
             w.at = IF maker[m].part = 1 THEN "failed" ELSE "undo"
      PROVE  /\ Fits(w) /\ Held(w) = Held(maker[m]) \ {maker[m].part} /\ Written(w) = {}
             /\ w.at \notin {"idle", "look"} /\ w.part <= maker[m].part
  <2>1. w.at \in {"failed", "undo"} /\ w.part <= maker[m].part
    BY <1>2, <1>6
  <2>2. Held(w) = Held(maker[m]) \ {maker[m].part} /\ Written(w) = {}
    BY <1>1, <1>2, <1>6 DEF Held, Written
  <2>3. Fits(w)
    BY <1>1, <1>2, <1>6, <2>1 DEF Fits
  <2> QED BY <2>1, <2>2, <2>3
<1>7. CASE disk' = [disk EXCEPT ![Name(m)] = NoFile] /\ maker' = [maker EXCEPT ![m] = Undone(FALSE)]
  <2>1. PICK w \in Maker :
               /\ maker' = [maker EXCEPT ![m] = w] /\ w.paths = maker[m].paths /\ w.part = 1
               /\ w.left = (maker[m].left \/ FALSE)
               /\ w.at = IF maker[m].part = 1 THEN "failed" ELSE "undo"
    BY <1>5, <1>7
  <2>2. Fits(w) /\ Held(w) = Held(maker[m]) \ {maker[m].part} /\ Written(w) = {}
    BY <1>6, <2>1
  <2>3. Holds(m, w)'
    BY <1>2, <1>7, <2>1, <2>2 DEF Holds, Own
  <2>4. HoldsOnly(m, w)'
    BY <1>2, <1>3, <1>7, <2>1, <2>2 DEF HoldsOnly, Own
  <2>5. \A p \in Paths : disk'[p] = disk[p] \/ (Own(m, p) /\ disk'[p] = NoFile)
    BY <1>2, <1>4, <1>7
  <2>6. disk' \in [Paths -> File \cup {NoFile}]
    BY <1>2, <1>7
  <2>7. MovesTo(m, w)
    BY <2>1, <2>2, <2>5, <2>6 DEF MovesTo
  <2> QED BY <2>1, <2>3, <2>4, <2>7, MakerMoves
<1>8. CASE UNCHANGED disk /\ maker' = [maker EXCEPT ![m] = Undone(TRUE)]
  <2>1. PICK w \in Maker :
               /\ maker' = [maker EXCEPT ![m] = w] /\ w.paths = maker[m].paths /\ w.part = 1
               /\ w.left = (maker[m].left \/ TRUE)
               /\ w.at = IF maker[m].part = 1 THEN "failed" ELSE "undo"
    BY <1>5, <1>8
  <2>2. /\ Held(w) = Held(maker[m]) \ {maker[m].part} /\ Written(w) = {}
        /\ w.at \notin {"idle", "look"} /\ w.part <= maker[m].part
    BY <1>6, <2>1
  <2>3. GoesOn(m, w)
    BY <1>1, <1>8, <2>1, <2>2 DEF GoesOn
  <2> QED BY <2>1, <2>3, MakerGoes
<1> QED BY <1>7, <1>8, <1>9

(* A command owns exactly the files it created and has not removed again,  *)
(* whole where it has written them, unless it died or was interrupted.     *)
THEOREM OutputsHold == OutputSpec => []OutputsInv
<1>1. OutputInit => OutputsInv
  <2> SUFFICES ASSUME OutputInit PROVE OutputsInv
    OBVIOUS
  <2>1. Idle \in Maker /\ Idle.at = "idle"
    BY DEF Idle, Maker, Kinds
  <2>2. Held(Idle) = {} /\ Fits(Idle)
    BY <2>1 DEF Held, Fits
  <2> QED BY <2>1, <2>2 DEF OutputInit, OutputsInv, OutputsTyped, Holds, HoldsOnly, Own
<1>2. OutputsInv /\ [OutputNext]_outputVars => OutputsInv'
  <2> SUFFICES ASSUME OutputsInv, [OutputNext]_outputVars PROVE OutputsInv'
    OBVIOUS
  <2>1. CASE UNCHANGED outputVars
    BY <2>1 DEF outputVars, OutputsInv, OutputsTyped, Fits, Holds, HoldsOnly, Held, Written, Own
  <2>2. ASSUME NEW m \in Makers, NEW kind \in Kinds, NEW paths \in Outputs(kind),
               Make(m, kind, paths)
        PROVE  OutputsInv'
    BY <2>2, MakeKeeps
  <2>3. ASSUME NEW m \in Makers,
               \/ Look(m) \/ CreateOutput(m) \/ CreateFails(m) \/ WriteOutput(m)
               \/ \E how \in Failures : WriteFails(m, how)
               \/ Undo(m) \/ Killed(m)
        PROVE  OutputsInv'
    BY <2>3, LookKeeps, CreateOutputKeeps, OutputFailsKeeps, WriteOutputKeeps, WriteFailsKeeps,
       UndoKeeps, KilledKeeps
  <2> QED BY <2>1, <2>2, <2>3 DEF OutputNext
<1> QED BY <1>1, <1>2, PTL DEF OutputSpec

(* What a command said it wrote stays, complete and of one making, however *)
(* many others write to the same paths and roll back by name.              *)
THEOREM OutputsStand == OutputSpec => []MadeStands
<1>1. OutputsInv => MadeStands
  <2> SUFFICES ASSUME OutputsInv, NEW m \in Makers, maker[m].at = "made",
                      NEW i \in DOMAIN maker[m].paths
               PROVE  disk[maker[m].paths[i]] = [by |-> m, part |-> i, whole |-> TRUE]
    BY DEF MadeStands
  <2>1. /\ maker[m] \in Maker /\ Fits(maker[m]) /\ Holds(m, maker[m])
        /\ disk \in [Paths -> File \cup {NoFile}]
    BY DEF OutputsInv, OutputsTyped
  <2>2. /\ maker[m].paths \in Seq(Paths) /\ Len(maker[m].paths) \in {1, 2}
    BY <2>1 DEF Fits, Maker
  <2>3. i \in {1, 2} /\ i <= Len(maker[m].paths) /\ maker[m].paths[i] \in Paths
    BY <2>2
  <2>4. i \in Held(maker[m]) /\ i \in Written(maker[m])
    BY <2>3 DEF Held, Written
  <2>5. /\ disk[maker[m].paths[i]] \in File /\ disk[maker[m].paths[i]].by = m
        /\ disk[maker[m].paths[i]].part = i /\ disk[maker[m].paths[i]].whole
    BY <2>1, <2>3, <2>4 DEF Holds, Own
  <2> QED BY <2>5 DEF File
<1> QED BY <1>1, OutputsHold, PTL

(* A command that failed, and did not say otherwise, left nothing.         *)
THEOREM FailuresLeaveNothing == OutputSpec => []NothingLeft
<1>1. OutputsInv => NothingLeft
  BY DEF OutputsInv, NothingLeft, HoldsOnly, Held
<1> QED BY <1>1, OutputsHold, PTL

-----------------------------------------------------------------------------
(***************************************************************************)
(* The companion                                                           *)
(***************************************************************************)

(* A request that a client has not sent yet is nowhere.  Without this a    *)
(* client could put back a request that a handler is at work on.           *)
UnsentIsNowhere ==
  \A c \in Clients, n \in 1..MaxRequests :
     n > client[c].sent => request[<<c, n>>] = "none"

CompanionInv == CompanionTypeOK /\ UnsentIsNowhere /\ OneAtATime

LEMMA CompanionInitially == CompanionInit => CompanionInv
<1> SUFFICES ASSUME CompanionInit PROVE CompanionInv
  OBVIOUS
<1>1. CompanionTypeOK
  <2>1. [at |-> "idle", sent |-> 0] \in Client /\ "none" \in Stages
    BY CompanionConstants DEF Client, Stages
  <2> QED BY <2>1 DEF CompanionInit, CompanionTypeOK
<1>2. UnsentIsNowhere
  BY DEF CompanionInit, UnsentIsNowhere, Requests
<1>3. OneAtATime
  BY DEF CompanionInit, OneAtATime, Inside
<1> QED BY <1>1, <1>2, <1>3 DEF CompanionInv

(* A client sends its next request.                                        *)
LEMMA Sending ==
  ASSUME CompanionInv, NEW c \in Clients, NEW what \in {"hello", "operation"},
         SendRequest(c, what)
  PROVE  CompanionInv'
<1> DEFINE n == client[c].sent + 1
           r == <<c, n>>
<1>1. client[c].sent \in 0..MaxRequests /\ n \in 1..MaxRequests /\ n > client[c].sent
  BY CompanionConstants DEF SendRequest, CompanionInv, CompanionTypeOK, Client
<1>2. r \in Requests /\ request[r] = "none"
  BY <1>1 DEF CompanionInv, UnsentIsNowhere, Requests
<1>3. client' = [client EXCEPT ![c] = [at |-> what, sent |-> n]]
  BY DEF SendRequest
<1>4. request' = [request EXCEPT ![r] = "sent"] /\ busy' = busy
  BY DEF SendRequest, Move
<1> HIDE DEF r
<1>5. CompanionTypeOK'
  BY <1>1, <1>2, <1>3, <1>4 DEF CompanionInv, CompanionTypeOK, Client, Stages
<1>6. UnsentIsNowhere'
  <2> SUFFICES ASSUME NEW d \in Clients, NEW k \in 1..MaxRequests, k > client'[d].sent
               PROVE  request'[<<d, k>>] = "none"
    BY DEF UnsentIsNowhere
  <2>1. <<d, k>> # r
    BY <1>1, <1>3 DEF CompanionInv, CompanionTypeOK, r
  <2>2. k > client[d].sent
    BY <1>1, <1>3 DEF CompanionInv, CompanionTypeOK
  <2>3. <<d, k>> \in Requests
    BY DEF Requests
  <2> QED BY <1>4, <2>1, <2>2, <2>3 DEF CompanionInv, CompanionTypeOK, UnsentIsNowhere
<1>7. Inside' = Inside
  BY <1>2, <1>4 DEF CompanionInv, CompanionTypeOK, Inside
<1> QED BY <1>4, <1>5, <1>6, <1>7 DEF CompanionInv, OneAtATime

(* The handler of a request moves on; it has been sent.                    *)
LEMMA Handling ==
  ASSUME CompanionInv, NEW r \in Requests, NEW stage \in Stages,
         request[r] # "none", Move(r, stage), client' = client, busy' \in BOOLEAN
  PROVE  CompanionTypeOK' /\ UnsentIsNowhere'
<1>1. request' = [request EXCEPT ![r] = stage]
  BY DEF Move
<1>2. CompanionTypeOK'
  BY <1>1 DEF CompanionInv, CompanionTypeOK
<1>3. UnsentIsNowhere'
  BY <1>1 DEF CompanionInv, CompanionTypeOK, UnsentIsNowhere, Requests
<1> QED BY <1>2, <1>3

LEMMA CompanionStep ==
  ASSUME CompanionInv, [CompanionNext]_companionVars
  PROVE  CompanionInv'
<1>1. ASSUME NEW c \in Clients, Call(c)
      PROVE  CompanionInv'
  <2>1. CASE BeginCall(c)
    BY <2>1, Sending DEF BeginCall
  <2>2. CASE ContinueCall(c)
    BY <2>2, Sending DEF ContinueCall
  <2>3. CASE EndCall(c)
    <3>1. client' = [client EXCEPT ![c].at = "idle"] /\ request' = request /\ busy' = busy
      BY <2>3 DEF EndCall
    <3>2. CompanionTypeOK'
      BY <3>1 DEF CompanionInv, CompanionTypeOK, Client
    <3>3. \A d \in Clients : client'[d].sent = client[d].sent
      BY <3>1 DEF CompanionInv, CompanionTypeOK, Client
    <3> QED BY <3>1, <3>2, <3>3 DEF CompanionInv, UnsentIsNowhere, OneAtATime, Inside
  <2> QED BY <1>1, <2>1, <2>2, <2>3 DEF Call
<1>2. ASSUME NEW r \in Requests, Admit(r)
      PROVE  CompanionInv'
  <2>1. CompanionTypeOK' /\ UnsentIsNowhere'
    BY <1>2, Handling DEF Admit, CompanionInv, CompanionTypeOK, Stages
  <2>2. CASE ~busy /\ busy' = TRUE /\ Move(r, "reading")
    <3>1. Inside = {} /\ Inside' = {r}
      BY <2>2 DEF CompanionInv, CompanionTypeOK, OneAtATime, Inside, Move
    <3> QED BY <2>1, <2>2, <3>1 DEF CompanionInv, OneAtATime
  <2>3. CASE busy' = busy /\ Move(r, "failed")
    <3>1. Inside' = Inside
      BY <1>2, <2>3 DEF Admit, CompanionInv, CompanionTypeOK, Inside, Move
    <3> QED BY <2>1, <2>3, <3>1 DEF CompanionInv, OneAtATime
  <2> QED BY <1>2, <2>2, <2>3 DEF Admit
<1>3. ASSUME NEW r \in Requests, Execute(r)
      PROVE  CompanionInv'
  <2>1. CompanionTypeOK' /\ UnsentIsNowhere'
    BY <1>3, Handling DEF Execute, CompanionInv, CompanionTypeOK, Stages
  <2>2. Inside' = Inside /\ busy' = busy
    BY <1>3 DEF Execute, CompanionInv, CompanionTypeOK, Inside, Move
  <2> QED BY <2>1, <2>2 DEF CompanionInv, OneAtATime
<1>4. ASSUME NEW r \in Requests, Respond(r)
      PROVE  CompanionInv'
  <2>1. r \in Inside /\ busy' = FALSE /\ client' = client
    BY <1>4 DEF Respond, Inside
  <2>2. Move(r, "ok") \/ Move(r, "failed")
    BY <1>4 DEF Respond
  <2>3. CompanionTypeOK' /\ UnsentIsNowhere'
    BY <2>1, <2>2, Handling DEF Inside, Stages
  <2>4. Inside' = {}
    BY <2>1, <2>2 DEF CompanionInv, CompanionTypeOK, OneAtATime, Inside, Move
  <2> QED BY <2>1, <2>3, <2>4 DEF CompanionInv, OneAtATime
<1>5. CASE Restart
  <2> DEFINE lost == {r \in Requests : request[r] \in {"sent", "reading", "executing"}}
  <2>1. /\ request' = [r \in Requests |-> IF r \in lost THEN "failed" ELSE request[r]]
        /\ busy' = FALSE /\ client' = client
    BY <1>5 DEF Restart
  <2>2. CompanionTypeOK'
    BY <2>1 DEF CompanionInv, CompanionTypeOK, Stages
  <2>3. UnsentIsNowhere'
    BY <2>1 DEF CompanionInv, UnsentIsNowhere, Requests
  <2>4. Inside' = {}
    BY <2>1 DEF Inside
  <2> QED BY <2>1, <2>2, <2>3, <2>4 DEF CompanionInv, OneAtATime
<1>6. CASE UNCHANGED companionVars
  BY <1>6 DEF companionVars, CompanionInv, CompanionTypeOK, UnsentIsNowhere, OneAtATime, Inside
<1> QED BY <1>1, <1>2, <1>3, <1>4, <1>5, <1>6 DEF CompanionNext

(* The types, the unsent requests and the flag hold together always.       *)
THEOREM CompanionInvariant == CompanionSpec => []CompanionInv
<1>1. CompanionInv /\ [CompanionNext]_companionVars => CompanionInv'
  BY CompanionStep
<1> QED BY <1>1, CompanionInitially, PTL DEF CompanionSpec

(* The flag is up exactly while one request is at work, and never two are. *)
THEOREM CompanionWorksOnOne == CompanionSpec => []OneAtATime
<1>1. CompanionInv => OneAtATime
  BY DEF CompanionInv
<1> QED BY <1>1, CompanionInvariant, PTL
=============================================================================
