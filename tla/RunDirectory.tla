---------------------------- MODULE RunDirectory ----------------------------
(***************************************************************************)
(* A run directory shared by concurrent launchers (src/core/storage.py):   *)
(* the publication of run.json and the allocation of attempt directories,  *)
(* one file-system call per step, with launchers that die between any two. *)
(*                                                                         *)
(* A launcher is one RunPaths object in one process.  The uuid it would    *)
(* mint as a run identity, and the one in the name of its pending file, is *)
(* the launcher itself.                                                    *)
(***************************************************************************)
EXTENDS Naturals

CONSTANTS
  Launchers,
  RunIds,      \* identities launchers ask for
  None,        \* no identity, no file, no task
  Unreadable,  \* a run.json with no identity this version supports
  TaskNames,
  MaxCalls     \* bound: calls of allocate_attempt or initialize per launcher

Identities == RunIds \cup Launchers

ASSUME NullsAreNoIds ==
  /\ None \notin Identities \cup TaskNames
  /\ Unreadable \notin Identities \cup {None}

ASSUME BoundIsNatural == MaxCalls \in Nat

VARIABLES
  marker,   \* what run.json identifies
  run_id,   \* the attribute of each launcher
  pc,       \* the next file-system call of each launcher
  task,     \* the task it allocates an attempt for; None: initialize alone
  number,   \* the attempt directory it tries to make, or made
  pending,  \* launchers whose pending file exists
  made,     \* attempt directories, with the launcher that made each
  filled,   \* attempt directories that have their subdirectories
  marks,    \* the contents of the .attempt.json files
  calls     \* how many calls each launcher made

attempts == <<made, filled, marks>>

dirVars == <<marker, run_id, pc, task, number, pending, attempts, calls>>

(* An earlier launch may have left a run.json. *)
DirInit ==
  /\ marker \in Identities \cup {None, Unreadable}
  /\ run_id \in [Launchers -> RunIds \cup {None}]
  /\ pc = [p \in Launchers |-> "idle"]
  /\ task = [p \in Launchers |-> None]
  /\ number = [p \in Launchers |-> 1]
  /\ pending = {}
  /\ made = {} /\ filled = {} /\ marks = {}
  /\ calls = [p \in Launchers |-> 0]

Goto(p, label) == pc' = [pc EXCEPT ![p] = label]

(* A call of initialize, or of allocate_attempt, which begins with one. *)
Call(p, t) ==
  /\ pc[p] = "idle"
  /\ calls[p] < MaxCalls
  /\ calls' = [calls EXCEPT ![p] = @ + 1]
  /\ task' = [task EXCEPT ![p] = t]
  /\ number' = [number EXCEPT ![p] = 1]
  /\ Goto(p, "look")
  /\ UNCHANGED <<marker, run_id, pending, attempts>>

-----------------------------------------------------------------------------
(* initialize *)

Agrees(p) == marker # Unreadable /\ run_id[p] \in {None, marker}

(* run.json exists: its identity is adopted, or the launcher gives up. *)
Adopt(p) ==
  /\ pc[p] = "look"
  /\ marker # None
  /\ IF Agrees(p)
     THEN run_id' = [run_id EXCEPT ![p] = marker] /\ Goto(p, "unlink")
     ELSE UNCHANGED run_id /\ Goto(p, "refuse")
  /\ UNCHANGED <<marker, task, number, pending, attempts, calls>>

(* It does not: a complete file is written beside it. *)
Prepare(p) ==
  /\ pc[p] = "look"
  /\ marker = None
  /\ pending' = pending \cup {p}
  /\ Goto(p, "link")
  /\ UNCHANGED <<marker, run_id, task, number, attempts, calls>>

Proposal(p) == IF run_id[p] = None THEN p ELSE run_id[p]

(* Defect: the pending file replaces whatever run.json is there. *)
BugLink(p) ==
  /\ pc[p] = "link"
  /\ marker' = Proposal(p)
  /\ run_id' = [run_id EXCEPT ![p] = Proposal(p)]
  /\ Goto(p, "unlink")
  /\ UNCHANGED <<task, number, pending, attempts, calls>>

(* os.link makes run.json unless it exists by now; then initialize starts  *)
(* over, within the call that still has to remove its pending file.        *)
Link(p) ==
  /\ pc[p] = "link"
  /\ IF marker = None
     THEN /\ marker' = Proposal(p)
          /\ run_id' = [run_id EXCEPT ![p] = Proposal(p)]
          /\ Goto(p, "unlink")
     ELSE UNCHANGED <<marker, run_id>> /\ Goto(p, "look")
  /\ UNCHANGED <<task, number, pending, attempts, calls>>

Unlink(p) ==
  /\ pc[p] \in {"unlink", "refuse"}
  /\ pending' = pending \ {p}
  /\ Goto(p, IF pc[p] = "refuse" THEN "failed"
             ELSE IF task[p] = None THEN "idle" ELSE "mkdir")
  /\ UNCHANGED <<marker, run_id, task, number, attempts, calls>>

-----------------------------------------------------------------------------
(* allocate_attempt *)

Directory(p) == [task |-> task[p], number |-> number[p]]

Makers(d) == {p \in Launchers : [directory |-> d, maker |-> p] \in made}

(* Defect: mkdir with exist_ok. *)
BugMkdir(p) ==
  /\ pc[p] = "mkdir"
  /\ made' = made \cup {[directory |-> Directory(p), maker |-> p]}
  /\ Goto(p, "fill")
  /\ UNCHANGED <<marker, run_id, task, number, pending, filled, marks, calls>>

(* Defect: the loop tries the same number again. *)
BugMkdirAgain(p) ==
  /\ pc[p] = "mkdir"
  /\ Makers(Directory(p)) = {}
  /\ made' = made \cup {[directory |-> Directory(p), maker |-> p]}
  /\ Goto(p, "fill")
  /\ UNCHANGED <<marker, run_id, task, number, pending, filled, marks, calls>>

(* One turn of the loop: the directory is made, or the next number tried. *)
Mkdir(p) ==
  /\ pc[p] = "mkdir"
  /\ IF Makers(Directory(p)) = {}
     THEN /\ made' = made \cup {[directory |-> Directory(p), maker |-> p]}
          /\ Goto(p, "fill")
          /\ UNCHANGED number
     ELSE /\ number' = [number EXCEPT ![p] = @ + 1]
          /\ UNCHANGED <<made, pc>>
  /\ UNCHANGED <<marker, run_id, task, pending, filled, marks, calls>>

Fill(p) ==
  /\ pc[p] = "fill"
  /\ filled' = filled \cup {Directory(p)}
  /\ Goto(p, "mark")
  /\ UNCHANGED <<marker, run_id, task, number, pending, made, marks, calls>>

(* .attempt.json is replaced atomically. *)
Mark(p) ==
  /\ pc[p] = "mark"
  /\ marks' = marks \cup {[directory |-> Directory(p), run |-> run_id[p]]}
  /\ Goto(p, "idle")
  /\ UNCHANGED <<marker, run_id, task, number, pending, made, filled, calls>>

(* The process dies between two file-system calls. *)
Die(p) ==
  /\ pc[p] \notin {"failed", "dead"}
  /\ Goto(p, "dead")
  /\ UNCHANGED <<marker, run_id, task, number, pending, attempts, calls>>

Step(p) ==
  Adopt(p) \/ Prepare(p) \/ Link(p) \/ Unlink(p) \/ Mkdir(p) \/ Fill(p) \/ Mark(p)

DirNext ==
  \E p \in Launchers : Step(p) \/ Die(p) \/ \E t \in TaskNames \cup {None} : Call(p, t)

DirSpec == DirInit /\ [][DirNext]_dirVars

(* A process that is not killed goes on with the call it is in. *)
LiveDirSpec == DirSpec /\ \A p \in Launchers : WF_dirVars(Step(p))

-----------------------------------------------------------------------------
(* locate_attempt of a path in directory d, for whom it may concern *)

Located(d) ==
  LET found == {m \in marks : m.directory = d}
  IN IF found = {} THEN "no attempt"
     ELSE IF \A m \in found : m.run = marker THEN "attempt"
     ELSE "conflict"

-----------------------------------------------------------------------------
Labels == {"idle", "look", "link", "unlink", "refuse", "mkdir", "fill", "mark",
           "failed", "dead"}

Directories == [task : TaskNames, number : Nat \ {0}]

(* The attributes of RunPaths and what the files may contain. *)
DirTypeOK ==
  /\ marker \in Identities \cup {None, Unreadable}
  /\ run_id \in [Launchers -> Identities \cup {None}]
  /\ pc \in [Launchers -> Labels]
  /\ task \in [Launchers -> TaskNames \cup {None}]
  /\ number \in [Launchers -> Nat \ {0}]
  /\ pending \subseteq Launchers
  /\ made \subseteq [directory : Directories, maker : Launchers]
  /\ filled \subseteq Directories
  /\ marks \subseteq [directory : Directories, run : Identities]
  /\ calls \in [Launchers -> Nat]
  /\ \A p \in Launchers : pc[p] \in {"mkdir", "fill", "mark"} => task[p] # None

Working(p) == pc[p] \in {"mkdir", "fill", "mark"}

(* Whoever got past initialize works under the identity in run.json,       *)
(* whatever launchers raced to publish theirs.                             *)
OneIdentity == \A p \in Launchers : Working(p) \/ pc[p] = "unlink" => run_id[p] = marker

(* An attempt directory has one maker, and only its maker works in it.     *)
OneMaker ==
  /\ \A m, n \in made : m.directory = n.directory => m = n
  /\ \A p \in Launchers : pc[p] \in {"fill", "mark"} => Makers(Directory(p)) = {p}
  /\ \A p, q \in Launchers :
       pc[p] \in {"fill", "mark"} /\ pc[q] \in {"fill", "mark"} /\ p # q
         => Directory(p) # Directory(q)

(* A directory that can be located is complete and belongs to this run, so *)
(* locate_attempt meets no conflict among attempts this run made; one that *)
(* was left by a dead launcher is not taken for an attempt.                *)
LocatedIsComplete ==
  \A m \in marks : m.directory \in filled /\ Located(m.directory) = "attempt"

(* Only a launcher that was killed leaves a pending file behind. *)
NoLitter ==
  \A p \in pending : pc[p] \notin {"idle", "failed"}

(* A launcher never trades the identity it asked for, or once adopted, for *)
(* another: it gives up instead.                                           *)
IdentityIsKept ==
  [][\A p \in Launchers : run_id[p] # None => run_id'[p] = run_id[p]]_dirVars

(* Every call returns or raises unless its process dies: the loops over    *)
(* run.json and over directory numbers end.                                *)
CallsEnd == \A p \in Launchers : pc[p] # "idle" ~> pc[p] \in {"idle", "failed", "dead"}

Identity ==
  INSTANCE RunIdentity WITH
    identity <- IF marker = Unreadable THEN None ELSE marker,
    known <- [p \in Launchers |->
                IF Working(p) \/ pc[p] = "unlink" THEN run_id[p] ELSE None]

(* Seen from the launchers inside a call, the races over run.json are one  *)
(* publication.                                                            *)
RefinesIdentity == Identity!IdentitySpec
=============================================================================
