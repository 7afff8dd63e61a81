------------------------- MODULE RunDirectory_proofs -------------------------
(***************************************************************************)
(* Theorems about run directories, for any number of launchers, identities *)
(* and calls.  Everything rests on one fact: run.json changes only from    *)
(* absent to an identity, so that what a launcher read of it stays true.   *)
(***************************************************************************)
EXTENDS RunDirectory, TLAPS

USE NullsAreNoIds

Inside(p) == Working(p) \/ pc[p] = "unlink"

(* Types are invariant only together with the identity: what is written to *)
(* .attempt.json is the run_id of a launcher past initialize.              *)
IdentityInv ==
  /\ DirTypeOK
  /\ \A p \in Launchers : Inside(p) => run_id[p] = marker /\ marker \in Identities

LEMMA IdentityInvInit == DirInit => IdentityInv
  BY DEF DirInit, IdentityInv, DirTypeOK, Labels, Identities, Inside, Working

LEMMA IdentityInvStep == IdentityInv /\ [DirNext]_dirVars => IdentityInv'
  <1> SUFFICES ASSUME IdentityInv, [DirNext]_dirVars PROVE IdentityInv'
    OBVIOUS
  <1> USE DEF IdentityInv, DirTypeOK, Goto, attempts, Inside, Working
  <1>1. ASSUME NEW p \in Launchers, NEW t \in TaskNames \cup {None}, Call(p, t)
        PROVE  IdentityInv'
    BY <1>1 DEF Call, Labels
  <1>2. ASSUME NEW p \in Launchers, Adopt(p) PROVE IdentityInv'
    BY <1>2 DEF Adopt, Agrees, Labels
  <1>3. ASSUME NEW p \in Launchers, Prepare(p) PROVE IdentityInv'
    BY <1>3 DEF Prepare, Labels
  <1>4. ASSUME NEW p \in Launchers, Link(p) PROVE IdentityInv'
    BY <1>4 DEF Link, Labels, Proposal, Identities
  <1>5. ASSUME NEW p \in Launchers, Unlink(p) PROVE IdentityInv'
    BY <1>5 DEF Unlink, Labels
  <1>6. ASSUME NEW p \in Launchers, Mkdir(p) PROVE IdentityInv'
    BY <1>6 DEF Mkdir, Labels, Directory, Directories
  <1>7. ASSUME NEW p \in Launchers, Fill(p) PROVE IdentityInv'
    BY <1>7 DEF Fill, Labels, Directory, Directories
  <1>8. ASSUME NEW p \in Launchers, Mark(p) PROVE IdentityInv'
    BY <1>8 DEF Mark, Labels, Directory, Directories
  <1>9. ASSUME NEW p \in Launchers, Die(p) PROVE IdentityInv'
    BY <1>9 DEF Die, Labels
  <1>10. CASE UNCHANGED dirVars
    BY <1>10 DEF dirVars
  <1>11. QED
    BY <1>1, <1>2, <1>3, <1>4, <1>5, <1>6, <1>7, <1>8, <1>9, <1>10
    DEF DirNext, Step

LEMMA IdentityInvAlways == DirSpec => []IdentityInv
  BY IdentityInvInit, IdentityInvStep, PTL DEF DirSpec

(* The attributes of RunPaths and the files have the types of DirTypeOK. *)
THEOREM DirTypeCorrect == DirSpec => []DirTypeOK
  BY IdentityInvAlways, PTL DEF IdentityInv

(* Launchers past initialize agree on the identity in run.json. *)
THEOREM LaunchersAgree == DirSpec => []OneIdentity
  <1>1. IdentityInv => OneIdentity
    BY DEF IdentityInv, OneIdentity, Inside
  <1>2. QED  BY <1>1, IdentityInvAlways, PTL

-----------------------------------------------------------------------------
(* A launcher that asked for an identity never works under another one. *)
THEOREM IdentitiesAreKept == DirSpec => IdentityIsKept
  <1>1. IdentityInv /\ [DirNext]_dirVars
          => [\A p \in Launchers : run_id[p] # None => run_id'[p] = run_id[p]]_dirVars
    <2> SUFFICES ASSUME IdentityInv, DirNext, NEW q \in Launchers, run_id[q] # None
                 PROVE  run_id'[q] = run_id[q]
      OBVIOUS
    <2>1. ASSUME NEW p \in Launchers, Adopt(p) PROVE run_id'[q] = run_id[q]
      BY <2>1 DEF Adopt, Agrees, IdentityInv, DirTypeOK
    <2>2. ASSUME NEW p \in Launchers, Link(p) PROVE run_id'[q] = run_id[q]
      BY <2>2 DEF Link, Proposal, IdentityInv, DirTypeOK
    <2>3. QED
      BY <2>1, <2>2 DEF DirNext, Step, Call, Prepare, Unlink, Mkdir, Fill, Mark, Die
  <1>2. QED  BY <1>1, IdentityInvAlways, PTL DEF DirSpec, IdentityIsKept

-----------------------------------------------------------------------------
(* Attempt directories *)

MakerInv ==
  /\ \A m, n \in made : m.directory = n.directory => m = n
  /\ \A p \in Launchers : pc[p] \in {"fill", "mark"} =>
       [directory |-> Directory(p), maker |-> p] \in made

LEMMA MakerInvStep ==
  IdentityInv /\ MakerInv /\ [DirNext]_dirVars => MakerInv'
  <1> SUFFICES ASSUME IdentityInv, MakerInv, [DirNext]_dirVars PROVE MakerInv'
    OBVIOUS
  <1> USE DEF MakerInv, Goto, attempts, Directory
  <1>0. DirTypeOK
    BY DEF IdentityInv
  <1>1. ASSUME NEW p \in Launchers, NEW t \in TaskNames \cup {None}, Call(p, t)
        PROVE  MakerInv'
    BY <1>0, <1>1 DEF Call, DirTypeOK
  <1>2. ASSUME NEW p \in Launchers, Adopt(p) \/ Prepare(p) \/ Link(p)
                                    \/ Unlink(p) \/ Fill(p) \/ Mark(p) \/ Die(p)
        PROVE  MakerInv'
    BY <1>0, <1>2 DEF Adopt, Prepare, Link, Unlink, Fill, Mark, Die, DirTypeOK
  <1>3. ASSUME NEW p \in Launchers, Mkdir(p) PROVE MakerInv'
    <2>1. CASE Makers(Directory(p)) = {}
      <3>1. \A m \in made : m.directory # Directory(p)
        BY <1>0, <2>1 DEF Makers, DirTypeOK
      <3>2. made' = made \cup {[directory |-> Directory(p), maker |-> p]}
        BY <1>3, <2>1 DEF Mkdir
      <3>3. QED  BY <1>0, <1>3, <2>1, <3>1, <3>2 DEF Mkdir, DirTypeOK
    <2>2. CASE Makers(Directory(p)) # {}
      BY <1>0, <1>3, <2>2 DEF Mkdir, DirTypeOK
    <2>3. QED  BY <2>1, <2>2
  <1>4. CASE UNCHANGED dirVars
    BY <1>4 DEF dirVars
  <1>5. QED  BY <1>1, <1>2, <1>3, <1>4 DEF DirNext, Step

(* Two launchers never work in one attempt directory. *)
THEOREM AttemptsHaveOneMaker == DirSpec => []OneMaker
  <1>1. DirInit => MakerInv
    BY DEF DirInit, MakerInv
  <1>2. IdentityInv /\ MakerInv => OneMaker
    <2> SUFFICES ASSUME IdentityInv, MakerInv PROVE OneMaker
      OBVIOUS
    <2>1. \A p \in Launchers : pc[p] \in {"fill", "mark"} => Makers(Directory(p)) = {p}
      BY DEF MakerInv, Makers
    <2>2. QED  BY <2>1 DEF OneMaker, MakerInv
  <1>3. QED  BY <1>1, <1>2, MakerInvStep, IdentityInvAlways, PTL DEF DirSpec

MarkInv ==
  /\ \A m \in marks : m.directory \in filled /\ m.run = marker
  /\ \A p \in Launchers : pc[p] = "mark" => Directory(p) \in filled

LEMMA MarkInvStep ==
  IdentityInv /\ MarkInv /\ [DirNext]_dirVars => MarkInv'
  <1> SUFFICES ASSUME IdentityInv, MarkInv, [DirNext]_dirVars PROVE MarkInv'
    OBVIOUS
  <1> USE DEF MarkInv, Goto, attempts, Directory
  <1>0. DirTypeOK
    BY DEF IdentityInv
  <1>1. ASSUME NEW p \in Launchers, NEW t \in TaskNames \cup {None}, Call(p, t)
        PROVE  MarkInv'
    BY <1>0, <1>1 DEF Call, DirTypeOK
  <1>2. ASSUME NEW p \in Launchers, Adopt(p) \/ Prepare(p) \/ Unlink(p)
                                    \/ Mkdir(p) \/ Fill(p) \/ Die(p)
        PROVE  MarkInv'
    BY <1>0, <1>2 DEF Adopt, Prepare, Unlink, Mkdir, Fill, Die, DirTypeOK
  <1>3. ASSUME NEW p \in Launchers, Link(p) PROVE MarkInv'
    <2>1. marker = None => marks = {}
      BY <1>0 DEF DirTypeOK
    <2>2. QED  BY <1>0, <1>3, <2>1 DEF Link, DirTypeOK
  <1>4. ASSUME NEW p \in Launchers, Mark(p) PROVE MarkInv'
    <2>1. run_id[p] = marker
      BY <1>4 DEF Mark, IdentityInv, Inside, Working
    <2>2. QED  BY <1>0, <1>4, <2>1 DEF Mark, DirTypeOK
  <1>5. CASE UNCHANGED dirVars
    BY <1>5 DEF dirVars
  <1>6. QED  BY <1>1, <1>2, <1>3, <1>4, <1>5 DEF DirNext, Step

(* An attempt that can be located is complete and of this run. *)
THEOREM LocatedAttemptsAreComplete == DirSpec => []LocatedIsComplete
  <1>1. DirInit => MarkInv
    BY DEF DirInit, MarkInv
  <1>2. MarkInv => LocatedIsComplete
    BY DEF MarkInv, LocatedIsComplete, Located
  <1>3. QED  BY <1>1, <1>2, MarkInvStep, IdentityInvAlways, PTL DEF DirSpec

-----------------------------------------------------------------------------
(* Only a launcher that was killed leaves a pending file behind. *)
THEOREM NoLitterIsLeft == DirSpec => []NoLitter
  <1> DEFINE Inv == \A p \in pending : pc[p] \in {"look", "link", "unlink", "refuse", "dead"}
  <1>1. DirInit => Inv
    BY DEF DirInit
  <1>2. DirTypeOK /\ Inv /\ [DirNext]_dirVars => Inv'
    <2> SUFFICES ASSUME DirTypeOK, Inv, [DirNext]_dirVars PROVE Inv'
      OBVIOUS
    <2> USE DEF DirTypeOK, Goto, attempts
    <2>1. ASSUME NEW p \in Launchers, NEW t \in TaskNames \cup {None}, Call(p, t)
          PROVE  Inv'
      BY <2>1 DEF Call
    <2>2. ASSUME NEW p \in Launchers, Adopt(p) \/ Prepare(p) \/ Link(p) \/ Die(p)
          PROVE  Inv'
      BY <2>2 DEF Adopt, Prepare, Link, Die
    <2>3. ASSUME NEW p \in Launchers, Unlink(p) PROVE Inv'
      BY <2>3 DEF Unlink
    <2>4. ASSUME NEW p \in Launchers, Mkdir(p) \/ Fill(p) \/ Mark(p) PROVE Inv'
      BY <2>4 DEF Mkdir, Fill, Mark
    <2>5. CASE UNCHANGED dirVars
      BY <2>5 DEF dirVars
    <2>6. QED  BY <2>1, <2>2, <2>3, <2>4, <2>5 DEF DirNext, Step
  <1>3. Inv => NoLitter
    BY DEF NoLitter
  <1>4. QED  BY <1>1, <1>2, <1>3, DirTypeCorrect, PTL DEF DirSpec

-----------------------------------------------------------------------------
(* Refinement *)

published == IF marker = Unreadable THEN None ELSE marker

works == [p \in Launchers |-> IF Working(p) \/ pc[p] = "unlink" THEN run_id[p] ELSE None]

(* A step that moves one launcher out of or along its call is a Leave or a *)
(* stutter of the abstract specification.                                  *)
LEMMA LeavingIsLeave ==
  ASSUME IdentityInv, NEW p \in Launchers, NEW label,
         pc' = [pc EXCEPT ![p] = label], UNCHANGED <<marker, run_id>>,
         Inside(p)' => Inside(p)
  PROVE  published' = published /\ (works' = works \/ works' = [works EXCEPT ![p] = None])
  <1> USE DEF works, published, IdentityInv, DirTypeOK
  <1>1. \A q \in Launchers : q # p => works'[q] = works[q]
    BY DEF Working
  <1>2. CASE Inside(p)'
    BY <1>1, <1>2 DEF Inside, Working
  <1>3. CASE ~Inside(p)'
    <2>1. works'[p] = None
      BY <1>3 DEF Inside, Working
    <2>2. works' = [works EXCEPT ![p] = None]
      BY <1>1, <2>1
    <2>3. QED  BY <2>2
  <1>4. QED  BY <1>2, <1>3

LEMMA EnteringLearns ==
  ASSUME IdentityInv, IdentityInv', NEW p \in Launchers,
         pc' = [pc EXCEPT ![p] = "unlink"],
         NEW id, run_id' = [run_id EXCEPT ![p] = id]
  PROVE  works' = [works EXCEPT ![p] = id]
  BY DEF works, IdentityInv, DirTypeOK, Working

(* Run directories implement RunIdentity: a link that succeeds publishes,  *)
(* an identity that is read is learnt, and whoever ends a call leaves.     *)
LEMMA RefinementStep ==
  ASSUME IdentityInv, IdentityInv', [DirNext]_dirVars
  PROVE  [Identity!IdentityNext]_<<published, works>>
  <1> USE DEF Goto
  <1> SUFFICES Identity!IdentityNext \/ (published' = published /\ works' = works)
    BY DEF published, works
  <1>1. ASSUME NEW p \in Launchers, works' = [works EXCEPT ![p] = None],
               published' = published
        PROVE  Identity!IdentityNext
    BY <1>1 DEF Identity!IdentityNext, Identity!Leave, works, published
  <1>2. ASSUME NEW p \in Launchers, NEW t \in TaskNames \cup {None}, Call(p, t)
        PROVE  published' = published /\ works' = works
    BY <1>2 DEF Call, published, works, Working, IdentityInv, DirTypeOK
  <1>3. ASSUME NEW p \in Launchers, Adopt(p)
        PROVE  Identity!IdentityNext \/ (published' = published /\ works' = works)
    <2>1. CASE Agrees(p)
      <3>1. works' = [works EXCEPT ![p] = marker] /\ marker # None /\ UNCHANGED marker
        BY <1>3, <2>1, EnteringLearns DEF Adopt
      <3>2. published = marker /\ published' = marker
        BY <2>1, <3>1 DEF published, Agrees
      <3>3. QED  BY <3>1, <3>2 DEF Identity!IdentityNext, Identity!Learn, works, published
    <2>2. CASE ~Agrees(p)
      BY <1>3, <2>2 DEF Adopt, published, works, Working, IdentityInv, DirTypeOK
    <2>3. QED  BY <2>1, <2>2
  <1>4. ASSUME NEW p \in Launchers, Link(p)
        PROVE  Identity!IdentityNext \/ (published' = published /\ works' = works)
    <2>1. CASE marker = None
      <3>1. /\ works' = [works EXCEPT ![p] = Proposal(p)]
            /\ marker' = Proposal(p) /\ Proposal(p) \in Identities
        BY <1>4, <2>1, EnteringLearns
        DEF Link, Proposal, Identities, IdentityInv, DirTypeOK
      <3>2. published = None /\ published' = Proposal(p)
        BY <2>1, <3>1 DEF published
      <3>3. QED
        BY <3>1, <3>2 DEF Identity!IdentityNext, Identity!Publish, works, published
    <2>2. CASE marker # None
      BY <1>4, <2>2 DEF Link, published, works, Working, IdentityInv, DirTypeOK
    <2>3. QED  BY <2>1, <2>2
  <1>5. ASSUME NEW p \in Launchers,
               Prepare(p) \/ Unlink(p) \/ Mkdir(p) \/ Fill(p) \/ Mark(p) \/ Die(p)
        PROVE  Identity!IdentityNext \/ (published' = published /\ works' = works)
    <2>1. UNCHANGED <<marker, run_id>>
      BY <1>5 DEF Prepare, Unlink, Mkdir, Fill, Mark, Die
    <2>2. \E label : pc' = [pc EXCEPT ![p] = label]
      BY <1>5 DEF Prepare, Unlink, Mkdir, Fill, Mark, Die, IdentityInv, DirTypeOK
    <2>3. Inside(p)' => Inside(p)
      BY <1>5 DEF Prepare, Unlink, Mkdir, Fill, Mark, Die, Inside, Working,
                  IdentityInv, DirTypeOK
    <2>4. QED  BY <1>1, <2>1, <2>2, <2>3, LeavingIsLeave
  <1>6. CASE UNCHANGED dirVars
    BY <1>6 DEF dirVars, published, works, Working
  <1>7. QED  BY <1>2, <1>3, <1>4, <1>5, <1>6 DEF DirNext, Step

(* For any number of launchers and calls, what they see of run.json is one *)
(* publication: initialize implements RunIdentity.                         *)
THEOREM RunDirectoryRefines == DirSpec => RefinesIdentity
  <1>1. DirInit => Identity!IdentityInit
    BY DEF DirInit, Identity!IdentityInit, Working
  <1>2. IdentityInv /\ IdentityInv' /\ [DirNext]_dirVars
          => [Identity!IdentityNext]_<<published, works>>
    BY RefinementStep
  <1>3. QED  BY <1>1, <1>2, IdentityInvAlways, PTL
        DEF DirSpec, RefinesIdentity, Identity!IdentitySpec, published, works
=============================================================================
