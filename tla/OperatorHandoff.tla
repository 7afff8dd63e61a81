--------------------------- MODULE OperatorHandoff ---------------------------
(***************************************************************************)
(* Torch shims that stand in for vendor kernels, and the operator requests *)
(* they owe.  A scan of the installed plugin (MAT-029) is matched with a   *)
(* registry its author keeps; what is declared, not waived and not yet     *)
(* requested is dispatched as operator requests (the part of MAT-024 that  *)
(* runs without a scheduler), and a validator judges the report.           *)
(*                                                                         *)
(* Every invocation writes into a directory of its own; a refused one has  *)
(* written all its files before it is refused.                             *)
(***************************************************************************)
EXTENDS Naturals, FiniteSets, Sequences

CONSTANTS
  Shims,      \* functions that stand in for kernels
  Files,      \* files of the plugin
  MaxScans,   \* bound: invocations of the scan
  MaxEdits    \* bound: what patches and the author do

ASSUME HandoffConstants == MaxScans \in Nat \ {0} /\ MaxEdits \in Nat

VARIABLES
  plugin,     \* the installed shims: the file of each, or Nowhere
  unparsable, \* files of the plugin that do not parse
  registry,   \* the author's registry: a sequence of entries
  report,     \* the last report, with the verdict of its validator
  requests,   \* request files of all invocations
  scans,      \* how many invocations there were
  edits       \* and how many edits

shimVars == <<plugin, unparsable, registry, report, requests, scans, edits>>

Nowhere == "nowhere"

(* facts: the fields a request is built from are filled in.  reason: a     *)
(* waiver has one.  thisRun: the flag dispatched_this_run.                 *)
Entries == [name : Shims, file : Files, facts : BOOLEAN, reason : BOOLEAN,
            status : {"REGISTERED", "DISPATCHED", "WAIVED"},
            request : 0..Cardinality(Shims), thisRun : BOOLEAN]

Reports == [state : {"none", "HANDOFF_CLEAR", "HANDOFF_FOUND"}, entries : Seq(Entries),
            signals : SUBSET Shims, accepted : BOOLEAN]

HandoffInit ==
  /\ plugin = [s \in Shims |-> Nowhere]
  /\ unparsable = {}
  /\ registry = <<>>
  /\ report = [state |-> "none", entries |-> <<>>, signals |-> {}, accepted |-> FALSE]
  /\ requests = {}
  /\ scans = 0
  /\ edits = 0

-----------------------------------------------------------------------------
(* The plugin and the author.                                              *)

(* A patch puts a shim into a file, or moves it to another one. *)
Patch(s, file) ==
  /\ plugin' = [plugin EXCEPT ![s] = file]
  /\ UNCHANGED <<unparsable, registry, report, requests, scans>>

(* A patch leaves a file that no longer parses, or one repairs it. *)
Spoil(file) ==
  /\ unparsable' = IF file \in unparsable THEN unparsable \ {file} ELSE unparsable \cup {file}
  /\ UNCHANGED <<plugin, registry, report, requests, scans>>

Names(entries) == {entries[i].name : i \in DOMAIN entries}

Declare(s, facts) ==
  /\ plugin[s] # Nowhere /\ s \notin Names(registry)
  /\ registry' = Append(registry,
       [name |-> s, file |-> plugin[s], facts |-> facts, reason |-> FALSE,
        status |-> "REGISTERED", request |-> 0, thisRun |-> FALSE])
  /\ UNCHANGED <<plugin, unparsable, report, requests, scans>>

Waive(i, reason) ==
  /\ registry' = [registry EXCEPT ![i].status = "WAIVED", ![i].reason = reason]
  /\ UNCHANGED <<plugin, unparsable, report, requests, scans>>

(* The author corrects an entry: its facts, and the file the shim is in. *)
Correct(i) ==
  /\ plugin[registry[i].name] # Nowhere
  /\ registry' = [registry EXCEPT ![i].facts = TRUE, ![i].file = plugin[registry[i].name]]
  /\ UNCHANGED <<plugin, unparsable, report, requests, scans>>

(* A report may be the next registry, as it is or without its flags. *)
Adopt(flags) ==
  /\ report.state # "none"
  /\ registry' = [i \in DOMAIN report.entries |->
                    [report.entries[i] EXCEPT !.thisRun = flags /\ @]]
  /\ UNCHANGED <<plugin, unparsable, report, requests, scans>>

-----------------------------------------------------------------------------
(* The scan.                                                               *)

(* What the probe finds: shims in files that parse. *)
Signals == {s \in Shims : plugin[s] \notin unparsable \cup {Nowhere}}

Explains(entry, s) == entry.name = s /\ entry.file = plugin[s]

Unmapped(entries) ==
  {s \in Signals : \A i \in DOMAIN entries : ~Explains(entries[i], s)}

Dispatchable(entry) == entry.status # "WAIVED" /\ entry.request = 0

(* dispatch numbers the gaps of one call from 1, in their order. *)
RequestNumber(entries, i) == Cardinality({j \in 1..i : Dispatchable(entries[j])})

(* Defect: every entry is told the number of its place in the registry. *)
BugDispatched(entries) ==
  [i \in DOMAIN entries |->
     IF Dispatchable(entries[i])
     THEN [entries[i] EXCEPT !.request = i, !.status = "DISPATCHED", !.thisRun = TRUE]
     ELSE entries[i]]

Dispatched(entries) ==
  [i \in DOMAIN entries |->
     IF Dispatchable(entries[i])
     THEN [entries[i] EXCEPT !.request = RequestNumber(entries, i),
                             !.status = "DISPATCHED", !.thisRun = TRUE]
     ELSE entries[i]]

RequestFiles(entries) ==
  {[scan |-> scans + 1, id |-> RequestNumber(entries, i), shim |-> entries[i].name] :
     i \in {j \in DOMAIN entries : Dispatchable(entries[j])}}

(* validate_shim_handoff: sent requests went out with this report, and it *)
(* looked into at least one file.                                         *)
ShimsAccepted(entries, state, sent, scanned) ==
  /\ scanned
  /\ \A i \in DOMAIN entries :
       /\ entries[i].facts
       /\ entries[i].status = "WAIVED" => entries[i].reason
       /\ entries[i].status = "DISPATCHED" => entries[i].request # 0
  /\ state = "HANDOFF_CLEAR" =>
       /\ Unmapped(entries) = {}
       /\ \A i \in DOMAIN entries : entries[i].status # "REGISTERED"
  /\ sent = Cardinality({i \in DOMAIN entries : entries[i].thisRun})

ShimState(entries) ==
  IF Unmapped(entries) = {} /\ \A i \in DOMAIN entries : entries[i].status # "REGISTERED"
  THEN "HANDOFF_CLEAR" ELSE "HANDOFF_FOUND"

(* execute: requests and report are on disk before the validator speaks.   *)
(* A probe without an answer, or an environment that is not ready, ends it *)
(* before anything is written.                                             *)
Scan(scanned) ==
  /\ scans < MaxScans
  /\ LET entries == Dispatched(registry)
         state   == ShimState(entries)
         sent    == Cardinality(RequestFiles(registry))
     IN /\ requests' = requests \cup RequestFiles(registry)
        /\ report' = [state |-> state, entries |-> entries, signals |-> Signals,
                      accepted |-> ShimsAccepted(entries, state, sent, scanned)]
  /\ scans' = scans + 1
  /\ UNCHANGED <<plugin, unparsable, registry, edits>>

Edit ==
  /\ edits < MaxEdits /\ edits' = edits + 1
  /\ \/ \E s \in Shims, file \in Files : Patch(s, file)
     \/ \E file \in Files : Spoil(file)
     \/ \E s \in Shims, facts \in BOOLEAN : Declare(s, facts)
     \/ \E i \in DOMAIN registry, reason \in BOOLEAN : Waive(i, reason)
     \/ \E i \in DOMAIN registry : Correct(i)
     \/ \E flags \in BOOLEAN : Adopt(flags)

ShimNext ==
  \/ Edit
  \/ \E scanned \in BOOLEAN : Scan(scanned)

HandoffSpec == HandoffInit /\ [][ShimNext]_shimVars

-----------------------------------------------------------------------------
(* An accepted CLEAR report means what the contract says: every shim the   *)
(* scan saw is waived for a reason, or its entry carries the id of a       *)
(* request that was written for this very shim (scan_torch_shims.execute,  *)
(* validate_shim_handoff).                                                 *)
HandedOver(entry) ==
  \/ entry.status = "WAIVED" /\ entry.reason
  \/ \E r \in requests : r.id = entry.request /\ r.shim = entry.name

ClearIsHandedOver ==
  report.accepted /\ report.state = "HANDOFF_CLEAR" =>
    \A s \in report.signals :
      \E i \in DOMAIN report.entries :
        report.entries[i].name = s /\ HandedOver(report.entries[i])
=============================================================================
