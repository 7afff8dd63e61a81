--------------------------- MODULE VendorHandoff ---------------------------
(***************************************************************************)
(* Handing a failure over (MAT-020): one ticket for the vendor, built from *)
(* a triage report, or a package of findings of several owners.  The tool  *)
(* runs again and again into one directory and writes three files one      *)
(* after the other: a run that stops early, raises or is killed leaves     *)
(* there what an earlier one wrote.                                        *)
(***************************************************************************)
EXTENDS Naturals, Sequences, FiniteSets

CONSTANTS
  Ids,          \* identifiers the author gives to findings
  Drafts(_),    \* the findings among all of them that authors write
  MaxFindings   \* bound: findings of the document

Binary == {"vendor binary"}
Owned  == {"vllm_upstream", "vllm_kunlun_plugin"}

(* evidence: the error text, and what stopped the run before the item.     *)
(* general: who else it hits.  fields: all that the gate wants, or one is  *)
(* empty, or one is not written that the rendering of a package indexes.   *)
Findings == [id : Ids, layer : Binary \cup Owned, owner : {"us", "upstream", "vendor"},
             kind : {"observed_failure", "unreached_dependency"},
             evidence : SUBSET {"error", "blocked"}, general : BOOLEAN,
             fields : {"all", "one empty", "one unwritten"}]

(* serves: whether the document says that the model serves. *)
Documents == [findings : Seq(Findings), serves : BOOLEAN]

(* complete: the fields that a ticket takes over. *)
NoTriage  == [state |-> "absent", layer |-> "vllm_kunlun_plugin", complete |-> FALSE]
Triages   == {NoTriage} \cup
             [state : {"TRIAGE_READY", "TRIAGE_FAILED"},
              layer : Binary \cup {"vllm_kunlun_plugin"}, complete : BOOLEAN]

VARIABLES
  triage,     \* triage_report.json at the path a run is given
  document,   \* the findings document
  package,    \* handoff_package.json
  ticket,     \* vendor_ticket.json: the report it was built from
  status,     \* handoff_status.json: the verdict, and what it was reached on
  exit        \* how the last run ended

vendorVars == <<triage, document, package, ticket, status, exit>>

NoPackage == [routing |-> <<>>, findings |-> <<>>]

NoStatus == [form |-> "none", state |-> "none", passed |-> FALSE,
             package |-> NoPackage, ticket |-> {}]

VendorInit ==
  /\ triage = NoTriage
  /\ document = [findings |-> <<>>, serves |-> FALSE]
  /\ package = NoPackage /\ ticket = {}
  /\ status = NoStatus
  /\ exit = "none"

-----------------------------------------------------------------------------
(* Triage and the author. *)

(* The executor reports a vendor kernel that fails alone, or one that does  *)
(* not, and fails itself when its gate objects.                             *)
Triaged(t) ==
  /\ triage' = t
  /\ UNCHANGED <<document, package, ticket, status, exit>>

(* A wall the run reached or the code names is written down. *)
Write(finding) ==
  /\ Len(document.findings) < MaxFindings
  /\ document' = [document EXCEPT !.findings = Append(@, finding)]
  /\ UNCHANGED <<triage, package, ticket, status, exit>>

(* The run got past a wall and reached the one behind it. *)
Reach(i) ==
  /\ document.findings[i].kind = "unreached_dependency"
  /\ document' = [document EXCEPT !.findings[i].kind = "observed_failure",
                                  !.findings[i].evidence = @ \cup {"error"}]
  /\ UNCHANGED <<triage, package, ticket, status, exit>>

Serve ==
  /\ document' = [document EXCEPT !.serves = ~@]
  /\ UNCHANGED <<triage, package, ticket, status, exit>>

-----------------------------------------------------------------------------
(* The tool. *)

OwnerFits(f) ==
  /\ f.owner = "vendor" => f.layer \notin Owned
  /\ f.owner = "us" => f.layer \notin Binary
  /\ f.owner = "upstream" => f.layer = "vllm_upstream" /\ f.general

FindingAccepted(f) ==
  /\ f.fields = "all"
  /\ OwnerFits(f)
  /\ IF f.kind = "observed_failure" THEN "error" \in f.evidence
     ELSE f.evidence = {"blocked"}

(* Defect: nobody looks whether an id was used before. *)
BugPackageAccepted(d) ==
  /\ d.findings # <<>> /\ ~d.serves
  /\ \A i \in DOMAIN d.findings : FindingAccepted(d.findings[i])

PackageAccepted(d) ==
  /\ d.findings # <<>> /\ ~d.serves
  /\ \A i \in DOMAIN d.findings :
       /\ FindingAccepted(d.findings[i])
       /\ \A j \in 1..(i - 1) : d.findings[j].id # d.findings[i].id

(* The ids each owner is sent. *)
Routing(d) ==
  [o \in {"us", "upstream", "vendor"} |->
     {d.findings[i].id : i \in {j \in DOMAIN d.findings : d.findings[j].owner = o}}]

Built(d) == [routing |-> Routing(d), findings |-> d.findings]

(* The package is written before anybody looks at it, then it is rendered. *)
WritePackage == package' = Built(document)

(* render_package indexes the fields of a finding, also unwritten ones. *)
Renders(d) == \A i \in DOMAIN d.findings : d.findings[i].fields # "one unwritten"

Package ==
  /\ WritePackage /\ Renders(document)
  /\ status' = [form |-> "package", state |-> "HANDOFF_READY", passed |-> PackageAccepted(document),
                package |-> Built(document), ticket |-> {}]
  /\ exit' = IF PackageAccepted(document) THEN "ok" ELSE "refused"
  /\ UNCHANGED <<triage, document, ticket>>

(* The rendering raises, or the run is killed: an earlier status stays     *)
(* where it lies, beside a package that nobody has looked at.              *)
PackageBreaksOff ==
  /\ WritePackage
  /\ exit' = "broke off"
  /\ UNCHANGED <<triage, document, ticket, status>>

(* Without a triage report the status says that a human is needed. *)
TicketWithoutTriage ==
  /\ triage.state = "absent"
  /\ status' = [NoStatus EXCEPT !.form = "ticket", !.state = "NEEDS_HUMAN"]
  /\ exit' = "refused"
  /\ UNCHANGED <<triage, document, package, ticket>>

(* A triage that is not ready, or found its cause in a layer that is       *)
(* modifiable here, ends the run before anything is written.               *)
NotATicket ==
  /\ triage.state # "absent"
  /\ triage.state # "TRIAGE_READY" \/ triage.layer \notin Binary

StopEarly ==
  /\ NotATicket
  /\ exit' = "refused"
  /\ UNCHANGED <<triage, document, package, ticket, status>>

(* The wording of the reproduction follows from the triage, so that the    *)
(* validator has only the completeness of the ticket left to judge.        *)
Ticket ==
  /\ triage.state # "absent" /\ ~NotATicket
  /\ ticket' = {triage}
  /\ status' = [form |-> "ticket", state |-> "HANDOFF_READY", passed |-> triage.complete,
                package |-> NoPackage, ticket |-> {triage}]
  /\ exit' = IF triage.complete THEN "ok" ELSE "refused"
  /\ UNCHANGED <<triage, document, package>>

TicketBreaksOff ==
  /\ triage.state # "absent" /\ ~NotATicket
  /\ ticket' = {triage}
  /\ exit' = "broke off"
  /\ UNCHANGED <<triage, document, package, status>>

VendorNext ==
  \/ \E t \in Triages : Triaged(t)
  \/ \E f \in Findings : Drafts(f) /\ Write(f)
  \/ \E i \in DOMAIN document.findings : Reach(i)
  \/ Serve
  \/ Package \/ PackageBreaksOff
  \/ TicketWithoutTriage
  \/ StopEarly
  \/ Ticket \/ TicketBreaksOff

VendorSpec == VendorInit /\ [][VendorNext]_vendorVars

-----------------------------------------------------------------------------
(* A run that ends with success leaves the package, or the ticket, that    *)
(* was judged in this run.  What a passed status was reached on belongs to *)
(* whom it is sent to, and to no one else: every identifier is routed to   *)
(* one owner, who can change the layer its finding lies in; a ticket was   *)
(* triaged to a binary layer.  The status alone says nothing of the file   *)
(* beside it: a run that raised after it wrote the package leaves an older *)
(* one there (build_package, validate_handoff_package, execute).           *)
SuccessIsJudged ==
  exit = "ok" =>
    /\ status.passed
    /\ IF status.form = "package" THEN package = status.package ELSE ticket = status.ticket

OneOwnerEach ==
  status.passed /\ status.form = "package" =>
    \A o1, o2 \in DOMAIN status.package.routing :
      o1 # o2 => status.package.routing[o1] \cap status.package.routing[o2] = {}

VendorOwnsBinaries ==
  status.passed =>
    /\ \A i \in DOMAIN status.package.findings :
         LET f == status.package.findings[i]
         IN  f.owner = "vendor" <=> f.layer \in Binary
    /\ \A t \in status.ticket : t.state = "TRIAGE_READY" /\ t.layer \in Binary

HandoffReachesItsOwner == SuccessIsJudged /\ OneOwnerEach /\ VendorOwnsBinaries
=============================================================================
