-------------------------- MODULE ConnectionSettings --------------------------
(***************************************************************************)
(* One row of BillingSource under its writers: the connection form, which  *)
(* saves every column of a copy it read without a lock, the rotation, the  *)
(* pause, the stop and the revocation of the role, which write the columns *)
(* they are about, and the verification, which tests a copy of the         *)
(* settings at AWS and writes its result under a fence.                    *)
(***************************************************************************)
EXTENDS Naturals

CONSTANTS
    Clients,        \* web requests that save the connection form
    Roles,          \* role ARNs of the account that ConnectionForm accepts
    Capabilities,   \* sets of optional capabilities a form may choose
    MaxIds,         \* bound: external IDs issued
    MaxVersions,    \* bound: connection versions
    MaxEdits        \* bound: administrative writes besides the rotations

ConnectionSettingsAssumption == {MaxIds, MaxVersions} \subseteq Nat \ {0} /\ MaxEdits \in Nat

VARIABLES
    row,        \* the columns of the BillingSource
    approved,   \* the RoleApprovals: the pairs of role and version allowed now
    requested,  \* the pairs of role and version a RoleApproval exists for
    issued,     \* external IDs issued so far: 1..issued
    trust,      \* the external ID in the customer's trust policy, by role
    web,        \* the requests: their step, and their copy of the row with what the form changes
    verifier,   \* the verification job: its step and its copy of the row
    tested,     \* history: the settings a verification found good at AWS
    edits

vars == <<row, approved, requested, issued, trust, web, verifier, tested, edits>>

Rows == [version : 1..MaxVersions, ext : 1..MaxIds, role : Roles, caps : Capabilities,
         enabled : BOOLEAN, verified : BOOLEAN]

Idle == [step |-> "idle"]

WebRequests == {Idle} \cup [step : {"form", "save"}, copy : Rows]

Jobs == {Idle} \cup [step : {"loaded", "tested"}, copy : Rows]

(* What AWS access depends on. *)
Settings(r) == <<r.version, r.ext, r.role, r.caps>>

TypeOK ==
    /\ row \in Rows
    /\ approved \subseteq requested /\ requested \subseteq Roles \X (1..MaxVersions)
    /\ issued \in 1..MaxIds /\ trust \in [Roles -> 0..MaxIds]
    /\ web \in [Clients -> WebRequests]
    /\ verifier \in Jobs
    /\ tested \subseteq {Settings(r) : r \in Rows} /\ edits \in 0..MaxEdits

Init ==
    /\ row \in [version : {1}, ext : {1}, role : Roles, caps : Capabilities,
                enabled : {TRUE}, verified : {FALSE}]
    /\ requested = {<<row.role, 1>>} /\ approved = {} /\ issued = 1
    /\ trust = [r \in Roles |-> 0]
    /\ web = [c \in Clients |-> Idle] /\ verifier = Idle
    /\ tested = {} /\ edits = 0

----------------------------------------------------------------------------
(* The connection form: the row is read when the request begins, and read  *)
(* again to see what the form changes; then every column is written.       *)
Open(c) ==
    /\ web[c].step = "idle"
    /\ web' = [web EXCEPT ![c] = [step |-> "form", copy |-> row]]
    /\ UNCHANGED <<row, approved, requested, issued, trust, verifier, tested, edits>>

(* The new version is the copy's, not the row's, plus one. *)
Compare(c) ==
    /\ web[c].step = "form"
    /\ \E r \in Roles, k \in Capabilities :
         LET changed == <<r, k>> # <<row.role, row.caps>>
             old == web[c].copy
             new == [old EXCEPT !.role = r, !.caps = k,
                                !.version = IF changed THEN @ + 1 ELSE @,
                                !.verified = ~changed /\ @]
         IN  /\ new.version <= MaxVersions
             /\ web' = [web EXCEPT ![c] = [step |-> "save", copy |-> new]]
    /\ UNCHANGED <<row, approved, requested, issued, trust, verifier, tested, edits>>

(* The request is one transaction: the row and the RoleApproval that       *)
(* request_allowlist finds or creates are seen together.                   *)
Save(c) ==
    /\ web[c].step = "save"
    /\ row' = web[c].copy
    /\ requested' = requested \cup {<<web[c].copy.role, web[c].copy.version>>}
    /\ web' = [web EXCEPT ![c] = Idle]
    /\ UNCHANGED <<approved, issued, trust, verifier, tested, edits>>

----------------------------------------------------------------------------
(* Writers that lock the row or update it in one statement. *)
RotateExternalId ==
    /\ issued < MaxIds /\ row.version < MaxVersions
    /\ issued' = issued + 1
    /\ row' = [row EXCEPT !.ext = issued + 1, !.version = @ + 1, !.verified = FALSE]
    /\ UNCHANGED <<approved, requested, trust, web, verifier, tested, edits>>

Edit(new) ==
    /\ edits < MaxEdits /\ edits' = edits + 1
    /\ row' = new
    /\ UNCHANGED <<requested, issued, trust, web, verifier, tested>>

SetPaused == \E paused \in BOOLEAN :
    Edit([row EXCEPT !.enabled = ~paused]) /\ UNCHANGED approved

StopCustomer ==
    /\ row.version < MaxVersions
    /\ Edit([row EXCEPT !.enabled = FALSE, !.version = @ + 1, !.verified = FALSE])
    /\ UNCHANGED approved

ApproveRole ==
    /\ approved' = approved \cup {<<row.role, row.version>>}
    /\ requested' = requested \cup {<<row.role, row.version>>}
    /\ approved' # approved
    /\ UNCHANGED <<row, issued, trust, web, verifier, tested, edits>>

RevokeRole ==
    /\ <<row.role, row.version>> \in approved
    /\ approved' = approved \ {<<row.role, row.version>>}
    /\ Edit([row EXCEPT !.enabled = FALSE, !.verified = FALSE])

(* The customer installs the trust policy shown to them. *)
InstallTrust ==
    /\ trust[row.role] # row.ext
    /\ trust' = [trust EXCEPT ![row.role] = row.ext]
    /\ UNCHANGED <<row, approved, requested, issued, web, verifier, tested, edits>>

----------------------------------------------------------------------------
(* The verification job. *)
ApprovalReady(r) == <<r.role, r.version>> \in approved

LoadSource ==
    /\ verifier.step = "idle"
    /\ row.enabled /\ ApprovalReady(row)
    /\ verifier' = [step |-> "loaded", copy |-> row]
    /\ UNCHANGED <<row, approved, requested, issued, trust, web, tested, edits>>

(* AWS accepts the copy's external ID, and only that one; the job fails    *)
(* when it does not.                                                       *)
VerifyTrust ==
    /\ verifier.step = "loaded"
    /\ LET good == trust[verifier.copy.role] = verifier.copy.ext
       IN  /\ verifier' = IF good THEN [verifier EXCEPT !.step = "tested"] ELSE Idle
           /\ tested' = IF good THEN tested \cup {Settings(verifier.copy)} ELSE tested
    /\ UNCHANGED <<row, approved, requested, issued, trust, web, edits>>

(* Mutant: the fence trusts the connection version alone. *)
Current_VersionOnly(copy) ==
    row.enabled /\ ApprovalReady(row) /\ row.version = copy.version

(* _check_publication_source, while the row is locked. *)
Current(copy) == row.enabled /\ ApprovalReady(row) /\ Settings(row) = Settings(copy)

VerifySource ==
    /\ verifier.step = "tested"
    /\ row' = [row EXCEPT !.verified = @ \/ Current(verifier.copy)]
    /\ verifier' = Idle
    /\ UNCHANGED <<approved, requested, issued, trust, web, tested, edits>>

Next ==
    \/ \E c \in Clients : Open(c) \/ Compare(c) \/ Save(c)
    \/ RotateExternalId \/ SetPaused \/ StopCustomer \/ ApproveRole \/ RevokeRole
    \/ InstallTrust \/ LoadSource \/ VerifyTrust \/ VerifySource

Spec == Init /\ [][Next]_vars

----------------------------------------------------------------------------
(* A row that counts as verified holds settings that AWS accepted          *)
(* together, although a form may write back columns it read before a       *)
(* rotation and give a version to a second set of settings                 *)
(* (views_management.py:355-372, collector.py:34-44). It needs one form at *)
(* a time: a second one, opened before the first was saved, that chooses   *)
(* the same role finds nothing changed and restores its copy's verified_at.*)
VerifiedIsWhatWasTested ==
    row.verified => Settings(row) \in tested

(* A rotation is not undone: "Issue a new external ID and connection       *)
(* version; cached AWS results become stale by design."                    *)
(* (onboarding.py:36).                                                     *)
RotationSticks == row'.ext >= row.ext /\ row'.version >= row.version
=============================================================================
