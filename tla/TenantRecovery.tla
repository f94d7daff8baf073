--------------------------- MODULE TenantRecovery ---------------------------
(***************************************************************************)
(* Who owns an organisation: the owner's own hand-over, the removal of     *)
(* members, and ownership disputes, in which the platform's super-admins   *)
(* transfer the ownership under a dual-approval request                    *)
(* (apps/api/src/platform-recovery, organizations, auth).  One             *)
(* organisation.  A step is one read, or the writes of one transaction.    *)
(***************************************************************************)
EXTENDS Naturals, FiniteSets

CONSTANTS
  Admins,      \* super-admins of the platform
  People,      \* users who are, were or may become members
  FirstOwner,  \* who created the organisation
  Disputes,    \* disputes that may be opened
  Requests,    \* dual-approval requests that may be made
  Handlers,    \* requests in service at a time
  NotYet,      \* the argument of an idle handler
  Parties,     \* <<claimant, incumbent>> of the disputes to be opened
  PatchTo,     \* statuses a super-admin sets by hand
  JoinRoles    \* roles an invitation gives

ASSUME FirstOwnerIsAPerson == FirstOwner \in People
ASSUME AdminsAreFinite == IsFiniteSet(Admins)
ASSUME ClaimantsDisputeOthers ==
  Parties \subseteq {p \in People \X People : p[1] # p[2]}

\* Roles below ADMIN (USER, ACCOUNTANT, ...) are all USER here: nothing read by
\* these operations tells them apart.
UserRoles == {"OWNER", "ADMIN", "USER"}
Modes == {"NORMAL", "DISPUTE", "POST_TRANSFER_LOCK", "HARD_BLOCK_PLATFORM"}
DisputeStatuses == {"EVIDENCE_REQUIRED", "EVIDENCE_REVIEW", "INCUMBENT_NOTIFIED",
                    "COOLDOWN", "APPROVED", "REJECTED", "EXECUTED", "REVERTED"}
ApprovalStatuses == {"PENDING", "APPROVED", "EXPIRED", "EXECUTED"}

ASSUME RolesAndStatuses == JoinRoles \subseteq UserRoles /\ PatchTo \subseteq DisputeStatuses

VARIABLES
  owner,       \* organizations.ownerId
  role,        \* role of each membership; "none" without a row, "removed" soft-deleted
  mode,        \* organization_security_state.mode
  dispute,     \* rows of ownership_disputes
  request,     \* rows of dual_approval_requests
  late,        \* requests past their expiresAt
  job,         \* what each handler is doing
  said,        \* history: who has approved each request
  transferred, \* history: requests under which the ownership was transferred
  audited      \* requests whose transfer is in the audit trail

vars == <<owner, role, mode, dispute, request, late, job, said, transferred, audited>>
membership == <<owner, role>>
records == <<said, transferred, audited>>

NoDispute == [status |-> "none"]
NoRequest == [status |-> "none"]
Idle == [step |-> "idle", who |-> NotYet, on |-> NotYet, saw |-> {}]
Busy(step, who, on, saw) == [step |-> step, who |-> who, on |-> on, saw |-> saw]

Alive(p) == role[p] \in UserRoles

\* Transactions that have removed the incumbent on another connection and have
\* still to commit: they hold the row of the organisation and the claimant's.
Midway == {h \in Handlers : job[h].step = "midway"}
ClaimOf(r) == dispute[request[r].dispute]

Init ==
  /\ owner = FirstOwner
  /\ role = [p \in People |-> IF p = FirstOwner THEN "OWNER" ELSE "none"]
  /\ mode = "NORMAL"
  /\ dispute = [d \in Disputes |-> NoDispute]
  /\ request = [r \in Requests |-> NoRequest]
  /\ late = {}
  /\ job = [h \in Handlers |-> Idle]
  /\ said = [r \in Requests |-> {}]
  /\ transferred = {}
  /\ audited = {}

Goto(h, step) == job' = [job EXCEPT ![h].step = step]
Answer(h) == job' = [job EXCEPT ![h] = Idle]

-----------------------------------------------------------------------------
(* Members *)

\* An invitation or access request is accepted: the unique key on user and
\* organisation also counts soft-deleted rows.
Join(p, as) ==
  /\ role[p] = "none"
  /\ role' = [role EXCEPT ![p] = as]
  /\ UNCHANGED <<owner, mode, dispute, request, late, job, records>>

\* The guards read the caller's role with the token.
AskHandOver(h, p, q) ==
  /\ job[h] = Idle
  /\ p # q
  /\ role[p] = "OWNER"
  /\ job' = [job EXCEPT ![h] = Busy("mayHandOver", p, q, {})]
  /\ UNCHANGED <<membership, mode, dispute, request, late, records>>

AskRemoval(h, p, q) ==
  /\ job[h] = Idle
  /\ p # q
  /\ role[p] \in {"OWNER", "ADMIN"}
  /\ job' = [job EXCEPT ![h] = Busy("mayRemove", p, q, {})]
  /\ UNCHANGED <<membership, mode, dispute, request, late, records>>

\* Both are frozen while the organisation is disputed or blocked.
CheckFreeze(h) ==
  /\ job[h].step \in {"mayHandOver", "mayRemove"}
  /\ IF mode \in {"DISPUTE", "HARD_BLOCK_PLATFORM"} THEN Answer(h)
     ELSE Goto(h, IF job[h].step = "mayHandOver" THEN "ownership" ELSE "target")
  /\ UNCHANGED <<membership, mode, dispute, request, late, records>>

ReadOwnership(h) ==
  /\ job[h].step = "ownership"
  /\ IF role[job[h].who] = "OWNER" THEN Goto(h, "successor") ELSE Answer(h)
  /\ UNCHANGED <<membership, mode, dispute, request, late, records>>

ReadSuccessor(h) ==
  /\ job[h].step = "successor"
  /\ IF Alive(job[h].on) THEN Goto(h, "handOver") ELSE Answer(h)
  /\ UNCHANGED <<membership, mode, dispute, request, late, records>>

\* Mutant: updateMany, which finds no row and does not fail.
HandOverMany(h) ==
  LET from == job[h].who
      to == job[h].on
  IN  /\ job[h].step = "handOver"
      /\ Midway = {}
      /\ owner' = to
      /\ role' = [role EXCEPT ![from] = IF Alive(from) THEN "ADMIN" ELSE @,
                              ![to] = IF Alive(to) THEN "OWNER" ELSE @]
      /\ Answer(h)
      /\ UNCHANGED <<mode, dispute, request, late, records>>

\* An update of a membership that is not there, or no longer, rolls back.
HandOver(h) ==
  LET from == job[h].who
      to == job[h].on
  IN  /\ job[h].step = "handOver"
      /\ Midway = {}
      /\ IF Alive(from) /\ Alive(to)
           THEN /\ owner' = to
                /\ role' = [role EXCEPT ![from] = "ADMIN", ![to] = "OWNER"]
           ELSE UNCHANGED membership
      /\ Answer(h)
      /\ UNCHANGED <<mode, dispute, request, late, records>>

ReadTarget(h) ==
  /\ job[h].step = "target"
  /\ IF Alive(job[h].on) /\ role[job[h].on] # "OWNER" THEN Goto(h, "remove") ELSE Answer(h)
  /\ UNCHANGED <<membership, mode, dispute, request, late, records>>

\* The deletion names the row, not the role that was read.
RemoveMember(h) ==
  LET q == job[h].on
  IN  /\ job[h].step = "remove"
      /\ \A g \in Midway : ClaimOf(job[g].on).claimant # q
      /\ role' = [role EXCEPT ![q] = IF Alive(q) THEN "removed" ELSE @]
      /\ Answer(h)
      /\ UNCHANGED <<owner, mode, dispute, request, late, records>>

-----------------------------------------------------------------------------
(* Disputes *)

\* The mode is set to DISPUTE whatever it was.
OpenDispute(d, parties, severity) ==
  /\ dispute[d] = NoDispute
  /\ dispute' = [dispute EXCEPT ![d] =
       [status |-> "EVIDENCE_REQUIRED", claimant |-> parties[1],
        incumbent |-> parties[2], severity |-> severity]]
  /\ mode' = "DISPUTE"
  /\ UNCHANGED <<membership, request, late, job, records>>

PatchDispute(d, status) ==
  /\ dispute[d] # NoDispute
  /\ dispute' = [dispute EXCEPT ![d].status = status]
  /\ UNCHANGED <<membership, mode, request, late, job, records>>

\* The incumbent answers with the token of the notice, which stays valid.
CounterClaim(d) ==
  /\ dispute[d] # NoDispute
  /\ dispute' = [dispute EXCEPT ![d].status = "EVIDENCE_REVIEW"]
  /\ UNCHANGED <<membership, mode, request, late, job, records>>

\* The nightly check of the audit trail blocks the organisation when it finds
\* the trail broken; the trail itself is not part of this module.
BlockOrganisation ==
  /\ mode' = "HARD_BLOCK_PLATFORM"
  /\ UNCHANGED <<membership, dispute, request, late, job, records>>

-----------------------------------------------------------------------------
(* Dual approval *)

\* Mutant: the dispute is not looked up.
CreateRequestBlindly(r, a, d) ==
  /\ request[r] = NoRequest
  /\ request' = [request EXCEPT ![r] =
       [status |-> "PENDING", requester |-> a, approvers |-> {}, dispute |-> d]]
  /\ UNCHANGED <<membership, mode, dispute, late, job, records>>

\* Either for an approved dispute (request-execution) or directly, with any payload.
CreateRequest(r, a, d) ==
  /\ request[r] = NoRequest
  /\ dispute[d] # NoDispute
  /\ request' = [request EXCEPT ![r] =
       [status |-> "PENDING", requester |-> a, approvers |-> {}, dispute |-> d]]
  /\ UNCHANGED <<membership, mode, dispute, late, job, records>>

PassDeadline(r) ==
  /\ request[r] # NoRequest
  /\ late' = late \cup {r}
  /\ UNCHANGED <<membership, mode, dispute, request, job, records>>

\* Approving or executing a request past its deadline expires it, whatever its status.
Expire(r) == request' = [request EXCEPT ![r].status = "EXPIRED"]

\* Mutant: the requester's own approval counts.
ReadToApproveOwn(h, a, r) ==
  /\ job[h] = Idle
  /\ request[r] # NoRequest
  /\ r \notin late
  /\ request[r].status = "PENDING"
  /\ job' = [job EXCEPT ![h] = Busy("approve", a, r, request[r].approvers \cup {a})]
  /\ UNCHANGED <<membership, mode, dispute, request, late, records>>

ReadToApprove(h, a, r) ==
  /\ job[h] = Idle
  /\ request[r] # NoRequest
  /\ \/ /\ r \in late
        /\ Expire(r)
        /\ UNCHANGED job
     \/ /\ r \notin late
        /\ request[r].status = "PENDING"
        /\ request[r].requester # a
        /\ job' = [job EXCEPT ![h] = Busy("approve", a, r, request[r].approvers \cup {a})]
        /\ UNCHANGED request
  /\ UNCHANGED <<membership, mode, dispute, late, records>>

\* Approvers and status are computed from the read row.
WriteApproval(h) ==
  LET r == job[h].on
      approvers == job[h].saw
  IN  /\ job[h].step = "approve"
      /\ request' = [request EXCEPT
           ![r].approvers = approvers,
           ![r].status = IF Cardinality(approvers) >= 2 THEN "APPROVED" ELSE "PENDING"]
      /\ said' = [said EXCEPT ![r] = @ \cup {job[h].who}]
      /\ Answer(h)
      /\ UNCHANGED <<membership, mode, dispute, late, transferred, audited>>

\* What DualApprovalGuard and executeIfApproved both ask of the row.
Approved(r) ==
  /\ request[r].status = "APPROVED"
  /\ Cardinality(request[r].approvers) >= 2

\* The guard of the endpoint.
AskTransfer(h, a, r) ==
  /\ job[h] = Idle
  /\ request[r] # NoRequest
  /\ r \notin late
  /\ Approved(r)
  /\ job' = [job EXCEPT ![h] = Busy("dispute", a, r, {})]
  /\ UNCHANGED <<membership, mode, dispute, request, late, records>>

ReadDispute(h) ==
  /\ job[h].step = "dispute"
  /\ IF ClaimOf(job[h].on).status = "APPROVED" THEN Goto(h, "approval") ELSE Answer(h)
  /\ UNCHANGED <<membership, mode, dispute, request, late, records>>

\* executeIfApproved; the snapshot and the certificate are made after it.
ReadApproval(h) ==
  LET r == job[h].on
  IN  /\ job[h].step = "approval"
      /\ \/ r \in late /\ Expire(r) /\ Answer(h)
         \/ r \notin late /\ ~Approved(r) /\ Answer(h) /\ UNCHANGED request
         \/ /\ r \notin late
            /\ Approved(r)
            /\ Goto(h, "transfer")
            /\ UNCHANGED request
      /\ UNCHANGED <<membership, mode, dispute, late, records>>

\* What the transaction commits, but for the incumbent's membership.
Transferred(h, roles) ==
  LET r == job[h].on
      c == ClaimOf(r).claimant
  IN  /\ owner' = c
      /\ role' = [roles EXCEPT ![c] = "OWNER"]
      /\ mode' = "POST_TRANSFER_LOCK"
      /\ dispute' = [dispute EXCEPT ![request[r].dispute].status = "EXECUTED"]
      /\ transferred' = transferred \cup {r}
      /\ Goto(h, "audit")

\* The claimant's soft-deleted row makes the upsert fail.  A HARD transfer
\* deletes the incumbent's membership, which the soft-delete extension turns
\* into an update on another connection: it is committed at once.
TransferOwner(h) ==
  LET claim == ClaimOf(job[h].on)
      i == claim.incumbent
  IN  /\ job[h].step = "transfer"
      /\ Midway = {}
      /\ \/ /\ role[claim.claimant] = "removed"
            /\ Answer(h)
            /\ UNCHANGED <<membership, mode, dispute, transferred>>
         \/ /\ role[claim.claimant] # "removed"
            /\ claim.severity = "HARD" /\ Alive(i)
            /\ role' = [role EXCEPT ![i] = "removed"]
            /\ Goto(h, "midway")
            /\ UNCHANGED <<owner, mode, dispute, transferred>>
         \/ /\ role[claim.claimant] # "removed"
            /\ claim.severity = "SOFT" \/ ~Alive(i)
            /\ Transferred(h, [role EXCEPT ![i] = IF Alive(i) THEN "ADMIN" ELSE @])
      /\ UNCHANGED <<request, late, said, audited>>

CommitTransfer(h) ==
  /\ job[h].step = "midway"
  /\ Transferred(h, role)
  /\ UNCHANGED <<request, late, said, audited>>

\* Mutant: a failure to append is logged only.
AppendAuditOrLog(h) ==
  /\ job[h].step = "audit"
  /\ audited' \in {audited, audited \cup {job[h].on}}
  /\ Goto(h, "mark")
  /\ UNCHANGED <<membership, mode, dispute, request, late, said, transferred>>

\* The entry of the audit trail is a transaction of its own.
AppendAudit(h) ==
  /\ job[h].step = "audit"
  /\ audited' = audited \cup {job[h].on}
  /\ Goto(h, "mark")
  /\ UNCHANGED <<membership, mode, dispute, request, late, said, transferred>>

MarkExecuted(h) ==
  /\ job[h].step = "mark"
  /\ request' = [request EXCEPT ![job[h].on].status = "EXECUTED"]
  /\ Answer(h)
  /\ UNCHANGED <<membership, mode, dispute, late, records>>

\* A statement fails, or the process stops: open transactions roll back.
Fail(h) ==
  /\ job[h] # Idle
  /\ Answer(h)
  /\ UNCHANGED <<membership, mode, dispute, request, late, records>>

-----------------------------------------------------------------------------
Serve(h) ==
  \/ CheckFreeze(h) \/ ReadOwnership(h) \/ ReadSuccessor(h) \/ HandOver(h)
  \/ ReadTarget(h) \/ RemoveMember(h)
  \/ WriteApproval(h) \/ ReadDispute(h) \/ ReadApproval(h) \/ TransferOwner(h)
  \/ CommitTransfer(h) \/ AppendAudit(h) \/ MarkExecuted(h) \/ Fail(h)

Ask(h) ==
  \/ \E p, q \in People : AskHandOver(h, p, q) \/ AskRemoval(h, p, q)
  \/ \E a \in Admins, r \in Requests : ReadToApprove(h, a, r) \/ AskTransfer(h, a, r)

Next ==
  \/ \E h \in Handlers : Serve(h) \/ Ask(h)
  \/ \E p \in People, as \in JoinRoles : Join(p, as)
  \/ \E d \in Disputes, parties \in Parties, severity \in {"SOFT", "HARD"} :
       OpenDispute(d, parties, severity)
  \/ \E d \in Disputes : CounterClaim(d) \/ \E status \in PatchTo : PatchDispute(d, status)
  \/ BlockOrganisation
  \/ \E r \in Requests, a \in Admins, d \in Disputes : CreateRequest(r, a, d)
  \/ \E r \in Requests : PassDeadline(r)

Spec == Init /\ [][Next]_vars

-----------------------------------------------------------------------------
(* Properties *)

Dispute == [status : DisputeStatuses, claimant : People, incumbent : People,
            severity : {"SOFT", "HARD"}]
Request == [status : ApprovalStatuses, requester : Admins,
            approvers : SUBSET Admins, dispute : Disputes]

MemberSteps == {"mayHandOver", "mayRemove", "ownership", "successor", "handOver",
                "target", "remove"}
TransferSteps == {"dispute", "approval", "transfer", "midway", "audit", "mark"}
Job ==
  {Idle}
  \cup [step : MemberSteps, who : People, on : People, saw : {{}}]
  \cup [step : {"approve"}, who : Admins, on : Requests, saw : SUBSET Admins]
  \cup [step : TransferSteps, who : Admins, on : Requests, saw : {{}}]

\* Types; and every request that was made names a dispute that was opened.
TypeOK ==
  /\ owner \in People
  /\ role \in [People -> UserRoles \cup {"none", "removed"}]
  /\ mode \in Modes
  /\ dispute \in [Disputes -> Dispute \cup {NoDispute}]
  /\ request \in [Requests -> Request \cup {NoRequest}]
  /\ late \subseteq Requests
  /\ job \in [Handlers -> Job]
  /\ said \in [Requests -> SUBSET Admins]
  /\ transferred \subseteq Requests
  /\ audited \subseteq Requests
  /\ \A r \in Requests :
       request[r] # NoRequest => dispute[request[r].dispute] # NoDispute

\* Whatever approvals were lost to concurrent ones, and whenever they came, a
\* disputed ownership is transferred only under a request that two people,
\* other than the one who made it, have approved (DualApprovalService).
AuthorisedByTwo ==
  \A r \in transferred : Cardinality(said[r] \ {request[r].requester}) >= 2

\* A request that says EXECUTED has transferred the ownership and left its entry
\* in the audit trail, although the three are committed one after the other
\* (executeIfApproved, executeTransfer).
ExecutedIsDone ==
  \A r \in Requests :
    request[r].status = "EXECUTED" => r \in transferred /\ r \in audited

\* Whoever becomes the owner is at that moment a member with the role OWNER,
\* also when they are removed while the hand-over or transfer is in service.
NewOwnerIsMember == [][owner' # owner => role'[owner'] = "OWNER"]_vars

\* "Cannot remove owner": the owner of the organisation is one of its members.
\* The code does not keep this (README, section 9), so no run checks it.
OwnerIsMember == Alive(owner)
=============================================================================
