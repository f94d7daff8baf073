----------------------------- MODULE RecoveryProofs -----------------------------
(***************************************************************************)
(* Proofs about TenantRecovery: its types, that a transfer was approved by *)
(* two people, that EXECUTED tells the truth, and that a new owner is a    *)
(* member, for any number of handlers.  The argument: concurrent approvals *)
(* may lose one another, so a row never has more approvers than have       *)
(* approved; that set only grows, and so does what a handler that has      *)
(* passed a check relies on.                                               *)
(***************************************************************************)
EXTENDS TenantRecovery, FiniteSetTheorems, TLAPS

\* The row has no more approvers than have approved, and not its requester.
RowsInv ==
  \A r \in Requests :
    IF request[r] = NoRequest THEN said[r] = {}
    ELSE /\ request[r].approvers \subseteq said[r]
         /\ request[r].requester \notin said[r]

\* What a handler knows of the request it serves.
JobOK(h) ==
  LET r == job[h].on
  IN  /\ job[h].step \in {"approve"} \cup TransferSteps => request[r] # NoRequest
      /\ job[h].step = "approve" =>
           /\ job[h].who # request[r].requester
           /\ job[h].saw \subseteq said[r] \cup {job[h].who}
      /\ job[h].step \in {"transfer", "midway"} => Cardinality(said[r]) >= 2
      /\ job[h].step \in {"audit", "mark"} => r \in transferred
      /\ job[h].step = "mark" => r \in audited

JobsInv == \A h \in Handlers : JobOK(h)

\* Requests under which the ownership was transferred.
DoneInv ==
  \A r \in transferred : request[r] # NoRequest /\ Cardinality(said[r]) >= 2

IInv == TypeOK /\ RowsInv /\ JobsInv /\ DoneInv /\ ExecutedIsDone

-----------------------------------------------------------------------------
(* Types *)

LEMMA JobShape ==
  ASSUME TypeOK, NEW h \in Handlers
  PROVE  /\ job[h] \in Job
         /\ job[h].step \in MemberSteps =>
              job[h].who \in People /\ job[h].on \in People /\ job[h].saw = {}
         /\ job[h].step = "approve" =>
              job[h].who \in Admins /\ job[h].on \in Requests /\ job[h].saw \in SUBSET Admins
         /\ job[h].step \in TransferSteps =>
              job[h].who \in Admins /\ job[h].on \in Requests /\ job[h].saw = {}
BY DEF TypeOK, Job, Idle, MemberSteps, TransferSteps

LEMMA GotoType ==
  ASSUME TypeOK, NEW h \in Handlers, NEW step, Goto(h, step),
         \/ job[h].step \in MemberSteps /\ step \in MemberSteps
         \/ job[h].step \in TransferSteps /\ step \in TransferSteps
  PROVE  job' \in [Handlers -> Job]
<1>1. [job[h] EXCEPT !.step = step] \in Job
  BY DEF TypeOK, Job, Idle, MemberSteps, TransferSteps
<1>. QED
  BY <1>1 DEF TypeOK, Goto

LEMMA AnswerType ==
  ASSUME TypeOK, NEW h \in Handlers, Answer(h)
  PROVE  job' \in [Handlers -> Job]
BY DEF TypeOK, Answer, Job

LEMMA BusyType ==
  /\ \A step \in MemberSteps, p, q \in People : Busy(step, p, q, {}) \in Job
  /\ \A a \in Admins, r \in Requests, saw \in SUBSET Admins :
       Busy("approve", a, r, saw) \in Job
  /\ \A step \in TransferSteps, a \in Admins, r \in Requests : Busy(step, a, r, {}) \in Job
BY DEF Busy, Job

LEMMA RequestShape ==
  ASSUME TypeOK, NEW r \in Requests, request[r] # NoRequest
  PROVE  /\ request[r] \in Request
         /\ request[r].requester \in Admins /\ request[r].approvers \subseteq Admins
         /\ request[r].dispute \in Disputes
         /\ dispute[request[r].dispute] \in Dispute
         /\ ClaimOf(r).claimant \in People /\ ClaimOf(r).incumbent \in People
<1>1. request[r] \in Request
  BY DEF TypeOK
<1>2. request[r].dispute \in Disputes
  BY <1>1 DEF Request
<1>3. dispute[request[r].dispute] \in Dispute
  BY <1>2 DEF TypeOK
<1>. QED
  BY <1>1, <1>2, <1>3 DEF Request, Dispute, ClaimOf

\* Changing the status of a row, or its approvers, leaves the rest of it.
LEMMA RequestUpdate ==
  ASSUME TypeOK, NEW r \in Requests, request[r] # NoRequest,
         NEW status \in ApprovalStatuses, NEW approvers \in SUBSET Admins,
         request' = [request EXCEPT ![r].approvers = approvers, ![r].status = status]
                    \/ /\ request' = [request EXCEPT ![r].status = status]
                       /\ approvers = request[r].approvers
  PROVE  /\ request' \in [Requests -> Request \cup {NoRequest}]
         /\ request'[r].approvers = approvers /\ request'[r].status = status
         /\ \A q \in Requests :
              /\ request'[q].requester = request[q].requester
              /\ request'[q].dispute = request[q].dispute
              /\ request[q] = NoRequest <=> request'[q] = NoRequest
              /\ q # r => request'[q] = request[q]
<1>1. request[r] \in Request
  BY RequestShape
<1>2. /\ request'[r] \in Request
      /\ request'[r].approvers = approvers /\ request'[r].status = status
      /\ request'[r].requester = request[r].requester
      /\ request'[r].dispute = request[r].dispute
  BY <1>1 DEF TypeOK, Request
<1>3. request'[r] # NoRequest
  <2>1. NoRequest.status \notin ApprovalStatuses
    BY DEF NoRequest, ApprovalStatuses
  <2>. QED
    BY <1>2, <2>1
<1>4. \A q \in Requests : q # r => request'[q] = request[q]
  BY DEF TypeOK
<1>5. request' = [request EXCEPT ![r] = request'[r]]
  BY <1>2 DEF TypeOK
<1>. QED
  BY <1>1, <1>2, <1>3, <1>4, <1>5 DEF TypeOK

\* The form of it for a status alone.
LEMMA StatusUpdate ==
  ASSUME TypeOK, NEW r \in Requests, request[r] # NoRequest,
         NEW status \in ApprovalStatuses,
         request' = [request EXCEPT ![r].status = status]
  PROVE  /\ request' \in [Requests -> Request \cup {NoRequest}]
         /\ request'[r].approvers = request[r].approvers /\ request'[r].status = status
         /\ \A q \in Requests :
              /\ request'[q].requester = request[q].requester
              /\ request'[q].dispute = request[q].dispute
              /\ request[q] = NoRequest <=> request'[q] = NoRequest
              /\ q # r => request'[q] = request[q]
<1>. DEFINE approvers == request[r].approvers
<1>1. approvers \in SUBSET Admins
  BY RequestShape
<1>2. approvers = request[r].approvers
  OBVIOUS
<1>. HIDE DEF approvers
<1>. QED
  BY <1>1, <1>2, RequestUpdate

LEMMA DisputeUpdate ==
  ASSUME TypeOK, NEW d \in Disputes, dispute[d] # NoDispute, NEW status \in DisputeStatuses,
         dispute' = [dispute EXCEPT ![d].status = status]
  PROVE  /\ dispute' \in [Disputes -> Dispute \cup {NoDispute}]
         /\ \A e \in Disputes : dispute[e] = NoDispute <=> dispute'[e] = NoDispute
<1>1. dispute[d] \in Dispute
  BY DEF TypeOK
<1>2. dispute'[d] \in Dispute /\ dispute'[d].status = status
  BY <1>1 DEF TypeOK, Dispute
<1>3. dispute'[d] # NoDispute
  BY <1>2 DEF NoDispute, DisputeStatuses
<1>4. \A e \in Disputes : e # d => dispute'[e] = dispute[e]
  BY DEF TypeOK
<1>. QED
  BY <1>1, <1>2, <1>3, <1>4 DEF TypeOK

LEMMA TransferredType ==
  ASSUME TypeOK, NEW h \in Handlers, request[job[h].on] # NoRequest,
         job[h].step \in TransferSteps,
         NEW roles \in [People -> UserRoles \cup {"none", "removed"}],
         Transferred(h, roles), UNCHANGED <<request, late, said, audited>>
  PROVE  TypeOK'
<1>. DEFINE r == job[h].on
<1>1. r \in Requests
  BY JobShape
<1>2. /\ request[r].dispute \in Disputes /\ dispute[request[r].dispute] \in Dispute
      /\ ClaimOf(r).claimant \in People
  BY <1>1, RequestShape
<1>3. dispute[request[r].dispute] # NoDispute
  BY <1>1 DEF TypeOK
<1>4. /\ dispute' \in [Disputes -> Dispute \cup {NoDispute}]
      /\ \A e \in Disputes : dispute[e] = NoDispute <=> dispute'[e] = NoDispute
  <2>1. "EXECUTED" \in DisputeStatuses
    BY DEF DisputeStatuses
  <2>. QED
    BY <1>2, <1>3, <2>1, DisputeUpdate DEF Transferred
<1>5. job' \in [Handlers -> Job]
  <2>1. Goto(h, "audit") /\ "audit" \in TransferSteps
    BY DEF Transferred, TransferSteps
  <2>. QED
    BY <2>1, GotoType
<1>6. owner' \in People /\ role' \in [People -> UserRoles \cup {"none", "removed"}]
  BY <1>2 DEF Transferred, UserRoles
<1>7. mode' \in Modes /\ transferred' \subseteq Requests
  BY <1>1 DEF Transferred, Modes, TypeOK
<1>8. \A q \in Requests : request[q] # NoRequest => request[q].dispute \in Disputes
  BY RequestShape
<1>. QED
  BY <1>4, <1>5, <1>6, <1>7, <1>8 DEF TypeOK

\* A step of one handler that leaves all rows alone.
LEMMA ReadingType ==
  ASSUME TypeOK, job' \in [Handlers -> Job],
         UNCHANGED <<membership, mode, dispute, request, late, records>>
  PROVE  TypeOK'
BY DEF TypeOK, membership, records

\* A step that changes the rows of requests only.
LEMMA RequestRowType ==
  ASSUME TypeOK, job' \in [Handlers -> Job],
         request' \in [Requests -> Request \cup {NoRequest}],
         \A q \in Requests : request'[q] # NoRequest =>
           request[q] # NoRequest /\ request'[q].dispute = request[q].dispute,
         said' \in [Requests -> SUBSET Admins],
         UNCHANGED <<membership, mode, dispute, late, transferred, audited>>
  PROVE  TypeOK'
BY DEF TypeOK, membership

LEMMA ServeType ==
  ASSUME TypeOK, JobsInv, NEW h \in Handlers, Serve(h)
  PROVE  TypeOK'
<1>1. CASE CheckFreeze(h) \/ ReadOwnership(h) \/ ReadSuccessor(h) \/ ReadTarget(h)
  <2>1. PICK step \in MemberSteps :
          Answer(h) \/ (job[h].step \in MemberSteps /\ Goto(h, step))
    BY <1>1 DEF CheckFreeze, ReadOwnership, ReadSuccessor, ReadTarget, MemberSteps
  <2>2. job' \in [Handlers -> Job]
    BY <2>1, AnswerType, GotoType
  <2>. QED
    BY <1>1, <2>2, ReadingType DEF CheckFreeze, ReadOwnership, ReadSuccessor, ReadTarget
<1>2. CASE HandOver(h) \/ RemoveMember(h)
  <2>1. job' \in [Handlers -> Job]
    BY <1>2, AnswerType DEF HandOver, RemoveMember
  <2>2. job[h].who \in People /\ job[h].on \in People
    BY <1>2, JobShape DEF HandOver, RemoveMember, MemberSteps
  <2>. QED
    BY <1>2, <2>1, <2>2 DEF TypeOK, HandOver, RemoveMember, membership, records, UserRoles
<1>3. CASE WriteApproval(h)
  <2>. DEFINE r == job[h].on
              status == IF Cardinality(job[h].saw) >= 2 THEN "APPROVED" ELSE "PENDING"
  <2>1. r \in Requests /\ job[h].who \in Admins /\ job[h].saw \in SUBSET Admins
    BY <1>3, JobShape DEF WriteApproval
  <2>2. request[r] # NoRequest
    BY <1>3 DEF JobsInv, JobOK, WriteApproval
  <2>3. status \in ApprovalStatuses
    BY DEF ApprovalStatuses
  <2>4. /\ request' \in [Requests -> Request \cup {NoRequest}]
        /\ \A q \in Requests :
             /\ request'[q].dispute = request[q].dispute
             /\ request[q] = NoRequest <=> request'[q] = NoRequest
    BY <1>3, <2>1, <2>2, <2>3, RequestUpdate DEF WriteApproval
  <2>5. said' \in [Requests -> SUBSET Admins] /\ job' \in [Handlers -> Job]
    BY <1>3, <2>1, AnswerType DEF WriteApproval, TypeOK
  <2>. QED
    BY <1>3, <2>4, <2>5, RequestRowType DEF WriteApproval
<1>4. CASE ReadDispute(h)
  <2>1. job' \in [Handlers -> Job]
    BY <1>4, AnswerType, GotoType DEF ReadDispute, TransferSteps
  <2>. QED
    BY <1>4, <2>1, ReadingType DEF ReadDispute
<1>5. CASE ReadApproval(h)
  <2>. DEFINE r == job[h].on
  <2>1. r \in Requests /\ request[r] # NoRequest
    BY <1>5, JobShape DEF ReadApproval, JobsInv, JobOK, TransferSteps
  <2>2. job' \in [Handlers -> Job]
    BY <1>5, AnswerType, GotoType DEF ReadApproval, TransferSteps
  <2>3. /\ request' \in [Requests -> Request \cup {NoRequest}]
        /\ \A q \in Requests :
             /\ request'[q].dispute = request[q].dispute
             /\ request[q] = NoRequest <=> request'[q] = NoRequest
    <3>1. CASE request' = request
      BY <3>1 DEF TypeOK
    <3>2. CASE Expire(r)
      <4>1. "EXPIRED" \in ApprovalStatuses /\ request[r].approvers \in SUBSET Admins
        BY <2>1, RequestShape DEF ApprovalStatuses
      <4>. QED
        BY <3>2, <4>1, <2>1, RequestUpdate DEF Expire
    <3>. QED
      BY <1>5, <3>1, <3>2 DEF ReadApproval
  <2>. QED
    BY <1>5, <2>2, <2>3, RequestRowType DEF ReadApproval, records, TypeOK
<1>6. CASE TransferOwner(h)
  <2>. DEFINE r == job[h].on
              i == ClaimOf(r).incumbent
  <2>1. r \in Requests /\ request[r] # NoRequest /\ job[h].step \in TransferSteps
    BY <1>6, JobShape DEF TransferOwner, JobsInv, JobOK, TransferSteps
  <2>2. i \in People
    BY <2>1, RequestShape
  <2>3. CASE Answer(h) /\ UNCHANGED <<membership, mode, dispute, transferred>>
    BY <1>6, <2>3, AnswerType, ReadingType DEF TransferOwner, records
  <2>4. CASE /\ role' = [role EXCEPT ![i] = "removed"]
             /\ Goto(h, "midway")
             /\ UNCHANGED <<owner, mode, dispute, transferred>>
    <3>1. job' \in [Handlers -> Job]
      BY <2>1, <2>4, GotoType DEF TransferSteps
    <3>. QED
      BY <1>6, <2>2, <2>4, <3>1 DEF TransferOwner, TypeOK
  <2>5. CASE Transferred(h, [role EXCEPT ![i] = IF Alive(i) THEN "ADMIN" ELSE @])
    <3>1. [role EXCEPT ![i] = IF Alive(i) THEN "ADMIN" ELSE @]
            \in [People -> UserRoles \cup {"none", "removed"}]
      BY <2>2 DEF TypeOK, UserRoles
    <3>. QED
      BY <1>6, <2>1, <2>5, <3>1, TransferredType DEF TransferOwner
  <2>. QED
    BY <1>6, <2>3, <2>4, <2>5 DEF TransferOwner
<1>7. CASE CommitTransfer(h)
  <2>1. request[job[h].on] # NoRequest /\ job[h].step \in TransferSteps
    BY <1>7 DEF CommitTransfer, JobsInv, JobOK, TransferSteps
  <2>2. role \in [People -> UserRoles \cup {"none", "removed"}]
    BY DEF TypeOK
  <2>. QED
    BY <1>7, <2>1, <2>2, TransferredType DEF CommitTransfer
<1>8. CASE AppendAudit(h)
  <2>1. job' \in [Handlers -> Job] /\ job[h].on \in Requests
    BY <1>8, JobShape, GotoType DEF AppendAudit, TransferSteps
  <2>. QED
    BY <1>8, <2>1 DEF AppendAudit, TypeOK, membership
<1>9. CASE MarkExecuted(h)
  <2>. DEFINE r == job[h].on
  <2>1. r \in Requests /\ request[r] # NoRequest
    BY <1>9, JobShape DEF MarkExecuted, JobsInv, JobOK, TransferSteps
  <2>2. "EXECUTED" \in ApprovalStatuses /\ request[r].approvers \in SUBSET Admins
    BY <2>1, RequestShape DEF ApprovalStatuses
  <2>3. /\ request' \in [Requests -> Request \cup {NoRequest}]
        /\ \A q \in Requests :
             /\ request'[q].dispute = request[q].dispute
             /\ request[q] = NoRequest <=> request'[q] = NoRequest
    <3>1. request' = [request EXCEPT ![r].status = "EXECUTED"]
      BY <1>9 DEF MarkExecuted
    <3>. QED
      BY <2>1, <2>2, <3>1, StatusUpdate
  <2>. QED
    BY <1>9, <2>3, AnswerType, RequestRowType DEF MarkExecuted, records, TypeOK
<1>10. CASE Fail(h)
  BY <1>10, AnswerType, ReadingType DEF Fail
<1>. QED
  BY <1>1, <1>2, <1>3, <1>4, <1>5, <1>6, <1>7, <1>8, <1>9, <1>10 DEF Serve

LEMMA AskType ==
  ASSUME TypeOK, NEW h \in Handlers, Ask(h)
  PROVE  TypeOK'
<1>1. ASSUME NEW p \in People, NEW q \in People, AskHandOver(h, p, q) \/ AskRemoval(h, p, q)
      PROVE  TypeOK'
  <2>1. job' \in [Handlers -> Job]
    BY <1>1, BusyType DEF AskHandOver, AskRemoval, TypeOK, MemberSteps
  <2>. QED
    BY <1>1, <2>1, ReadingType DEF AskHandOver, AskRemoval
<1>2. ASSUME NEW a \in Admins, NEW r \in Requests, ReadToApprove(h, a, r)
      PROVE  TypeOK'
  <2>1. request[r].approvers \in SUBSET Admins /\ "EXPIRED" \in ApprovalStatuses
    BY <1>2, RequestShape DEF ReadToApprove, ApprovalStatuses
  <2>2. job' \in [Handlers -> Job]
    <3>1. Busy("approve", a, r, request[r].approvers \cup {a}) \in Job
      BY <2>1, BusyType
    <3>. QED
      BY <1>2, <3>1 DEF ReadToApprove, TypeOK
  <2>3. /\ request' \in [Requests -> Request \cup {NoRequest}]
        /\ \A q \in Requests :
             /\ request'[q].dispute = request[q].dispute
             /\ request[q] = NoRequest <=> request'[q] = NoRequest
    <3>1. CASE request' = request
      BY <3>1 DEF TypeOK
    <3>2. CASE Expire(r)
      BY <1>2, <2>1, <3>2, RequestUpdate DEF Expire, ReadToApprove
    <3>. QED
      BY <1>2, <3>1, <3>2 DEF ReadToApprove
  <2>. QED
    BY <1>2, <2>2, <2>3, RequestRowType DEF ReadToApprove, records, TypeOK
<1>3. ASSUME NEW a \in Admins, NEW r \in Requests, AskTransfer(h, a, r)
      PROVE  TypeOK'
  <2>1. job' \in [Handlers -> Job]
    BY <1>3, BusyType DEF AskTransfer, TypeOK, TransferSteps
  <2>. QED
    BY <1>3, <2>1, ReadingType DEF AskTransfer
<1>. QED
  BY <1>1, <1>2, <1>3 DEF Ask

\* Steps that no handler takes.
Outside ==
  \/ \E p \in People, as \in JoinRoles : Join(p, as)
  \/ \E d \in Disputes, parties \in Parties, severity \in {"SOFT", "HARD"} :
       OpenDispute(d, parties, severity)
  \/ \E d \in Disputes : CounterClaim(d) \/ \E status \in PatchTo : PatchDispute(d, status)
  \/ BlockOrganisation
  \/ \E r \in Requests, a \in Admins, d \in Disputes : CreateRequest(r, a, d)
  \/ \E r \in Requests : PassDeadline(r)

LEMMA NextSplit ==
  Next <=> (\E h \in Handlers : Serve(h) \/ Ask(h)) \/ Outside
BY DEF Next, Outside

LEMMA OutsideType ==
  ASSUME TypeOK, Outside
  PROVE  TypeOK'
<1>1. ASSUME NEW p \in People, NEW as \in JoinRoles, Join(p, as) PROVE TypeOK'
  BY <1>1, RolesAndStatuses DEF TypeOK, Join, records
<1>2. ASSUME NEW d \in Disputes, NEW parties \in Parties, NEW severity \in {"SOFT", "HARD"},
             OpenDispute(d, parties, severity)
      PROVE  TypeOK'
  <2>. DEFINE new == [status |-> "EVIDENCE_REQUIRED", claimant |-> parties[1],
                      incumbent |-> parties[2], severity |-> severity]
  <2>1. new \in Dispute
    BY ClaimantsDisputeOthers DEF Dispute, DisputeStatuses
  <2>2. new # NoDispute
    BY DEF NoDispute
  <2>3. /\ dispute' \in [Disputes -> Dispute \cup {NoDispute}]
        /\ \A e \in Disputes : dispute[e] # NoDispute => dispute'[e] # NoDispute
    <3>. HIDE DEF new
    <3>1. dispute' = [dispute EXCEPT ![d] = new]
      BY <1>2 DEF OpenDispute, new
    <3>. QED
      BY <2>1, <2>2, <3>1 DEF TypeOK
  <2>4. mode' \in Modes
    BY <1>2 DEF OpenDispute, Modes
  <2>5. \A q \in Requests : request[q] # NoRequest => request[q].dispute \in Disputes
    BY RequestShape
  <2>. QED
    BY <1>2, <2>3, <2>4, <2>5 DEF TypeOK, OpenDispute, membership, records
<1>3. ASSUME NEW d \in Disputes, NEW status \in DisputeStatuses, dispute[d] # NoDispute,
             dispute' = [dispute EXCEPT ![d].status = status],
             UNCHANGED <<membership, mode, request, late, job, records>>
      PROVE  TypeOK'
  <2>1. \A q \in Requests : request[q] # NoRequest => request[q].dispute \in Disputes
    BY RequestShape
  <2>. QED
    BY <1>3, <2>1, DisputeUpdate DEF TypeOK, membership, records
<1>4. ASSUME NEW d \in Disputes,
             CounterClaim(d) \/ \E status \in PatchTo : PatchDispute(d, status)
      PROVE  TypeOK'
  <2>1. "EVIDENCE_REVIEW" \in DisputeStatuses
    BY DEF DisputeStatuses
  <2>. QED
    BY <1>3, <1>4, <2>1, RolesAndStatuses DEF CounterClaim, PatchDispute
<1>5. CASE BlockOrganisation
  BY <1>5 DEF TypeOK, BlockOrganisation, membership, records, Modes
<1>6. ASSUME NEW r \in Requests, NEW a \in Admins, NEW d \in Disputes, CreateRequest(r, a, d)
      PROVE  TypeOK'
  <2>. DEFINE new == [status |-> "PENDING", requester |-> a, approvers |-> {}, dispute |-> d]
  <2>1. new \in Request /\ new.dispute = d
    BY DEF Request, ApprovalStatuses
  <2>2. request' = [request EXCEPT ![r] = new] /\ dispute[d] # NoDispute
    BY <1>6 DEF CreateRequest
  <2>. HIDE DEF new
  <2>3. request' \in [Requests -> Request \cup {NoRequest}]
    BY <2>1, <2>2 DEF TypeOK
  <2>4. \A q \in Requests :
          request'[q] # NoRequest => dispute[request'[q].dispute] # NoDispute
    BY <2>1, <2>2 DEF TypeOK
  <2>. QED
    BY <1>6, <2>3, <2>4 DEF TypeOK, CreateRequest, membership, records
<1>7. ASSUME NEW r \in Requests, PassDeadline(r) PROVE TypeOK'
  BY <1>7 DEF TypeOK, PassDeadline, membership, records
<1>. QED
  BY <1>1, <1>2, <1>4, <1>5, <1>6, <1>7 DEF Outside

LEMMA TypeStep ==
  ASSUME TypeOK, JobsInv, [Next]_vars
  PROVE  TypeOK'
<1>1. CASE UNCHANGED vars
  BY <1>1 DEF TypeOK, vars
<1>. QED
  BY <1>1, NextSplit, ServeType, AskType, OutsideType

-----------------------------------------------------------------------------
(* Approvals and transfers *)

\* What no step takes back.
OnlyGrows ==
  /\ \A r \in Requests : request[r] # NoRequest =>
       request'[r] # NoRequest /\ request'[r].requester = request[r].requester
  /\ \A r \in Requests : said[r] \subseteq said'[r]
  /\ transferred \subseteq transferred'
  /\ audited \subseteq audited'

LEMMA EnoughForever ==
  ASSUME TypeOK, TypeOK', OnlyGrows, NEW r \in Requests, Cardinality(said[r]) >= 2
  PROVE  Cardinality(said'[r]) >= 2
<1>1. said[r] \subseteq said'[r] /\ said'[r] \subseteq Admins
  BY DEF TypeOK, OnlyGrows
<1>2. IsFiniteSet(said'[r]) /\ IsFiniteSet(said[r])
  BY <1>1, AdminsAreFinite, FS_Subset
<1>3. Cardinality(said[r]) <= Cardinality(said'[r])
  BY <1>1, <1>2, FS_Subset
<1>4. Cardinality(said[r]) \in Nat /\ Cardinality(said'[r]) \in Nat
  BY <1>2, FS_CardinalityType
<1>. QED
  BY <1>3, <1>4

\* A handler that does nothing keeps what it knows.
LEMMA JobKeeps ==
  ASSUME TypeOK, TypeOK', OnlyGrows, NEW h \in Handlers, JobOK(h), job'[h] = job[h]
  PROVE  JobOK(h)'
<1>1. job[h].step \in {"approve"} \cup TransferSteps => job[h].on \in Requests
  BY JobShape
<1>2. job[h].step \in {"transfer", "midway"} => Cardinality(said'[job[h].on]) >= 2
  BY <1>1, EnoughForever DEF JobOK, TransferSteps
<1>. QED
  BY <1>1, <1>2 DEF JobOK, OnlyGrows, TransferSteps

LEMMA DoneKeeps ==
  ASSUME TypeOK, TypeOK', OnlyGrows, DoneInv, transferred' = transferred
  PROVE  DoneInv'
BY EnoughForever DEF DoneInv, OnlyGrows, TypeOK

\* Steps that leave the requests and the history alone.
LEMMA QuietStep ==
  ASSUME RowsInv, DoneInv, ExecutedIsDone, UNCHANGED <<request, records>>
  PROVE  OnlyGrows /\ RowsInv' /\ DoneInv' /\ ExecutedIsDone'
BY DEF RowsInv, DoneInv, ExecutedIsDone, OnlyGrows, records

\* Steps that set the status of a request to one other than EXECUTED.
LEMMA ExpireStep ==
  ASSUME TypeOK, RowsInv, DoneInv, ExecutedIsDone,
         NEW r \in Requests, request[r] # NoRequest, Expire(r), UNCHANGED records
  PROVE  OnlyGrows /\ RowsInv' /\ DoneInv' /\ ExecutedIsDone'
<1>1. "EXPIRED" \in ApprovalStatuses /\ request[r].approvers \in SUBSET Admins
  BY RequestShape DEF ApprovalStatuses
<1>2. /\ request'[r].approvers = request[r].approvers /\ request'[r].status = "EXPIRED"
      /\ \A q \in Requests :
           /\ request'[q].requester = request[q].requester
           /\ request[q] = NoRequest <=> request'[q] = NoRequest
           /\ q # r => request'[q] = request[q]
  BY <1>1, StatusUpdate DEF Expire
<1>3. OnlyGrows
  BY <1>2 DEF OnlyGrows, records
<1>4. RowsInv'
  BY <1>2 DEF RowsInv, records
<1>5. DoneInv' /\ ExecutedIsDone'
  BY <1>2 DEF DoneInv, ExecutedIsDone, records, TypeOK
<1>. QED
  BY <1>3, <1>4, <1>5

\* A row with two approvers was approved by two people.
LEMMA ApprovedByTwo ==
  ASSUME TypeOK, RowsInv, NEW r \in Requests, request[r] # NoRequest, Approved(r)
  PROVE  Cardinality(said[r]) >= 2
<1>1. request[r].approvers \subseteq said[r] /\ said[r] \subseteq Admins
  BY DEF RowsInv, TypeOK
<1>2. IsFiniteSet(said[r])
  BY <1>1, AdminsAreFinite, FS_Subset
<1>3. /\ Cardinality(request[r].approvers) <= Cardinality(said[r])
      /\ IsFiniteSet(request[r].approvers)
  BY <1>1, <1>2, FS_Subset
<1>4. Cardinality(request[r].approvers) \in Nat /\ Cardinality(said[r]) \in Nat
  BY <1>2, <1>3, FS_CardinalityType
<1>. QED
  BY <1>3, <1>4 DEF Approved

LEMMA WriteApprovalStep ==
  ASSUME IInv, NEW h \in Handlers, WriteApproval(h)
  PROVE  OnlyGrows /\ RowsInv' /\ ExecutedIsDone'
<1>. DEFINE r == job[h].on
            status == IF Cardinality(job[h].saw) >= 2 THEN "APPROVED" ELSE "PENDING"
<1>. USE DEF IInv
<1>1. r \in Requests /\ job[h].who \in Admins /\ job[h].saw \in SUBSET Admins
  BY JobShape DEF WriteApproval
<1>2. /\ request[r] # NoRequest /\ job[h].who # request[r].requester
      /\ job[h].saw \subseteq said[r] \cup {job[h].who}
  BY DEF JobsInv, JobOK, WriteApproval
<1>3. status \in ApprovalStatuses /\ status # "EXECUTED"
  BY DEF ApprovalStatuses
<1>4. /\ request'[r].approvers = job[h].saw /\ request'[r].status = status
      /\ \A q \in Requests :
           /\ request'[q].requester = request[q].requester
           /\ request[q] = NoRequest <=> request'[q] = NoRequest
           /\ q # r => request'[q] = request[q]
  <2>1. request' = [request EXCEPT ![r].approvers = job[h].saw, ![r].status = status]
    BY DEF WriteApproval
  <2>2. TypeOK /\ request[r] # NoRequest
    BY <1>2
  <2>3. \A q \in Requests :
          /\ request'[q].requester = request[q].requester
          /\ request[q] = NoRequest <=> request'[q] = NoRequest
    BY <1>1, <1>3, <2>1, <2>2, RequestUpdate
  <2>4. \A q \in Requests : q # r => request'[q] = request[q]
    BY <2>1, <2>2 DEF TypeOK
  <2>5. request'[r] = [request[r] EXCEPT !.approvers = job[h].saw, !.status = status]
    BY <1>1, <2>1, <2>2 DEF TypeOK
  <2>6. request'[r].approvers = job[h].saw /\ request'[r].status = status
    <3>1. request[r] \in Request
      BY <1>1, <2>2, RequestShape
    <3>. QED
      BY <2>5, <3>1 DEF Request
  <2>. QED
    BY <2>3, <2>4, <2>6
<1>5. said'[r] = said[r] \cup {job[h].who} /\ \A q \in Requests : q # r => said'[q] = said[q]
  BY <1>1 DEF WriteApproval, TypeOK
<1>6. OnlyGrows
  BY <1>4, <1>5 DEF OnlyGrows, WriteApproval
<1>7. RowsInv'
  <2>. SUFFICES ASSUME NEW q \in Requests
                PROVE  IF request'[q] = NoRequest THEN said'[q] = {}
                       ELSE /\ request'[q].approvers \subseteq said'[q]
                            /\ request'[q].requester \notin said'[q]
    BY DEF RowsInv
  <2>1. CASE q = r
    BY <1>1, <1>2, <1>4, <1>5, <2>1 DEF RowsInv
  <2>2. CASE q # r
    BY <1>4, <1>5, <2>2 DEF RowsInv
  <2>. QED
    BY <2>1, <2>2
<1>8. ExecutedIsDone'
  BY <1>1, <1>3, <1>4 DEF ExecutedIsDone, WriteApproval
<1>. QED
  BY <1>6, <1>7, <1>8

\* The commit of a transfer that two people have approved.
LEMMA TransferredStep ==
  ASSUME TypeOK, RowsInv, DoneInv, ExecutedIsDone, NEW h \in Handlers, NEW roles,
         job[h].on \in Requests, request[job[h].on] # NoRequest,
         Cardinality(said[job[h].on]) >= 2,
         Transferred(h, roles), UNCHANGED <<request, late, said, audited>>
  PROVE  /\ OnlyGrows /\ RowsInv' /\ DoneInv' /\ ExecutedIsDone'
         /\ JobOK(h)'
<1>1. transferred' = transferred \cup {job[h].on}
  BY DEF Transferred
<1>2. OnlyGrows /\ RowsInv' /\ DoneInv' /\ ExecutedIsDone'
  BY <1>1 DEF OnlyGrows, RowsInv, DoneInv, ExecutedIsDone
<1>3. job'[h] = [job[h] EXCEPT !.step = "audit"]
  BY DEF Transferred, Goto, TypeOK
<1>4. job'[h].on = job[h].on /\ job'[h].step = "audit"
  BY <1>3, JobShape DEF Job, Idle
<1>5. JobOK(h)'
  BY <1>1, <1>4 DEF JobOK, TransferSteps
<1>. QED
  BY <1>2, <1>5

LEMMA IdleIsOK ==
  ASSUME NEW h, job'[h] = Idle
  PROVE  JobOK(h)'
BY DEF JobOK, Idle, TransferSteps

LEMMA AnswerFacts ==
  ASSUME TypeOK, NEW h \in Handlers, Answer(h)
  PROVE  job'[h] = Idle /\ \A g \in Handlers : g # h => job'[g] = job[g]
BY DEF TypeOK, Answer

LEMMA GotoFacts ==
  ASSUME TypeOK, NEW h \in Handlers, NEW step, Goto(h, step)
  PROVE  /\ job'[h].step = step /\ job'[h].on = job[h].on
         /\ job'[h].who = job[h].who /\ job'[h].saw = job[h].saw
         /\ \A g \in Handlers : g # h => job'[g] = job[g]
<1>1. job[h] \in Job
  BY JobShape
<1>. QED
  BY <1>1 DEF TypeOK, Goto, Job, Idle

\* What a handler's own step leaves true of the rows and of itself.
Kept(h) ==
  /\ OnlyGrows /\ RowsInv' /\ DoneInv' /\ ExecutedIsDone' /\ JobOK(h)'
  /\ \A g \in Handlers : g # h => job'[g] = job[g]

LEMMA MemberStepKeeps ==
  ASSUME IInv, NEW h \in Handlers,
         \/ CheckFreeze(h) \/ ReadOwnership(h) \/ ReadSuccessor(h) \/ HandOver(h)
         \/ ReadTarget(h) \/ RemoveMember(h) \/ Fail(h)
  PROVE  Kept(h)
<1>. USE DEF IInv
<1>1. UNCHANGED <<request, records>>
  BY DEF CheckFreeze, ReadOwnership, ReadSuccessor, HandOver, ReadTarget, RemoveMember, Fail
<1>2. PICK step \in MemberSteps : Answer(h) \/ Goto(h, step)
  BY DEF CheckFreeze, ReadOwnership, ReadSuccessor, HandOver, ReadTarget, RemoveMember,
         Fail, MemberSteps
<1>3. CASE Answer(h)
  BY <1>1, <1>3, QuietStep, AnswerFacts, IdleIsOK DEF Kept
<1>4. CASE Goto(h, step)
  <2>1. JobOK(h)'
    BY <1>4, GotoFacts DEF JobOK, MemberSteps, TransferSteps
  <2>. QED
    BY <1>1, <1>4, <2>1, QuietStep, GotoFacts DEF Kept
<1>. QED
  BY <1>2, <1>3, <1>4

LEMMA ApprovalStepKeeps ==
  ASSUME IInv, TypeOK', NEW h \in Handlers,
         WriteApproval(h) \/ ReadDispute(h) \/ ReadApproval(h)
  PROVE  Kept(h)
<1>. USE DEF IInv
<1>. DEFINE r == job[h].on
<1>1. r \in Requests /\ request[r] # NoRequest
  BY JobShape DEF WriteApproval, ReadDispute, ReadApproval, TransferSteps, JobsInv, JobOK
<1>2. CASE WriteApproval(h)
  <2>1. OnlyGrows /\ RowsInv' /\ ExecutedIsDone'
    BY <1>2, WriteApprovalStep
  <2>2. DoneInv'
    BY <1>2, <2>1, DoneKeeps DEF WriteApproval
  <2>. QED
    BY <1>2, <2>1, <2>2, AnswerFacts, IdleIsOK DEF Kept, WriteApproval
<1>3. CASE Answer(h) /\ UNCHANGED <<request, records>>
  BY <1>3, QuietStep, AnswerFacts, IdleIsOK DEF Kept
<1>4. CASE ReadDispute(h)
  <2>1. CASE Goto(h, "approval")
    <3>1. JobOK(h)'
      BY <1>1, <1>4, <2>1, GotoFacts DEF JobOK, TransferSteps, ReadDispute
    <3>. QED
      BY <1>4, <2>1, <3>1, QuietStep, GotoFacts DEF Kept, ReadDispute
  <2>. QED
    BY <1>3, <1>4, <2>1 DEF ReadDispute
<1>5. CASE ReadApproval(h)
  <2>1. UNCHANGED records
    BY <1>5 DEF ReadApproval
  <2>2. CASE Expire(r) /\ Answer(h)
    BY <1>1, <2>1, <2>2, ExpireStep, AnswerFacts, IdleIsOK DEF Kept
  <2>3. CASE Approved(r) /\ Goto(h, "transfer") /\ UNCHANGED request
    <3>1. Cardinality(said[r]) >= 2
      BY <1>1, <2>3, ApprovedByTwo
    <3>2. JobOK(h)'
      BY <1>1, <2>1, <2>3, <3>1, GotoFacts DEF JobOK, TransferSteps, records
    <3>. QED
      BY <2>1, <2>3, <3>2, QuietStep, GotoFacts DEF Kept
  <2>. QED
    BY <1>3, <1>5, <2>1, <2>2, <2>3 DEF ReadApproval
<1>. QED
  BY <1>2, <1>4, <1>5

LEMMA TransferStepKeeps ==
  ASSUME IInv, NEW h \in Handlers,
         TransferOwner(h) \/ CommitTransfer(h) \/ AppendAudit(h) \/ MarkExecuted(h)
  PROVE  Kept(h)
<1>. USE DEF IInv
<1>. DEFINE r == job[h].on
<1>1. r \in Requests /\ request[r] # NoRequest
  BY JobShape DEF TransferOwner, CommitTransfer, AppendAudit, MarkExecuted,
                  TransferSteps, JobsInv, JobOK
<1>2. ASSUME NEW roles, Transferred(h, roles), UNCHANGED <<request, late, said, audited>>,
             job[h].step \in {"transfer", "midway"}
      PROVE  Kept(h)
  <2>1. Cardinality(said[r]) >= 2
    BY <1>2 DEF JobsInv, JobOK
  <2>2. Goto(h, "audit")
    BY <1>2 DEF Transferred
  <2>. QED
    BY <1>1, <1>2, <2>1, <2>2, TransferredStep, GotoFacts DEF Kept
<1>3. CASE TransferOwner(h)
  <2>1. CASE Answer(h) /\ UNCHANGED transferred
    BY <1>3, <2>1, QuietStep, AnswerFacts, IdleIsOK DEF Kept, TransferOwner, records
  <2>2. CASE Goto(h, "midway") /\ UNCHANGED transferred
    <3>1. UNCHANGED <<request, records>> /\ Cardinality(said[r]) >= 2
      BY <1>3, <2>2 DEF TransferOwner, records, JobsInv, JobOK
    <3>2. JobOK(h)'
      BY <1>1, <2>2, <3>1, GotoFacts DEF JobOK, TransferSteps, records
    <3>. QED
      BY <2>2, <3>1, <3>2, QuietStep, GotoFacts DEF Kept
  <2>. QED
    BY <1>2, <1>3, <2>1, <2>2 DEF TransferOwner
<1>4. CASE CommitTransfer(h)
  BY <1>2, <1>4 DEF CommitTransfer
<1>5. CASE AppendAudit(h)
  <2>1. r \in transferred
    BY <1>5 DEF AppendAudit, JobsInv, JobOK
  <2>2. audited' = audited \cup {r} /\ UNCHANGED <<request, said, transferred>> /\ Goto(h, "mark")
    BY <1>5 DEF AppendAudit
  <2>3. OnlyGrows /\ RowsInv' /\ DoneInv' /\ ExecutedIsDone'
    BY <2>2 DEF OnlyGrows, RowsInv, DoneInv, ExecutedIsDone
  <2>4. JobOK(h)'
    BY <1>1, <2>1, <2>2, GotoFacts DEF JobOK, TransferSteps
  <2>. QED
    BY <2>2, <2>3, <2>4, GotoFacts DEF Kept
<1>6. CASE MarkExecuted(h)
  <2>1. r \in transferred /\ r \in audited
    BY <1>6 DEF MarkExecuted, JobsInv, JobOK
  <2>2. "EXECUTED" \in ApprovalStatuses /\ request[r].approvers \in SUBSET Admins
    BY <1>1, RequestShape DEF ApprovalStatuses
  <2>3. /\ request'[r].approvers = request[r].approvers
        /\ \A q \in Requests :
             /\ request'[q].requester = request[q].requester
             /\ request[q] = NoRequest <=> request'[q] = NoRequest
             /\ q # r => request'[q] = request[q]
    <3>1. TypeOK /\ request' = [request EXCEPT ![r].status = "EXECUTED"]
      BY <1>6 DEF MarkExecuted
    <3>. QED
      BY <1>1, <2>2, <3>1, StatusUpdate
  <2>4. OnlyGrows /\ RowsInv' /\ DoneInv'
    BY <1>6, <2>3 DEF OnlyGrows, RowsInv, DoneInv, MarkExecuted, records, TypeOK
  <2>5. ExecutedIsDone'
    BY <1>6, <2>1, <2>3 DEF ExecutedIsDone, MarkExecuted, records
  <2>. QED
    BY <1>6, <2>4, <2>5, AnswerFacts, IdleIsOK DEF Kept, MarkExecuted
<1>. QED
  BY <1>3, <1>4, <1>5, <1>6

LEMMA AskKeeps ==
  ASSUME IInv, NEW h \in Handlers, Ask(h)
  PROVE  Kept(h)
<1>. USE DEF IInv
<1>1. ASSUME NEW p \in People, NEW q \in People, AskHandOver(h, p, q) \/ AskRemoval(h, p, q)
      PROVE  Kept(h)
  <2>1. /\ job'[h].step \in MemberSteps
        /\ \A g \in Handlers : g # h => job'[g] = job[g]
    BY <1>1 DEF AskHandOver, AskRemoval, Busy, TypeOK, MemberSteps
  <2>2. JobOK(h)'
    BY <2>1 DEF JobOK, MemberSteps, TransferSteps
  <2>. QED
    BY <1>1, <2>1, <2>2, QuietStep DEF Kept, AskHandOver, AskRemoval
<1>2. ASSUME NEW a \in Admins, NEW r \in Requests, ReadToApprove(h, a, r)
      PROVE  Kept(h)
  <2>1. CASE Expire(r) /\ UNCHANGED job
    <3>1. OnlyGrows /\ RowsInv' /\ DoneInv' /\ ExecutedIsDone'
      BY <1>2, <2>1, ExpireStep DEF ReadToApprove
    <3>2. job'[h] = Idle
      BY <1>2, <2>1 DEF ReadToApprove
    <3>. QED
      BY <2>1, <3>1, <3>2, IdleIsOK DEF Kept
  <2>2. CASE /\ request[r].requester # a
             /\ job' = [job EXCEPT ![h] = Busy("approve", a, r, request[r].approvers \cup {a})]
             /\ UNCHANGED request
    <3>1. /\ job'[h] = Busy("approve", a, r, request[r].approvers \cup {a})
          /\ \A g \in Handlers : g # h => job'[g] = job[g]
      BY <2>2 DEF TypeOK
    <3>2. UNCHANGED <<request, records>> /\ request[r] # NoRequest
      BY <1>2, <2>2 DEF ReadToApprove
    <3>3. request[r].approvers \subseteq said[r]
      BY <3>2 DEF RowsInv
    <3>4. JobOK(h)'
      BY <2>2, <3>1, <3>2, <3>3 DEF JobOK, Busy, records
    <3>. QED
      BY <3>1, <3>2, <3>4, QuietStep DEF Kept
  <2>. QED
    BY <1>2, <2>1, <2>2 DEF ReadToApprove
<1>3. ASSUME NEW a \in Admins, NEW r \in Requests, AskTransfer(h, a, r)
      PROVE  Kept(h)
  <2>1. /\ job'[h].step = "dispute" /\ job'[h].on = r
        /\ \A g \in Handlers : g # h => job'[g] = job[g]
    BY <1>3 DEF AskTransfer, Busy, TypeOK
  <2>2. JobOK(h)'
    BY <1>3, <2>1 DEF AskTransfer, JobOK
  <2>. QED
    BY <1>3, <2>1, <2>2, QuietStep DEF Kept, AskTransfer
<1>. QED
  BY <1>1, <1>2, <1>3 DEF Ask

LEMMA OutsideKeeps ==
  ASSUME IInv, Outside
  PROVE  OnlyGrows /\ RowsInv' /\ DoneInv' /\ ExecutedIsDone' /\ UNCHANGED job
<1>. USE DEF IInv
<1>1. ASSUME NEW r \in Requests, NEW a \in Admins, NEW d \in Disputes, CreateRequest(r, a, d)
      PROVE  OnlyGrows /\ RowsInv' /\ DoneInv' /\ ExecutedIsDone' /\ UNCHANGED job
  <2>. DEFINE new == [status |-> "PENDING", requester |-> a, approvers |-> {}, dispute |-> d]
  <2>1. /\ request[r] = NoRequest /\ request' = [request EXCEPT ![r] = new]
        /\ UNCHANGED <<job, records>>
    BY <1>1 DEF CreateRequest
  <2>2. new # NoRequest /\ new.approvers = {} /\ new.status # "EXECUTED"
    BY DEF NoRequest
  <2>. HIDE DEF new
  <2>3. OnlyGrows
    BY <2>1 DEF OnlyGrows, records, TypeOK
  <2>4. RowsInv'
    BY <2>1, <2>2 DEF RowsInv, records, TypeOK
  <2>5. DoneInv' /\ ExecutedIsDone'
    BY <2>1, <2>2 DEF DoneInv, ExecutedIsDone, records, TypeOK
  <2>. QED
    BY <2>1, <2>3, <2>4, <2>5
<1>2. CASE UNCHANGED <<request, records, job>>
  BY <1>2, QuietStep
<1>. QED
  BY <1>1, <1>2 DEF Outside, Join, OpenDispute, CounterClaim, PatchDispute, BlockOrganisation,
                    PassDeadline

LEMMA Initially == Init => IInv
<1>. SUFFICES ASSUME Init PROVE IInv
  OBVIOUS
<1>1. \A h \in Handlers : job[h] = Idle
  BY DEF Init
<1>2. TypeOK
  BY FirstOwnerIsAPerson DEF Init, TypeOK, Job, UserRoles, Modes
<1>3. RowsInv /\ DoneInv /\ ExecutedIsDone
  BY DEF Init, RowsInv, DoneInv, ExecutedIsDone, NoRequest
<1>4. JobsInv
  BY <1>1 DEF JobsInv, JobOK, Idle, TransferSteps
<1>. QED
  BY <1>2, <1>3, <1>4 DEF IInv

LEMMA EveryStep == IInv /\ [Next]_vars => IInv'
<1>. SUFFICES ASSUME IInv, [Next]_vars PROVE IInv'
  OBVIOUS
<1>1. TypeOK'
  BY TypeStep DEF IInv
<1>2. ASSUME NEW h \in Handlers, Kept(h) PROVE IInv'
  <2>1. ASSUME NEW g \in Handlers PROVE JobOK(g)'
    BY <1>1, <1>2, <2>1, JobKeeps DEF Kept, IInv, JobsInv
  <2>. QED
    BY <1>1, <1>2, <2>1 DEF Kept, IInv, JobsInv
<1>3. CASE \E h \in Handlers : Serve(h) \/ Ask(h)
  BY <1>1, <1>2, <1>3, MemberStepKeeps, ApprovalStepKeeps, TransferStepKeeps, AskKeeps DEF Serve
<1>4. CASE Outside
  <2>1. OnlyGrows /\ RowsInv' /\ DoneInv' /\ ExecutedIsDone' /\ UNCHANGED job
    BY <1>4, OutsideKeeps
  <2>2. ASSUME NEW g \in Handlers PROVE JobOK(g)'
    BY <1>1, <2>1, <2>2, JobKeeps DEF IInv, JobsInv
  <2>. QED
    BY <1>1, <2>1, <2>2 DEF IInv, JobsInv
<1>5. CASE UNCHANGED vars
  <2>1. RowsInv' /\ DoneInv' /\ ExecutedIsDone'
    BY <1>5, QuietStep DEF vars, records, IInv
  <2>2. JobsInv'
    BY <1>5 DEF vars, IInv, JobsInv, JobOK
  <2>. QED
    BY <1>1, <2>1, <2>2 DEF IInv
<1>. QED
  BY <1>3, <1>4, <1>5, NextSplit

-----------------------------------------------------------------------------
(* Theorems *)

LEMMA Inductive == Spec => []IInv
BY Initially, EveryStep, PTL DEF Spec

\* Types hold for any numbers of people, disputes, requests and handlers.
THEOREM RecoveryTypes == Spec => []TypeOK
<1>1. IInv => TypeOK
  BY DEF IInv
<1>. QED
  BY <1>1, Inductive, PTL

\* No transfer without the approval of two people other than the requester,
\* however many approvals overwrite one another (DualApprovalService.approve).
THEOREM TransfersAreAuthorised == Spec => []AuthorisedByTwo
<1>1. IInv => AuthorisedByTwo
  <2>. SUFFICES ASSUME IInv, NEW r \in transferred
                PROVE  Cardinality(said[r] \ {request[r].requester}) >= 2
    BY DEF AuthorisedByTwo
  <2>1. r \in Requests /\ request[r] # NoRequest /\ Cardinality(said[r]) >= 2
    BY DEF IInv, TypeOK, DoneInv
  <2>2. request[r].requester \notin said[r]
    BY <2>1 DEF IInv, RowsInv
  <2>3. said[r] \ {request[r].requester} = said[r]
    BY <2>2
  <2>. QED
    BY <2>1, <2>3
<1>. QED
  BY <1>1, Inductive, PTL

\* A request that says EXECUTED has been, and is in the audit trail (executeIfApproved).
THEOREM ExecutedRequestsAreDone == Spec => []ExecutedIsDone
<1>1. IInv => ExecutedIsDone
  BY DEF IInv
<1>. QED
  BY <1>1, Inductive, PTL

\* Ownership goes to members only, also when the member is removed while it is
\* handed over (transferOwnership, executeTransfer, removeMember).
THEOREM OwnershipGoesToMembers == Spec => NewOwnerIsMember
<1>1. IInv /\ [Next]_vars => [owner' # owner => role'[owner'] = "OWNER"]_vars
  <2>. SUFFICES ASSUME IInv, Next, owner' # owner PROVE role'[owner'] = "OWNER"
    BY DEF vars
  <2>1. ASSUME NEW h \in Handlers, HandOver(h) PROVE role'[owner'] = "OWNER"
    <3>1. job[h].on \in People
      BY <2>1, JobShape DEF HandOver, IInv, MemberSteps
    <3>. QED
      BY <2>1, <3>1 DEF HandOver, IInv, TypeOK, membership
  <2>2. ASSUME NEW h \in Handlers, NEW roles, DOMAIN roles = People, Transferred(h, roles),
               job[h].step \in {"transfer", "midway"}
        PROVE  role'[owner'] = "OWNER"
    <3>1. ClaimOf(job[h].on).claimant \in People
      BY <2>2, JobShape, RequestShape DEF IInv, JobsInv, JobOK, TransferSteps
    <3>. QED
      BY <2>2, <3>1 DEF Transferred
  <2>3. ASSUME NEW h \in Handlers, TransferOwner(h) PROVE role'[owner'] = "OWNER"
    BY <2>2, <2>3 DEF TransferOwner, membership, IInv, TypeOK
  <2>4. ASSUME NEW h \in Handlers, CommitTransfer(h) PROVE role'[owner'] = "OWNER"
    BY <2>2, <2>4 DEF CommitTransfer, IInv, TypeOK
  <2>. QED
    <3>1. ASSUME NEW h \in Handlers, Serve(h)
          PROVE  HandOver(h) \/ TransferOwner(h) \/ CommitTransfer(h)
      BY <3>1 DEF Serve, CheckFreeze, ReadOwnership, ReadSuccessor, ReadTarget, RemoveMember,
           WriteApproval, ReadDispute, ReadApproval, AppendAudit, MarkExecuted, Fail, membership
    <3>2. ASSUME NEW h \in Handlers, Ask(h) PROVE FALSE
      BY <3>2 DEF Ask, AskHandOver, AskRemoval, ReadToApprove, AskTransfer, membership
    <3>3. \E h \in Handlers : Serve(h) \/ Ask(h)
      BY DEF Next, Join, OpenDispute, CounterClaim, PatchDispute, BlockOrganisation,
             CreateRequest, PassDeadline, membership
    <3>. QED
      BY <2>1, <2>3, <2>4, <3>1, <3>2, <3>3
<1>. QED
  BY <1>1, Inductive, PTL DEF Spec, NewOwnerIsMember
=============================================================================
