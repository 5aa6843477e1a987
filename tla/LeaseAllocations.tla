-------------------------- MODULE LeaseAllocations --------------------------
(* Signed leases earn money for the agents of an organization: a request for *)
(* its distribution is submitted, reviewed, withdrawn, expired or voided     *)
(* while the lease itself is changed.                                        *)
(* (src/apps/house/services/allocations.py, leases.py; src/apps/house/       *)
(* tasks.py; src/apps/allocation/services.py.)                               *)
(*                                                                           *)
(* Every handler first locks the organization's row, so that it is one       *)
(* action; what is hard is the order in which people call them.              *)
EXTENDS Naturals, FiniteSets

CONSTANTS
    Leases,
    Requests,   \* AllocationRequest primary keys, in the order of creation
    Terms,      \* what a lease agrees on: house, tenant, rent, deposit, dates, team
    Rules,      \* what resolve_lease_allocation_rule may return
    NoLease, NoRequest

ASSUME RequestIds == Requests \subseteq Nat \ {0} /\ NoRequest \notin Requests
ASSUME TermsExist == Terms # {}

VARIABLES
    lstatus,   \* Lease.status, "none" before creation
    terms,     \* the critical fields of each lease
    rule,      \* the distribution rule in force
    req,       \* the requests: lease, status, snapshot of terms and rule, origin
    due,       \* the requests older than seven days
    posted,    \* number of ALLOCATION entries of each share of a request
    reversed   \* number of REVERSAL entries of each share of a request

ledger == <<posted, reversed>>
vars == <<lstatus, terms, rule, req, due, ledger>>

LeaseStatuses == {"none", "pending", "active", "expired", "terminated"}
RequestStatuses == {"none", "pending", "approved", "rejected", "expired", "voided", "withdrawn"}
Modes == {"initial", "resubmit", "correction"}

\* LEASE_STATUS_TRANSITIONS
Transitions ==
    [pending |-> {"pending", "active", "terminated"},
     active |-> {"active", "expired", "terminated"},
     expired |-> {"expired"},
     terminated |-> {"terminated"}]

\* What a request not yet created holds; nothing reads it.
Unused == [lease |-> NoLease, status |-> "none", terms |-> CHOOSE t \in Terms : TRUE,
           rule |-> CHOOSE u \in Rules : TRUE, mode |-> "initial", previous |-> NoRequest]

Init ==
    /\ lstatus = [l \in Leases |-> "none"]
    /\ terms \in [Leases -> Terms]
    /\ rule \in Rules
    /\ req = [r \in Requests |-> Unused]
    /\ due = {}
    /\ posted = [r \in Requests |-> 0]
    /\ reversed = [r \in Requests |-> 0]

-----------------------------------------------------------------------------

Of(l) == {r \in Requests : req[r].lease = l /\ req[r].status # "none"}
Effective(r) == req[r].status \in {"pending", "approved"}

\* The next free key.
Fresh(r) == req[r].status = "none" /\ \A q \in Requests : q < r => req[q].status # "none"

IsLatest(r, l) == r \in Of(l) /\ \A q \in Of(l) : q <= r

SetStatus(r, s) == req' = [req EXCEPT ![r].status = s]

\* create_lease
CreateLease(l) ==
    /\ lstatus[l] = "none"
    /\ lstatus' = [lstatus EXCEPT ![l] = "pending"]
    /\ UNCHANGED <<terms, rule, req, due, ledger>>

\* register_signing; a repeated client_request_id returns the first lease.
RegisterSigning(l) ==
    /\ lstatus[l] = "none"
    /\ lstatus' = [lstatus EXCEPT ![l] = "active"]
    /\ UNCHANGED <<terms, rule, req, due, ledger>>

\* Mutation: the request is not linked to its lease.
NewRequestUnlinked(r, l, t, u, mode, previous) ==
    req' = [req EXCEPT ![r] = [lease |-> NoLease, status |-> "pending", terms |-> t,
                               rule |-> u, mode |-> mode, previous |-> previous]]

\* create_allocation_request, and the LeaseAllocation that links it to the lease
NewRequest(r, l, t, u, mode, previous) ==
    req' = [req EXCEPT ![r] = [lease |-> l, status |-> "pending", terms |-> t,
                               rule |-> u, mode |-> mode, previous |-> previous]]

\* sign_lease: the lease and its first request, or neither.
SignLease(l, r) ==
    /\ lstatus[l] = "none"
    /\ Fresh(r)
    /\ lstatus' = [lstatus EXCEPT ![l] = "active"]
    /\ NewRequest(r, l, terms[l], rule, "initial", NoRequest)
    /\ UNCHANGED <<terms, rule, due, ledger>>

\* Mutation: only an approved request protects the lease.
MayChangeTermsUnapproved(l) == \A r \in Of(l) : req[r].status # "approved"

\* update_lease and Lease.clean
MayChangeTerms(l) == \A r \in Of(l) : ~Effective(r)

\* cancel_terminated_lease_allocations
Cancelled(l, s) == IF s = "terminated" THEN {r \in Of(l) : req[r].status = "pending"} ELSE {}

UpdateLease(l, t, s) ==
    /\ lstatus[l] # "none"
    /\ s \in Transitions[lstatus[l]]
    /\ t # terms[l] => MayChangeTerms(l)
    /\ lstatus' = [lstatus EXCEPT ![l] = s]
    /\ terms' = [terms EXCEPT ![l] = t]
    /\ req' = [r \in Requests |->
                 IF r \in Cancelled(l, s) THEN [req[r] EXCEPT !.status = "withdrawn"] ELSE req[r]]
    /\ UNCHANGED <<rule, due, ledger>>

\* The settings of the organization or the team change.
ChangeRule(u) ==
    /\ rule' = u
    /\ UNCHANGED <<lstatus, terms, req, due, ledger>>

-----------------------------------------------------------------------------
(* Requests.                                                                *)

MaySubmit(l) ==
    /\ lstatus[l] \in {"active", "expired"}
    /\ \A r \in Of(l) : ~Effective(r)

\* submit_lease_allocation with mode "initial" or "correction": by the lease and
\* the rule as they are, which the preview's hash must match.
SubmitAnew(l, r) ==
    /\ MaySubmit(l)
    /\ Fresh(r)
    /\ \/ Of(l) = {} /\ NewRequest(r, l, terms[l], rule, "initial", NoRequest)
       \/ \E p \in Requests :
             /\ IsLatest(p, l)
             /\ req[p].status \in {"withdrawn", "voided", "rejected", "expired"}
             /\ NewRequest(r, l, terms[l], rule, "correction", p)
    /\ UNCHANGED <<lstatus, terms, rule, due, ledger>>

\* Mutation: a voided request may be resubmitted as well.
MayResubmitVoided(p, l) ==
    /\ req[p].status \in {"rejected", "expired", "withdrawn", "voided"}
    /\ req[p].terms = terms[l]

MayResubmit(p, l) ==
    /\ req[p].status \in {"rejected", "expired", "withdrawn"}
    /\ req[p].terms = terms[l]   \* _assert_resubmit_snapshot

\* ... with mode "resubmit": the last request, once more as it was.
Resubmit(l, r, p) ==
    /\ MaySubmit(l)
    /\ Fresh(r)
    /\ IsLatest(p, l) /\ MayResubmit(p, l)
    /\ NewRequest(r, l, req[p].terms, req[p].rule, "resubmit", p)
    /\ UNCHANGED <<lstatus, terms, rule, due, ledger>>

\* review_lease_allocation finds the request too old.
ReviewTooLate(r) ==
    /\ req[r].status = "pending" /\ r \in due
    /\ SetStatus(r, "expired")
    /\ UNCHANGED <<lstatus, terms, rule, due, ledger>>

\* Mutation: a rejected request may be approved after all.
ApproveRejected(r) ==
    /\ req[r].status \in {"pending", "rejected"} /\ r \notin due
    /\ lstatus[req[r].lease] \in {"active", "expired"}
    /\ SetStatus(r, "approved")
    /\ posted' = [posted EXCEPT ![r] = @ + 1]
    /\ UNCHANGED <<lstatus, terms, rule, due, reversed>>

\* review_lease_allocation, which approves: every share gets its entry.
Approve(r) ==
    /\ req[r].status = "pending" /\ r \notin due
    /\ lstatus[req[r].lease] \in {"active", "expired"}
    /\ SetStatus(r, "approved")
    /\ posted' = [posted EXCEPT ![r] = @ + 1]
    /\ UNCHANGED <<lstatus, terms, rule, due, reversed>>

Reject(r) ==
    /\ req[r].status = "pending" /\ r \notin due
    /\ SetStatus(r, "rejected")
    /\ UNCHANGED <<lstatus, terms, rule, due, ledger>>

\* withdraw_lease_allocation
Withdraw(r) ==
    /\ req[r].status = "pending"
    /\ SetStatus(r, "withdrawn")
    /\ UNCHANGED <<lstatus, terms, rule, due, ledger>>

\* Mutation: voiding again reverses again.
VoidAgain(r) ==
    /\ req[r].status \in {"approved", "voided"}
    /\ SetStatus(r, "voided")
    /\ reversed' = [reversed EXCEPT ![r] = @ + 1]
    /\ UNCHANGED <<lstatus, terms, rule, due, posted>>

\* void_lease_allocation: what is not reversed yet is.
Void(r) ==
    /\ req[r].status = "approved"
    /\ SetStatus(r, "voided")
    /\ reversed' = [reversed EXCEPT ![r] = posted[r]]
    /\ UNCHANGED <<lstatus, terms, rule, due, posted>>

\* Mutation: a request whose lease has run out is passed over.
ExpireOfActive(r) ==
    /\ req[r].status = "pending" /\ r \in due
    /\ lstatus[req[r].lease] = "active"
    /\ SetStatus(r, "expired")
    /\ UNCHANGED <<lstatus, terms, rule, due, ledger>>

\* expire_lease_allocation_requests_task, for one request.
Expire(r) ==
    /\ req[r].status = "pending" /\ r \in due
    /\ SetStatus(r, "expired")
    /\ UNCHANGED <<lstatus, terms, rule, due, ledger>>

\* Seven days go by.
BecomeDue(r) ==
    /\ req[r].status = "pending" /\ r \notin due
    /\ due' = due \cup {r}
    /\ UNCHANGED <<lstatus, terms, rule, req, ledger>>

-----------------------------------------------------------------------------

Next ==
    \/ \E l \in Leases : CreateLease(l) \/ RegisterSigning(l)
    \/ \E l \in Leases, t \in Terms, s \in LeaseStatuses : UpdateLease(l, t, s)
    \/ \E u \in Rules : ChangeRule(u)
    \/ \E l \in Leases, r \in Requests :
          \/ SignLease(l, r) \/ SubmitAnew(l, r)
          \/ \E p \in Requests : Resubmit(l, r, p)
    \/ \E r \in Requests :
          \/ ReviewTooLate(r) \/ Approve(r) \/ Reject(r)
          \/ Withdraw(r) \/ Void(r) \/ Expire(r) \/ BecomeDue(r)

Spec == Init /\ [][Next]_vars

\* Time passes, and the task runs every five minutes.
FairSpec ==
    /\ Spec
    /\ \A r \in Requests : WF_vars(BecomeDue(r)) /\ WF_vars(Expire(r))

-----------------------------------------------------------------------------
(* Properties.                                                              *)

\* Every column holds a value it can hold, and a request names a lease that
\* exists.
TypeOK ==
    /\ lstatus \in [Leases -> LeaseStatuses]
    /\ terms \in [Leases -> Terms]
    /\ rule \in Rules
    /\ req \in [Requests -> [lease : Leases \cup {NoLease}, status : RequestStatuses,
                             terms : Terms, rule : Rules, mode : Modes,
                             previous : Requests \cup {NoRequest}]]
    /\ due \subseteq Requests
    /\ posted \in [Requests -> Nat] /\ reversed \in [Requests -> Nat]
    /\ \A r \in Requests :
          req[r].status # "none" => req[r].lease \in Leases /\ lstatus[req[r].lease] # "none"

\* No deal is shared out twice: at most one request of a lease is pending or
\* approved, over any sequence of submissions, withdrawals, reviews and voids.
OneEffective ==
    \A r, q \in Requests :
        Effective(r) /\ Effective(q) /\ req[r].lease = req[q].lease => r = q

\* What the reviewer is shown, and what was paid for, is the lease as it is: while
\* a request is pending or approved nobody changes the lease's terms; and nothing
\* is pending for a lease that was never signed or was terminated.
EffectiveMatchesLease ==
    \A r \in Requests :
        /\ Effective(r) => req[r].terms = terms[req[r].lease]
        /\ req[r].status = "pending" => lstatus[req[r].lease] \in {"active", "expired"}

\* The entries follow the request: each share is paid once exactly when the request
\* was approved, and taken back once exactly when it was voided.
LedgerFollows ==
    \A r \in Requests :
        /\ posted[r] = IF req[r].status \in {"approved", "voided"} THEN 1 ELSE 0
        /\ reversed[r] = IF req[r].status = "voided" THEN 1 ELSE 0

\* A resubmission repeats its predecessor's terms and rule, and never revives a
\* request that was approved, paid and voided.
ResubmissionRepeats ==
    \A r \in Requests :
        req[r].mode = "resubmit" =>
            LET p == req[req[r].previous]
            IN  /\ req[r].previous \in Requests
                /\ p.terms = req[r].terms /\ p.rule = req[r].rule /\ p.lease = req[r].lease
                /\ p.status \in {"rejected", "expired", "withdrawn"}

\* Every request is decided, if by nobody then by its expiry, whatever becomes of
\* the lease.
PendingEnds == \A r \in Requests : req[r].status = "pending" ~> req[r].status # "pending"
=============================================================================
