---------------------- MODULE LeaseAllocations_proofs ----------------------
(* The safety of LeaseAllocations, for every set of leases, requests, terms *)
(* and rules.  The properties are proved together, as one inductive         *)
(* invariant, because most steps disturb several of them.                   *)
EXTENDS LeaseAllocations, TLAPS

IInv == TypeOK /\ OneEffective /\ EffectiveMatchesLease /\ LedgerFollows /\ ResubmissionRepeats

\* A new request of a lease without effective requests, with the lease's terms,
\* keeps the invariant; what it repeats has ended and is not voided.
LEMMA NewRequestKeepsInv ==
    ASSUME IInv, NEW l \in Leases, NEW r \in Requests, NEW u \in Rules, NEW m \in Modes,
           NEW p \in Requests \cup {NoRequest},
           Fresh(r),
           \A q \in Of(l) : ~Effective(q),
           m = "resubmit" =>
               /\ p \in Requests
               /\ req[p].terms = terms[l] /\ req[p].rule = u /\ req[p].lease = l
               /\ req[p].status \in {"rejected", "expired", "withdrawn"},
           req' = [req EXCEPT ![r] = [lease |-> l, status |-> "pending", terms |-> terms[l],
                                      rule |-> u, mode |-> m, previous |-> p]],
           lstatus' = lstatus \/ lstatus' = [lstatus EXCEPT ![l] = "active"],
           lstatus'[l] \in {"active", "expired"},
           UNCHANGED <<terms, rule, due, ledger>>
    PROVE  IInv'
<1> DEFINE new == [lease |-> l, status |-> "pending", terms |-> terms[l],
                   rule |-> u, mode |-> m, previous |-> p]
<1> USE DEF IInv, TypeOK, ledger
<1>1. req' = [req EXCEPT ![r] = new] /\ req[r].status = "none"
  BY DEF Fresh
<1>2. req'[r] = new /\ \A q \in Requests \ {r} : req'[q] = req[q]
  BY <1>1
<1>3. \A q \in Requests \ {r} : req[q].lease = l => ~Effective(q)
  BY DEF Of, Effective
<1>4. lstatus' \in [Leases -> LeaseStatuses]
      /\ \A k \in Leases : lstatus[k] # "none" => lstatus'[k] # "none"
  BY DEF LeaseStatuses
<1>5. TypeOK'
  BY <1>1, <1>2, <1>4 DEF Modes, RequestStatuses
<1>6. OneEffective'
  <2>1. \A q \in Requests \ {r} : req'[q].lease = l => ~Effective(q)'
    BY <1>2, <1>3 DEF Effective
  <2> QED
    BY <1>2, <2>1 DEF OneEffective, Effective
<1>7. EffectiveMatchesLease'
  <2>1. \A q \in Requests \ {r} : req[q].status = "pending" => lstatus'[req[q].lease] = lstatus[req[q].lease]
    BY <1>3 DEF Effective
  <2> QED
    BY <1>2, <2>1 DEF EffectiveMatchesLease, Effective
<1>8. LedgerFollows'
  BY <1>1, <1>2 DEF LedgerFollows
<1>9. ResubmissionRepeats'
  BY <1>1, <1>2 DEF ResubmissionRepeats
<1> QED
  BY <1>5, <1>6, <1>7, <1>8, <1>9

\* A request that is pending may take any other status, with the entries that go
\* with it, and any effective one may end.
LEMMA StatusChangeKeepsInv ==
    ASSUME IInv, NEW r \in Requests, NEW s \in RequestStatuses \ {"none", "pending"},
           req[r].status = "pending" \/ (req[r].status = "approved" /\ s = "voided"),
           SetStatus(r, s),
           posted' \in [Requests -> Nat], reversed' \in [Requests -> Nat],
           \A q \in Requests \ {r} : posted'[q] = posted[q] /\ reversed'[q] = reversed[q],
           posted'[r] = IF s \in {"approved", "voided"} THEN 1 ELSE 0,
           reversed'[r] = IF s = "voided" THEN 1 ELSE 0,
           UNCHANGED <<lstatus, terms, rule, due>>
    PROVE  IInv'
<1> USE DEF IInv, TypeOK, SetStatus
<1>1. req'[r] = [req[r] EXCEPT !.status = s] /\ \A q \in Requests \ {r} : req'[q] = req[q]
  OBVIOUS
<1>2. TypeOK'
  <2>1. req' \in [Requests -> [lease : Leases \cup {NoLease}, status : RequestStatuses,
                             terms : Terms, rule : Rules, mode : Modes,
                             previous : Requests \cup {NoRequest}]]
    <3>1. [req[r] EXCEPT !.status = s]
             = [lease |-> req[r].lease, status |-> s, terms |-> req[r].terms,
                rule |-> req[r].rule, mode |-> req[r].mode, previous |-> req[r].previous]
      OBVIOUS
    <3>2. s \in RequestStatuses
      OBVIOUS
    <3> QED
      BY <3>1, <3>2
  <2>2. \A q \in Requests : req'[q].status # "none" => req[q].status # "none"
    BY <1>1
  <2>3. \A q \in Requests : req'[q].lease = req[q].lease
    BY <1>1
  <2> QED
    BY <2>1, <2>2, <2>3
<1>3. \A q \in Requests : Effective(q)' => Effective(q)
  BY <1>1 DEF Effective
<1>4. \A q \in Requests : req'[q].lease = req[q].lease /\ req'[q].terms = req[q].terms
  BY <1>1
<1>5. OneEffective'
  BY <1>3, <1>4 DEF OneEffective
<1>6. EffectiveMatchesLease'
  BY <1>1, <1>3, <1>4 DEF EffectiveMatchesLease
<1>7. LedgerFollows'
  BY <1>1 DEF LedgerFollows
<1>8. ResubmissionRepeats'
  BY <1>1 DEF ResubmissionRepeats
<1> QED
  BY <1>2, <1>5, <1>6, <1>7, <1>8

\* A step of UpdateLease: the terms change only without effective requests, and
\* a terminated lease loses its pending one.
LEMMA UpdateLeaseKeepsInv ==
    ASSUME IInv, NEW l \in Leases, NEW t \in Terms, NEW s \in LeaseStatuses, UpdateLease(l, t, s)
    PROVE  IInv'
<1> USE DEF IInv, TypeOK, UpdateLease, ledger
<1>1. \A q \in Requests : \/ req'[q] = req[q]
                         \/ /\ req[q].status = "pending" /\ req[q].lease = l /\ s = "terminated"
                            /\ req'[q] = [req[q] EXCEPT !.status = "withdrawn"]
  BY DEF Cancelled, Of
<1>2. s = "terminated" => \A q \in Requests : req[q].lease = l => req'[q].status # "pending"
  BY DEF Cancelled, Of
<1>3. s # "none" /\ (lstatus[l] \in {"active", "expired"} => s \in {"active", "expired", "terminated"})
  BY DEF Transitions, LeaseStatuses
<1>4. \A q \in Requests : req'[q].lease = req[q].lease /\ req'[q].terms = req[q].terms
  BY <1>1
<1>5. \A q \in Requests : Effective(q)' => Effective(q)
  BY <1>1 DEF Effective
<1>6. TypeOK'
  <2> DEFINE Rows == [lease : Leases \cup {NoLease}, status : RequestStatuses,
                      terms : Terms, rule : Rules, mode : Modes,
                      previous : Requests \cup {NoRequest}]
  <2>1. req' \in [Requests -> Rows]
    <3>1. \A x \in Rows : [x EXCEPT !.status = "withdrawn"] \in Rows
      BY DEF RequestStatuses
    <3>2. req \in [Requests -> Rows]
      OBVIOUS
    <3> HIDE DEF Rows
    <3>3. \A q \in Requests : req'[q] \in Rows
      BY <1>1, <3>1, <3>2
    <3> QED
      BY <3>3
  <2>2. \A q \in Requests : req'[q].status # "none" => req[q].status # "none"
    BY <1>1
  <2>3. /\ lstatus' \in [Leases -> LeaseStatuses] /\ terms' \in [Leases -> Terms]
        /\ \A k \in Leases : lstatus[k] # "none" => lstatus'[k] # "none"
    BY <1>3
  <2>4. \A q \in Requests :
           req'[q].status # "none" => req'[q].lease \in Leases /\ lstatus'[req'[q].lease] # "none"
    BY <1>4, <2>2, <2>3
  <2> QED
    BY <2>1, <2>3, <2>4
<1>7. OneEffective'
  BY <1>4, <1>5 DEF OneEffective
<1>8. EffectiveMatchesLease'
  <2>1. ASSUME NEW q \in Requests, Effective(q)'
        PROVE  req'[q].terms = terms'[req'[q].lease]
    <3>1. Effective(q) /\ req[q].terms = terms[req[q].lease]
      BY <1>5, <2>1 DEF EffectiveMatchesLease
    <3>2. req[q].lease = l => t = terms[l]
      BY <3>1 DEF MayChangeTerms, Of, Effective
    <3> QED
      BY <1>4, <3>1, <3>2
  <2>2. ASSUME NEW q \in Requests, req'[q].status = "pending"
        PROVE  lstatus'[req'[q].lease] \in {"active", "expired"}
    <3>1. req[q].status = "pending" /\ lstatus[req[q].lease] \in {"active", "expired"}
      BY <1>1, <2>2 DEF EffectiveMatchesLease
    <3> QED
      BY <1>2, <1>3, <1>4, <2>2, <3>1
  <2> QED
    BY <2>1, <2>2 DEF EffectiveMatchesLease
<1>9. LedgerFollows'
  BY <1>1 DEF LedgerFollows
<1>10. ResubmissionRepeats'
  BY <1>1 DEF ResubmissionRepeats
<1> QED
  BY <1>6, <1>7, <1>8, <1>9, <1>10

\* A lease that is created has no requests yet.
LEMMA NewLeaseKeepsInv ==
    ASSUME IInv, NEW l \in Leases, NEW s \in {"pending", "active"},
           lstatus[l] = "none", lstatus' = [lstatus EXCEPT ![l] = s],
           UNCHANGED <<terms, rule, req, due, ledger>>
    PROVE  IInv'
<1> USE DEF IInv, TypeOK, ledger
<1>1. \A q \in Requests : req[q].status # "none" => req[q].lease # l
  OBVIOUS
<1>2. TypeOK' /\ EffectiveMatchesLease'
  BY <1>1 DEF EffectiveMatchesLease, Effective, LeaseStatuses
<1> QED
  BY <1>2 DEF OneEffective, Effective, LedgerFollows, ResubmissionRepeats

LEMMA InitInv == Init => IInv
<1> SUFFICES ASSUME Init PROVE IInv
  OBVIOUS
<1>1. (CHOOSE t \in Terms : TRUE) \in Terms
  BY TermsExist
<1>2. (CHOOSE u \in Rules : TRUE) \in Rules
  BY DEF Init
<1>3. Unused \in [lease : Leases \cup {NoLease}, status : RequestStatuses, terms : Terms,
                 rule : Rules, mode : Modes, previous : Requests \cup {NoRequest}]
  BY <1>1, <1>2 DEF Unused, RequestStatuses, Modes
<1>4. Unused.status = "none" /\ Unused.mode = "initial"
  BY DEF Unused
<1> QED
  BY <1>3, <1>4 DEF Init, IInv, TypeOK, LeaseStatuses, OneEffective, Effective,
         EffectiveMatchesLease, LedgerFollows, ResubmissionRepeats

\* A new request with its lease, a new lease, a change of status: every step of
\* Next is one of the cases above, or changes nothing the invariant mentions.
LEMMA NextInv == IInv /\ [Next]_vars => IInv'
<1> SUFFICES ASSUME IInv, [Next]_vars PROVE IInv'
  OBVIOUS
<1>1. ASSUME NEW l \in Leases, CreateLease(l) \/ RegisterSigning(l) PROVE IInv'
  BY <1>1, NewLeaseKeepsInv DEF CreateLease, RegisterSigning
<1>2. ASSUME NEW l \in Leases, NEW t \in Terms, NEW s \in LeaseStatuses, UpdateLease(l, t, s)
      PROVE  IInv'
  BY <1>2, UpdateLeaseKeepsInv
<1>3. ASSUME NEW u \in Rules, ChangeRule(u) PROVE IInv'
  BY <1>3 DEF ChangeRule, ledger, IInv, TypeOK, OneEffective, Effective, EffectiveMatchesLease,
              LedgerFollows, ResubmissionRepeats
<1>4. ASSUME NEW l \in Leases, NEW r \in Requests, SignLease(l, r) PROVE IInv'
  <2>1. \A q \in Of(l) : ~Effective(q)
    BY <1>4 DEF SignLease, Of, IInv, TypeOK
  <2>2. lstatus'[l] = "active"
    BY <1>4 DEF SignLease, IInv, TypeOK
  <2>3. rule \in Rules
    BY DEF IInv, TypeOK
  <2> QED
    BY <1>4, <2>1, <2>2, <2>3, NewRequestKeepsInv DEF SignLease, NewRequest, Modes
<1>5. ASSUME NEW l \in Leases, NEW r \in Requests, SubmitAnew(l, r) PROVE IInv'
  <2>1. rule \in Rules
    BY DEF IInv, TypeOK
  <2>2. PICK p \in Requests \cup {NoRequest}, m \in {"initial", "correction"} :
            NewRequest(r, l, terms[l], rule, m, p)
    BY <1>5 DEF SubmitAnew
  <2> QED
    BY <1>5, <2>1, <2>2, NewRequestKeepsInv DEF SubmitAnew, MaySubmit, NewRequest, Modes
<1>6. ASSUME NEW l \in Leases, NEW r \in Requests, NEW p \in Requests, Resubmit(l, r, p)
      PROVE  IInv'
  <2>1. req[p].lease = l /\ req[p].terms = terms[l]
        /\ req[p].status \in {"rejected", "expired", "withdrawn"}
    BY <1>6 DEF Resubmit, IsLatest, Of, MayResubmit
  <2>2. req[p].rule \in Rules
    BY DEF IInv, TypeOK
  <2>3. req' = [req EXCEPT ![r] = [lease |-> l, status |-> "pending", terms |-> terms[l],
                                   rule |-> req[p].rule, mode |-> "resubmit", previous |-> p]]
    BY <1>6, <2>1 DEF Resubmit, NewRequest
  <2> QED
    BY <1>6, <2>1, <2>2, <2>3, NewRequestKeepsInv DEF Resubmit, MaySubmit, Modes
<1>7. ASSUME NEW r \in Requests,
             ReviewTooLate(r) \/ Approve(r) \/ Reject(r) \/ Withdraw(r) \/ Void(r) \/ Expire(r)
      PROVE  IInv'
  <2>1. posted \in [Requests -> Nat] /\ reversed \in [Requests -> Nat]
    BY DEF IInv, TypeOK
  <2>2. /\ posted[r] = IF req[r].status \in {"approved", "voided"} THEN 1 ELSE 0
        /\ reversed[r] = IF req[r].status = "voided" THEN 1 ELSE 0
    BY DEF IInv, LedgerFollows
  <2>3. CASE \E s \in {"expired", "rejected", "withdrawn"} :
                req[r].status = "pending" /\ SetStatus(r, s)
                /\ UNCHANGED <<lstatus, terms, rule, due, ledger>>
    BY <2>1, <2>2, <2>3, StatusChangeKeepsInv DEF ledger, RequestStatuses
  <2>4. CASE Approve(r)
    BY <2>1, <2>2, <2>4, StatusChangeKeepsInv DEF Approve, RequestStatuses
  <2>5. CASE Void(r)
    BY <2>1, <2>2, <2>5, StatusChangeKeepsInv DEF Void, RequestStatuses
  <2> QED
    BY <1>7, <2>3, <2>4, <2>5 DEF ReviewTooLate, Reject, Withdraw, Expire
<1>8. ASSUME NEW r \in Requests, BecomeDue(r) PROVE IInv'
  BY <1>8 DEF BecomeDue, ledger, IInv, TypeOK, OneEffective, Effective, EffectiveMatchesLease,
              LedgerFollows, ResubmissionRepeats
<1>9. CASE UNCHANGED vars
  BY <1>9 DEF vars, ledger, IInv, TypeOK, OneEffective, Effective, EffectiveMatchesLease,
              LedgerFollows, ResubmissionRepeats
<1> QED
  BY <1>1, <1>2, <1>3, <1>4, <1>5, <1>6, <1>7, <1>8, <1>9 DEF Next

LEMMA Invariant == Spec => []IInv
BY InitInv, NextInv, PTL DEF Spec

\* Every column holds a value it can hold, after any number of handler calls.
THEOREM TypeCorrect == Spec => []TypeOK
BY Invariant, PTL DEF IInv

\* At most one request of a lease is pending or approved.
THEOREM NotSharedTwice == Spec => []OneEffective
BY Invariant, PTL DEF IInv

\* The terms of a lease do not change under a pending or approved request, and a
\* terminated lease has nothing pending.
THEOREM ReviewedAsIs == Spec => []EffectiveMatchesLease
BY Invariant, PTL DEF IInv

\* Each share is paid once if the request was approved, and taken back once if it
\* was voided.
THEOREM EntriesFollowRequests == Spec => []LedgerFollows
BY Invariant, PTL DEF IInv

\* A resubmission repeats a request that ended without being paid.
THEOREM NothingRevived == Spec => []ResubmissionRepeats
BY Invariant, PTL DEF IInv
=============================================================================
