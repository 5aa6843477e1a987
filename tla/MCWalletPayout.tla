--------------------------- MODULE MCWalletPayout ---------------------------
(* Instances of WalletPayout for TLC.                                       *)
EXTENDS WalletPayout, TLC

\* Payout keys, admins and credit keys are interchangeable (withdrawals are not:
\* the sync task visits them in order).  Used where no liveness is checked.
Interchangeable ==
    Permutations(Payouts) \cup Permutations(Admins) \cup Permutations(CreditKeys)
=============================================================================
