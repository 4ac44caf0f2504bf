------------------------------ MODULE MCLocks -------------------------------
(* One preparation, one retirement, two activations of the Doctrine log,   *)
(* which may deadlock, and one of the package log, all in flight together  *)
(* and each retried once.  An assembly takes the lock a retirement takes   *)
(* and reads what a preparation reads; it is left to the proofs.           *)
EXTENDS AuthorityLocks, TLC

CONSTANTS p1, r1, d1, d2, k1

MCTransactions == {p1, r1, d1, d2, k1}
MCKind == (p1 :> "prepare") @@ (r1 :> "retire") @@ (k1 :> "activatePackage")
          @@ (d1 :> "activateCorpus") @@ (d2 :> "activateCorpus")
=============================================================================
