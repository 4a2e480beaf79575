------------------------------ MODULE MCLibrary -----------------------------
(* Model checking of Library: the .cfg files choose the constants. *)
EXTENDS Library, TLC

\* Ids, ISBNs and threads are interchangeable: no action or invariant names one.
Interchangeable ==
  Permutations(Member) \cup Permutations(Book) \cup Permutations(Loan)
    \cup Permutations(Isbn) \cup Permutations(Thread)
=============================================================================
