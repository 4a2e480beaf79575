------------------------------ MODULE MCPages -------------------------------
(***************************************************************************)
(* The pages for TLC.  ISBNs and e-mails are interchangeable.              *)
(***************************************************************************)
EXTENDS Pages, TLC

LatestId == CHOOSE i \in Id : \A j \in Id : j <= i

\* The loan entered last was borrowed first, as the sample data has them, and both
\* are due, and both members were created, on one day.
Dates == [c \in Column \cup {"created_at"} |->
            [i \in Id |-> IF c = "borrowed_at" THEN LatestId - i ELSE 0]]

Interchangeable == Permutations(Key)

InFlight == Cardinality({s \in Slot : req[s] # Idle})

\* Lists of loans, which have no flags: only its type is claimed of one that is
\* disturbed.
Listed == view \in {"loans", "own"}

\* Once a page has been disturbed, and until it is opened anew, nothing more is sent
\* from it, changed by others or lost: what it then still does is to receive the
\* answers it waits for.  A list of loans is opened anew before any arrives.
SettlesOnceDisturbed ==
  disturbed /\ disturbed' =>
    /\ InFlight' <= InFlight
    /\ req' = req => table' = table
    /\ \A s \in Slot : ~ Lose(s)
    /\ \/ ~ Listed
       \/ /\ \A s \in Slot : req[s] # Idle /\ req[s].here => req'[s] = req[s]
          /\ page_vars' = page_vars
       \/ \E f \in AskedFor : Visit(f)

\* An answer on a list of loans is lost while no other is awaited.  Others leave the
\* loans alone: a list opened after them is one opened on another table, and Init has
\* them all.
OthersWait ==
  Listed =>
    /\ req' = req => table' = table
    /\ InFlight > 1 => \A s \in Slot : ~ Lose(s)
=============================================================================
