----------------------------- MODULE MCCliSession -----------------------------
(***************************************************************************)
(* Four runs of the program on one session file, with a receipt of each of *)
(* two identities, to which generate can add some of the mock's.           *)
(***************************************************************************)
EXTENDS CliSession, TLC

CONSTANTS c1, c2, c3, c4, mock, other

MCCommand == {c1, c2, c3, c4}
MCIdentity == {mock, other}
MCForeign ==
    {[identity |-> mock, seq |-> 1, maker |-> Elsewhere],
     [identity |-> other, seq |-> 0, maker |-> Elsewhere]}

MCSymmetry == Permutations(MCCommand)

=============================================================================
