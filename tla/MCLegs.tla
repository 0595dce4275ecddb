------------------------------- MODULE MCLegs -------------------------------
(***************************************************************************)
(* Every time of a rail's terms leaves the calls the room its margins are  *)
(* made for, and one block or two more.                                    *)
(***************************************************************************)
EXTENDS Legs

MCTerms ==
  [btc |-> [lockBy |-> 2, claimBy |-> 4, margin |-> 1, refundAfter |-> 5, refundB |-> 6,
            validFor |-> 0, maxTime |-> 7, maxSigned |-> 2, maxFaults |-> 3],
   near |-> [lockBy |-> 4, claimBy |-> 5, margin |-> 1, refundAfter |-> 6, refundB |-> 7,
             validFor |-> 0, maxTime |-> 8, maxSigned |-> 3, maxFaults |-> 1],
   sol |-> [lockBy |-> 4, claimBy |-> 5, margin |-> 3, refundAfter |-> 8, refundB |-> 9,
            validFor |-> 1, maxTime |-> 11, maxSigned |-> 3, maxFaults |-> 1]]

=============================================================================
