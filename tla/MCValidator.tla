---------------------------- MODULE MCValidator ----------------------------
(* Instances of Validator for TLC.  Users and keys are the same model       *)
(* values: u's own key is u.                                                *)
EXTENDS Validator, TLC

(* Everybody registers a key of his own; two users may name the same key.   *)
OwnKeys == [u \in Users |-> {u}]
SharedKeys == [u \in Users |-> Users]

MCParam == [minCommit |-> 2, listSize |-> 1]
MCTwo == [MCParam EXCEPT !.listSize = 2]
Lower == {<<MCTwo, [MCTwo EXCEPT !.minCommit = 1]>>}
Raise == {<<MCParam, [MCParam EXCEPT !.minCommit = 3]>>}

Symmetry == Permutations(Users)
=============================================================================
