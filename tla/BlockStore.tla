------------------------------ MODULE BlockStore ------------------------------
(***************************************************************************)
(* What tagged_heap promises to its users, without free lists or vectors:  *)
(* a block handed out under a key belongs to that key, and to no other,    *)
(* until the key is freed; freeing a key gives back all of its blocks and  *)
(* none of anybody else's.                                                 *)
(***************************************************************************)

CONSTANTS
  Keys,
  Blocks,
  Nobody

VARIABLE owner   \* the key each block belongs to, or Nobody

TypeOK == owner \in [Blocks -> Keys \cup {Nobody}]

Init == owner = [b \in Blocks |-> Nobody]

\* alloc_block(key) returns b.
Obtain(key, b) ==
  /\ owner[b] = Nobody
  /\ owner' = [owner EXCEPT ![b] = key]

\* free(key)
Release(key) ==
  owner' = [b \in Blocks |-> IF owner[b] = key THEN Nobody ELSE owner[b]]

\* The destructor.
ReleaseAll == owner' = [b \in Blocks |-> Nobody]

Next ==
  \/ \E key \in Keys : Release(key) \/ \E b \in Blocks : Obtain(key, b)
  \/ ReleaseAll

Spec == Init /\ [][Next]_owner

=============================================================================
