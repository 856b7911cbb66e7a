---------------------------- MODULE MCAliasMapping ----------------------------
(* Two users are each other's aliases.  Requests come with dates of their  *)
(* own, lines also without; one file is about everybody, names a pair      *)
(* twice and a user as his own alias, the other is ann's, whose last line  *)
(* has an end but no start.                                                *)
EXTENDS AliasMapping

CONSTANTS ann, bob

Custom == [custom |-> TRUE, start |-> 0, end |-> 3]
MCAsked == {Custom}

L(user, alias, asked) == [user |-> user, alias |-> alias, asked |-> asked]

MCFiles == {
  [scope |-> Users, lines |-> << L(ann, bob, NoDates), L(bob, ann, NoDates),
                                 L(ann, bob, Custom), L(ann, ann, NoDates) >>],
  [scope |-> {ann}, lines |-> << L(ann, bob, Custom),
                                 L(ann, bob, [custom |-> TRUE, start |-> Null, end |-> 3]) >>] }

Symmetry == Permutations(Slots)
=============================================================================
