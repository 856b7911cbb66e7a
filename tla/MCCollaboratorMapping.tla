------------------------ MODULE MCCollaboratorMapping ------------------------
(* Two users give each other access.  Requests come with the default dates *)
(* and lines also with their own; one file is about everybody and names a  *)
(* pair twice and a user as his own collaborator, the other is ann's and   *)
(* ends with a line that is not valid.                                     *)
EXTENDS CollaboratorMapping

CONSTANTS ann, bob

Default == [start |-> Null, end |-> Null]
Custom == [start |-> 0, end |-> 2]
MCAsked == {Default}

L(u, c, asked, valid) == [user |-> u, collaborator |-> c, asked |-> asked, valid |-> valid]

MCFiles == {
  [scope |-> Users, lines |-> << L(ann, bob, Default, TRUE), L(bob, ann, Default, TRUE),
                                 L(ann, bob, Custom, TRUE), L(ann, ann, Default, TRUE) >>],
  [scope |-> {ann}, lines |-> << L(ann, bob, Custom, TRUE), L(ann, bob, Default, FALSE) >>] }

Symmetry == Permutations(Slots)
=============================================================================
