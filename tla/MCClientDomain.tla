---------------------------- MODULE MCClientDomain ----------------------------
(* Any user, domain, request and place in a file may stand for any other. *)
EXTENDS ClientDomain, TLC

Symmetry ==
  Permutations(Users) \cup Permutations(Domains)
    \cup Permutations(Requests) \cup Permutations(Lines)
=============================================================================
