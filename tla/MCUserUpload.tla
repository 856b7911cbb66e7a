----------------------------- MODULE MCUserUpload -----------------------------
(* Files with the lines that meet each other: the same mapping twice, two  *)
(* who supervise each other, a supervisor with a line of his own or who is *)
(* an admin, and the lines that are refused or skipped.                    *)
EXTENDS UserUpload

CONSTANTS admin, ann, bob

L(user, role, supervisor) == [user |-> user, role |-> role, supervisor |-> supervisor]

ShortFiles == {
  << L(ann, "USER", bob), L(ann, "SUPERVISOR", bob) >>,
  << L(bob, "USER", ann) >> }

AllFiles == ShortFiles \cup {
  << L(ann, "USER", bob), L(bob, "SUPERVISOR", None) >>,
  << L(ann, "USER", bob), L(bob, "USER", ann) >>,
  << L(bob, "USER", admin), L(admin, "ADMIN", ann) >>,
  << L(Unknown, "USER", bob), L(ann, "USER", Unknown) >>,
  << L(bob, "USER", bob), L(ann, "invalid", bob) >> }

(* suspects is read by no action and, but for its type, by no property of  *)
(* UserUpload.                                                             *)
View == <<supervisors, rows, deleted, req, active, upload, disturbed>>
=============================================================================
