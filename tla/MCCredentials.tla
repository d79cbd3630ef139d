--------------------------- MODULE MCCredentials ---------------------------
(***************************************************************************)
(* Model-checking instance of Credentials.  The bootstrap CA and four      *)
(* issues: an enrolment, a re-enrolment and two rotations in any order,    *)
(* each with and without its parts, with restarts between.                 *)
(***************************************************************************)
EXTENDS Credentials

AllDeks == {"none", "good", "malformed", "unversioned"}

============================================================================
