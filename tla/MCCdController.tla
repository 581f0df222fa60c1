--------------------------- MODULE MCCdController ---------------------------
(***************************************************************************)
(* Model checking of CdController.  The passing runs take the properties   *)
(* of that module; the definition below is a statement that a comment of   *)
(* runtime.c makes about the controller and the code does not keep.        *)
(***************************************************************************)
EXTENDS CdController

(* "the INT fires with its whole answer intact" (comment of cd_pend_ans):  *)
(* what the kernel's event check delivers answers the command that waits.  *)
AnswerOfTheCommand == [][VirtualInt3 => cd'.resp = AnswerTo(cd.last_cmd)]_vars
=============================================================================
