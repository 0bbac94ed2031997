---------------------------- MODULE MCCompanyRun ----------------------------
(* Five stages stand for the seven of the pipeline, one upstream stage and  *)
(* one each for career (2), board (3), opening (4) and validation (5).      *)
(* CompanyRun.cfg resumes, CompanyRerun.cfg and RerunFresh.cfg rerun.       *)
(* A stage can be rerun once the files before it are on disk, so with three *)
(* phases an attempt of the career follows the first phase and goes on to   *)
(* its opening phase, or to a later attempt; an attempt of the board or the *)
(* opening is the third phase.                                              *)
EXTENDS CompanyRun

MCResumes == {4}
MCReruns == {2, 4}
MCDownstream == {2, 3, 4}
NoStages == {}
=============================================================================
