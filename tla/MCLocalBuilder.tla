--------------------------- MODULE MCLocalBuilder ---------------------------
(* Command lines for the runs of LocalBuilder. *)
EXTENDS LocalBuilder

Plain == [help |-> FALSE, version |-> FALSE, config |-> TRUE, dryrun |-> FALSE, noSource |-> FALSE,
          args |-> 1, bind |-> FALSE, write |-> FALSE, gce |-> FALSE, user |-> FALSE]

(* A run whose steps have a volume of their own, --no-source on GCE, both  *)
(* with --write-workspace, --bind-mount-source, and some that main() does  *)
(* not take as far as run(), or that are dry runs.                         *)
MCCommands ==
    {[Plain EXCEPT !.write = TRUE, !.user = TRUE],
     [Plain EXCEPT !.noSource = TRUE, !.args = 0, !.write = TRUE, !.gce = TRUE],
     [Plain EXCEPT !.bind = TRUE],
     [Plain EXCEPT !.bind = TRUE, !.noSource = TRUE, !.args = 0],
     [Plain EXCEPT !.args = 2],
     [Plain EXCEPT !.dryrun = TRUE]}
=============================================================================
