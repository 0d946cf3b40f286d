----------------------------- MODULE MCPublish -----------------------------
(* Requests for the runs of Publish. *)
EXTENDS Publish

MCMatches == [jars |-> {"a", "b"}, all |-> {"a"}, none |-> {}]

Build(push, dry, images, paths) == [push |-> push, dry |-> dry, images |-> images, paths |-> paths]

(* Two images and overlapping paths, one that matches nothing, images only *)
(* (one of them twice), a build that is not pushed, and dry runs with and  *)
(* without images and paths.                                               *)
MCRequests == {
    Build(TRUE, FALSE, <<"app", "web">>, <<"jars", "all">>),
    Build(TRUE, FALSE, <<"app">>, <<"none">>),
    Build(TRUE, FALSE, <<"app", "app", "web">>, << >>),
    Build(FALSE, FALSE, <<"app">>, <<"jars">>),
    Build(TRUE, TRUE, <<"app">>, << >>),
    Build(TRUE, TRUE, << >>, <<"all">>),
    Build(TRUE, TRUE, << >>, << >>)}
=============================================================================
