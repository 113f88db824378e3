----------------------------- MODULE MCWatchers -----------------------------
(* Instances of Watchers for TLC. *)
EXTENDS Watchers

CONSTANTS P1, P2, a, b, t

Watch(path, activated) == [path |-> path, activated |-> activated, outputs |-> 1]

OneWatcher == <<Watch(P1, TRUE)>>
\* A watcher with no activation, and a second one for a directory already watched.
ShadowList == <<Watch(P1, TRUE), Watch(P2, FALSE), Watch(P1, TRUE)>>
=============================================================================
