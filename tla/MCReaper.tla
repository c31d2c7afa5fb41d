------------------------------ MODULE MCReaper ------------------------------
(* A finite instance of the reaper for TLC: two bridges that stay up, one  *)
(* of them heard from just before it started, and one that comes and goes. *)
EXTENDS Reaper

CONSTANTS fresh, late, flaky, t1

MCAgents == {fresh, late, flaky}
MCSteady == {fresh, late}
MCFresh  == {fresh}
MCBridges   == {fresh, flaky}
MCWorkers   == {late, flaky}
MCRevocable == {flaky}
MCTasks  == {t1, Lease}
=============================================================================
