---------------------------- MODULE MCDashboard ----------------------------
(* A small instance of Dashboard for TLC: a run with two snapshots, another *)
(* with one.                                                                *)
EXTENDS Dashboard

CONSTANTS n1, n2, s1, s2, s3

MCLists == [n \in Nodes \cup {NoNode} |->
              CASE n = n1 -> {s1, s2}
                [] n = n2 -> {s3}
                [] OTHER -> {}]
=============================================================================
