-------------------------- MODULE MCRootAuthority --------------------------
(* Two host processes, the three authority keys and one SDK key, two key    *)
(* generations, and crashes anywhere.                                      *)
EXTENDS RootAuthority, TLC

CONSTANTS p1, p2

MCProcesses == {p1, p2}
MCKeys == {"root-key", "root-cert", "ipk", "sdk"}
MCValues == {1, 2}
MCSdkValues == {1}
Symmetry == Permutations(MCProcesses)
=============================================================================
