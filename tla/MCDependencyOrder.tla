-------------------------- MODULE MCDependencyOrder --------------------------
(* Every registry of three components, with and without a gap.             *)
EXTENDS DependencyOrder, TLC

CONSTANTS a, b, c

Complete == {[ids |-> <<a, b, c>>, dependencies |-> d] : d \in [{a, b, c} -> SUBSET Id]}
WithGap == {[ids |-> <<a, b>>, dependencies |-> d] : d \in [{a, b} -> SUBSET Id]}
AllDocuments == Complete \union WithGap
==============================================================================
