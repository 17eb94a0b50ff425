--------------------------- MODULE MCProfileUpgrade ---------------------------
(* Three components.  Profile `chart' changes the first and the third and   *)
(* can be reversed; `schema' changes the first and migrates the second.     *)
EXTENDS ProfileUpgrade, TLC

CONSTANTS chart, schema

MCTarget == {chart, schema}
MCChanged == (chart :> {1, 3}) @@ (schema :> {1, 2})
MCClass ==
    (chart :> <<"compensating-action", "reversible", "reversible">>)
    @@ (schema :> <<"reversible", "irreversible", "reversible">>)

\* Upgrades, requests and pieces of evidence are interchangeable.
Interchangeable == Permutations(OpId) \union Permutations(Caller) \union Permutations(Evidence)
==============================================================================
