-------------------------- MODULE MCOperationEngine --------------------------
(* Small instances of the operation engine for TLC.                        *)
EXTENDS OperationEngine, TLC

CONSTANTS db, app

\* mysql and ssc of registry/components.json.
ChainDependencies == (db :> {} @@ app :> {db})
ChainCapabilities ==
    (db :> {"install", "start", "stop", "delete-data"}
     @@ app :> {"install", "start", "stop", "uninstall"})
Plain(operation, targets) ==
    [flow |-> "plain", operation |-> operation, targets |-> targets]
Lab(operation, targets) ==
    [flow |-> "lab", operation |-> operation, targets |-> targets]
CleanInstall ==
    [flow |-> "clean-install", operation |-> "install", targets |-> Component]

CoreRequests == {Plain("install", {app}), Lab("stop", {db})}
EngineRequests == {CleanInstall, Lab("stop", {db})}

Symmetry == Permutations(OpId) \union Permutations(Caller)
==============================================================================
