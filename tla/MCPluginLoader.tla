--------------------------- MODULE MCPluginLoader ---------------------------
(* Instances of PluginLoader for TLC.  A second task is started after OnStop  *)
(* beside the first, for the same state, or while the last one of an unloaded *)
(* library has not ended, for another; a load that would need a third waits.  *)
EXTENDS PluginLoader
=============================================================================
