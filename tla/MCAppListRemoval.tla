-------------------------- MODULE MCAppListRemoval --------------------------
(* The instances of MCAppListClient with RemoveAppProvider beside the channel. *)
EXTENDS AppListRemoval, MCAppListClient
=============================================================================
