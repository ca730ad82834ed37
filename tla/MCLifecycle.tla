----------------------------- MODULE MCLifecycle ----------------------------
(* Every configuration, with every startup step free to fail.                *)
EXTENDS Lifecycle

AnyFault == {"fork", "publisher", "module", "alarm"}
=============================================================================
