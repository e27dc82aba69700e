---------------------------- MODULE MCLifecycle ----------------------------
(* Constants for model-checking Lifecycle.                                 *)
EXTENDS Lifecycle

Settings(stream, inactive, clear) ==
  [stream |-> stream, close_when_inactive |-> inactive, clear_on_disconnect |-> clear]

ClearConfigs == {Settings(1, TRUE, TRUE), Settings(1, FALSE, FALSE), Settings(2, FALSE, TRUE)}
InactiveOnly == {Settings(1, TRUE, FALSE)}
=============================================================================
