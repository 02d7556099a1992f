---------------------------- MODULE MCLifecycle ----------------------------
(* One Lifecycle object and three callers of each kind: enough for a call    *)
(* that wins, one that loses the race and one that comes after the end.      *)
EXTENDS Lifecycle
=============================================================================
