---------------------------- MODULE MCMonitoring ----------------------------
(* Monitoring with answers that are good, slow or failed.                  *)
EXTENDS Monitoring

GoodSlowFailed == {[status |-> 200, elapsed |-> 1], [status |-> 200, elapsed |-> 2],
                   [status |-> 503, elapsed |-> 1]}

=============================================================================
