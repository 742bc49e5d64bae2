---------------------------- MODULE MCReconciler ----------------------------
(* The instance of Reconciler that TLC checks.  The snapshots are one of    *)
(* each kind that some handler tells apart, with an uneven cost so that the *)
(* recorded spend moves.                                                    *)
EXTENDS Reconciler, TLC

Shot(status, detail, verdict, pr, acus) ==
  [status |-> status, detail |-> detail, verdict |-> verdict, pr |-> pr, acus |-> acus]

MCSnapshots == {
  Shot("running", "working", "absent", "none", 1),
  Shot("running", "working", "remediated", "numbered", 2),
  Shot("exit", "finished", "remediated", "numbered", 2),
  Shot("suspended", "none", "undecided", "unnumbered", 1),
  Shot("exit", "finished", "refused", "none", 1),
  Shot("error", "error", "absent", "none", 2),
  Shot("running", "waiting_for_user", "absent", "none", 1)}

Symmetric == Permutations(Sid) \cup Permutations(Sha)

=============================================================================
