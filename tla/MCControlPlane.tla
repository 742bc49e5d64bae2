--------------------------- MODULE MCControlPlane ---------------------------
(* The instances of ControlPlane that TLC checks: what Devin may be like.   *)
EXTENDS ControlPlane, TLC

(* Nothing tells one session id from another but what is in the state.      *)
SidSymmetry == Permutations(Sid)

Is(status, detail, verdict, pr) == [status |-> status, detail |-> detail, verdict |-> verdict, pr |-> pr]

Fresh == Is("new", "none", "absent", "none")
Coding == Is("running", "working", "absent", "none")
Asking == Is("running", "waiting_for_user", "absent", "none")
Declined == Is("exit", "finished", "refused", "none")
Broke == Is("error", "error", "absent", "none")
Opened == Is("running", "working", "absent", "numbered")
Paused == Is("suspended", "none", "absent", "numbered")
Done1 == Is("exit", "finished", "remediated", "numbered")
Again == Is("running", "working", "remediated", "numbered")
Woken == Is("resuming", "working", "absent", "numbered")
WokenAgain == Is("resuming", "working", "remediated", "numbered")

MCSnapshots ==
  [status : Statuses, detail : Details, verdict : Verdicts, pr : PrUrls, acus : 0 .. MaxAcuLimit]

(* Opens a pull request or leaves by an off-ramp, but never asks; pushes    *)
(* once per message; ends every stretch of work with the verdict.           *)
Cooperative == {
  <<Fresh, Coding, "quiet">>, <<Coding, Declined, "quiet">>, <<Coding, Broke, "quiet">>,
  <<Coding, Opened, "push">>, <<Opened, Done1, "quiet">>,
  <<Woken, Opened, "push">>, <<WokenAgain, Again, "push">>, <<Again, Done1, "quiet">>}

(* The shortest of them: one stretch of work, then the verdict or a refusal. *)
Brisk == {<<Coding, Opened, "push">>, <<Coding, Declined, "quiet">>, <<Opened, Done1, "quiet">>}

(* ... or a question.                                                       *)
BriskAsking == Brisk \cup {<<Coding, Asking, "quiet">>}

(* May also ask, and then waits for an answer.                              *)
Inquisitive == Cooperative \cup {<<Coding, Asking, "quiet">>, <<Asking, Coding, "quiet">>}

(* Both sleep until they are messaged; the next one does not.               *)
ASSUME InquisitiveAssumption == WokenByMessageOnly(Inquisitive)

(* Also stops without a verdict, pushes when it likes, wakes up by itself   *)
(* (its own CI loop, a comment) and resumes without pushing.                *)
Headstrong == Inquisitive \cup {
  <<Opened, Opened, "push">>, <<Opened, Paused, "quiet">>,
  <<Paused, Opened, "quiet">>, <<Woken, Opened, "quiet">>, <<WokenAgain, Again, "quiet">>,
  <<Done1, Again, "quiet">>, <<Again, Again, "push">>}

(* The same at work from the start, which declines but does not ask or      *)
(* break.                                                                   *)
Unruly == {move \in Headstrong : {move[1], move[2]} \cap {Fresh, Asking, Broke} = {}}

=============================================================================
