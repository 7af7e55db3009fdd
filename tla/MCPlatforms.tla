----------------------------- MODULE MCPlatforms -----------------------------
(***************************************************************************)
(* Small instances of the social providers and the notifications for TLC.  *)
(***************************************************************************)
EXTENDS Outcomes

(* A request that timed out may have been carried out; other answers that   *)
(* tell of a failure are taken at their word.                               *)
OnlyTimeouts == {"timeout"}

CONSTANTS t1, t2
TwoTabs == {t1, t2}

May(tell, mark, mishap, revoke) ==
  [reports |-> tell, marks |-> mark, mishaps |-> mishap, revocations |-> revoke]

(* Posts a tab watches: one that goes out, or not, at once, one that TikTok  *)
(* posts in its own time, and one that the limits of its platform rule out. *)
WatchedWays == {<<"fbText", TRUE>>, <<"ttVideo", TRUE>>}
Invalid == {<<"fbText", FALSE>>}

SomeOpenings ==
  { (* every post on its own *)
    Opening(Contents \X BOOLEAN, {}, May(0, 0, 0, 0)),
    (* a tab while a post goes out *)
    Opening(WatchedWays, {t1}, May(0, 0, 0, 0)),
    (* things are told and marked, lost, and the login ends *)
    Opening(Invalid, {t1}, May(1, 2, 0, 0)),
    Opening(Invalid, {t1}, May(2, 0, 0, 0)),
    Opening(Invalid, {t1}, May(0, 1, 1, 0)),
    Opening(Invalid, {t1}, May(0, 1, 0, 1)),
    (* two tabs that take each other's stream *)
    Opening(Invalid, {t1, t2}, May(0, 0, 0, 0)) }
=============================================================================
