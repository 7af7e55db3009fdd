----------------------------- MODULE MCGuidance -----------------------------
(***************************************************************************)
(* Small instances of strategies and insights for TLC.                     *)
(***************************************************************************)
EXTENDS Guidance, TLC

CONSTANTS w1, w2, p1, p2
TwoWorkers == {w1, w2}
TwoPosts == {p1, p2}
OneGone == {p2}

Editor(what) == Ask(what, "EDITOR")
Admin(what) == Ask(what, "ADMIN")
Activation == Admin("activate")

SomeOpenings ==
  { (* three generations at once *)
    Opening(<<>>, <<Editor("generate"), Editor("generate"), Editor("generate")>>, {}, 0, 1),
    (* generations while drafts are deleted and one is made active *)
    Opening(<<"ACTIVE", "DRAFT">>,
            <<Editor("generate"), Editor("regenerate"), Editor("delete"), Activation>>, {}, 0, 1),
    (* activations crossing each other and a deletion *)
    Opening(<<"ARCHIVED", "ACTIVE", "DRAFT", "DRAFT">>,
            <<Activation, Activation, Activation, Editor("delete")>>, {}, 0, 0),
    (* an activation under edits and deletions *)
    Opening(<<"ACTIVE", "DRAFT">>,
            <<Editor("update"), Admin("update"), Activation, Admin("delete")>>, {}, 0, 1),
    (* two workers, and a platform or a server that fails now and then *)
    Opening(<<>>, <<>>, {w1, w2}, 1, 0),
    Opening(<<>>, <<>>, {w1, w2}, 0, 1),
    (* one worker among people who use the allowance up *)
    Opening(<<>>, <<Editor("report"), Editor("generate")>>, {w1}, 0, 1) }
=============================================================================
