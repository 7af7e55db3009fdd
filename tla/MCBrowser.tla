------------------------------ MODULE MCBrowser ------------------------------
(***************************************************************************)
(* Small instances of the browser for TLC: two tabs.                       *)
(***************************************************************************)
EXTENDS Browser

CONSTANTS t1, t2
TwoTabs == {t1, t2}

Chance(ask, poll, expire, lose, reload, end) ==
  [asks |-> ask, polls |-> poll, expiries |-> expire, losses |-> lose, reloads |-> reload,
   elsewhere |-> end]
Opening(shown, what, chances) == [shown |-> shown, asks |-> what, left |-> chances]

SomeOpenings ==
  { Opening({t1, t2}, {}, Chance(0, 1, 4, 0, 0, 0)),
    Opening({t1}, {}, Chance(0, 0, 1, 1, 0, 0)),
    Opening({t1}, {}, Chance(0, 0, 1, 0, 1, 0)),
    Opening({t1, t2}, {}, Chance(0, 1, 1, 0, 0, 1)),
    Opening({t1, t2}, {"logout", "login"}, Chance(2, 1, 1, 0, 0, 0)),
    Opening({t1, t2}, {"logoutAll", "logout"}, Chance(1, 0, 1, 0, 0, 0)),
    Opening({t1, t2}, {"change"}, Chance(1, 0, 1, 0, 0, 0)) }

OneChange == { Opening({t1, t2}, {"change"}, Chance(1, 0, 0, 0, 0, 0)) }
=============================================================================
