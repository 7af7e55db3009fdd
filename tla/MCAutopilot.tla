------------------------------ MODULE MCAutopilot ------------------------------
(* Two posting times, two platforms and two workers, a part of them in     *)
(* each opening.                                                           *)
EXTENDS Autopilot, TLC
CONSTANTS s1, s2, p1, p2, w1, w2

TwoSlots == {s1, s2}
TwoPlatforms == {p1, p2}
TwoWorkers == {w1, w2}
SecondPlatform == {p2}

Opening(running, times, platforms, perWeek, perDay, approval,
        crashes, delays, failures, outages, requests) ==
  [workers |-> running, slots |-> times, platforms |-> platforms, perWeek |-> perWeek,
   perDay |-> perDay, approval |-> approval,
   left |-> [crashes |-> crashes, delays |-> delays, failures |-> failures,
             outages |-> outages, requests |-> requests]]

SomeOpenings == { Opening({w1, w2}, {s1}, {p1}, 2, 2, FALSE, 1, 0, 0, 0, 1),
    Opening({w1}, {s1}, {p1}, 2, 2, FALSE, 0, 0, 1, 2, 2),
    Opening({w1, w2}, {s1}, {p1}, 2, 2, FALSE, 0, 1, 1, 1, 0),
    Opening({w1}, {s1}, {p1}, 2, 2, FALSE, 0, 1, 0, 0, 1),
    Opening({w1}, {s1}, {p1, p2}, 2, 2, FALSE, 1, 0, 0, 0, 1),
    Opening({w1}, {s1, s2}, {p1, p2}, 2, 1, TRUE, 0, 0, 0, 1, 1),
    Opening({w1, w2}, {s1, s2}, {p1}, 1, 1, FALSE, 0, 0, 2, 0, 0),
    Opening({w1}, {s1, s2}, {p1}, 1, 2, FALSE, 0, 0, 2, 0, 1),
    Opening({w1}, {s1, s2}, {p1}, 2, 2, FALSE, 1, 0, 3, 0, 0) }
================================================================================
