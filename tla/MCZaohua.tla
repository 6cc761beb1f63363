------------------------------ MODULE MCZaohua ------------------------------
(***************************************************************************)
(* Small instances of Zaohua: the sets of specs the runs choose from.      *)
(***************************************************************************)
EXTENDS ZaohuaScaler

Conf(least, most, metrics, up, down) ==
    [min |-> least, max |-> most, metrics |-> metrics, up |-> up, down |-> down]

Policy(period) == [type |-> "Pods", value |-> 1, period |-> period]
Brisk  == [window |-> 0, select |-> "Min", policies |-> {Policy(1)}]
Slow   == [window |-> 1, select |-> "Min", policies |-> {Policy(1), Policy(2)}]

(* A sound spec, one whose scale-downs crash, and two that always end a    *)
(* round before its write, the first of them in a crash.                   *)
CoreSpecs == {Conf(0, 3, <<"ObjectUtilization", "ObjectAverage">>, Brisk, Brisk),
              Conf(1, 2, <<"ObjectAverage", "Resource">>, Brisk, Nil),
              Conf(Nil, 1, <<"ContainerResource", "Pods", "ObjectAverage">>,
                   [Brisk EXCEPT !.window = Nil], Brisk),
              Conf(0, 1, <<"ObjectUntargeted", "Unsupported">>, Brisk, Brisk)}

(* Both rules, with policies and windows that users make longer or shorter.*)
MemorySpecs == {Conf(0, 2, <<"ObjectAverage">>, Slow, [Slow EXCEPT !.window = 2]),
                Conf(0, 2, <<"ObjectAverage">>, [Brisk EXCEPT !.window = 2], [Slow EXCEPT !.window = 3])}

(* Rules for one direction only: writes need no stabilisation.             *)
LiveSpecs == {Conf(0, 3, <<"ObjectAverage">>, Brisk, Nil)}
=============================================================================
