-------------------------- MODULE MCReprioritization --------------------------
(* Two rooms with one goal each and a third with two of them, not in a row.   *)
EXTENDS Reprioritization

Goal(n, region) ==
    CoveragePlanGoal(<<n, n + 1>>, <<0, 2>>, region,
                     CoverageGoalSpec(n % 3, IF n = 2 THEN 1 ELSE 0,
                                      IF n = 2 THEN 0 ELSE 1, n % 4))
MCPlans == {<<Goal(1, Region1), Goal(2, Region2), Goal(3, <<3, 1>>), Goal(4, Region2)>>}
MCVersions == {0, 26}
\* 300 takes two groups of a varint; "" and "a".
MCU32 == {0, 300}
MCTexts == {<<>>, <<97>>}
MCFloats == {-1, 0}
MCUuids == {<<0, 1>>, <<1, 0>>, <<0, 2>>}
MCPartitions == {<<0, 2>>}
MCOffsets == {-1, 0, 300}
MCRegionLists == {<<Region1>>, <<Region1, Region2>>}
MCCircleLists ==
    {<<GoodCircle, GoodCircle>>} \cup
    {<<c>> : c \in [x_meters: {-1}, y_meters: {0, Junk}, radius_meters: {0, 1}]}
===============================================================================
