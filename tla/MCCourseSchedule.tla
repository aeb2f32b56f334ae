-------------------------- MODULE MCCourseSchedule --------------------------
(* Instances of CourseSchedule for TLC. *)
EXTENDS CourseSchedule

CONSTANTS c1, q1, q2

MCOneCourse == {c1}
MCTwoRequests == {q1, q2}
MCIntervals == {2}
MCDelays == {0, 5}
MCInstants == {0, 4}
\* Summer time beside UTC.
MCOffsets == {0, 2}

Perms == Permutations(MCTwoRequests)
=============================================================================
