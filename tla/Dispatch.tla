------------------------------ MODULE Dispatch ------------------------------
(***************************************************************************)
(* How a compute shader finds out which element it is for: a flat number   *)
(* of groups is split over two dimensions (split_groups of pipeline.rs),   *)
(* and an invocation puts its flat index together again, as a uint of      *)
(* word values (2^32 in the code).                                         *)
(***************************************************************************)
EXTENDS Integers, FiniteSets

WorkGroupSize == 64

div_ceil(a, b) == (a + b - 1) \div b

AtMost(a, b) == IF a < b THEN a ELSE b
AtLeast(a, b) == IF a > b THEN a ELSE b

(* The groups a flat number of elements needs.                             *)
GroupsFor(elements) == div_ceil(elements, WorkGroupSize)

split_groups(groups_x, max_x) ==
    LET gx == AtLeast(AtMost(groups_x, AtLeast(max_x, 1)), 1)
    IN  <<gx, div_ceil(groups_x, gx)>>

Grid(g) == (0 .. g[1] * WorkGroupSize - 1) \X (0 .. g[2] - 1)

(* gl_GlobalInvocationID.y * (gl_NumWorkGroups.x * gl_WorkGroupSize.x)     *)
(* + gl_GlobalInvocationID.x                                               *)
FlatIndex(word, g, at) == (at[2] * (g[1] * WorkGroupSize) + at[1]) % word

(* The invocations whose flat index is i.                                  *)
InvocationsOf(word, i, g) == {at \in Grid(g) : FlatIndex(word, g, at) = i}
=============================================================================
